------------------------------ MODULE EventTable ------------------------------
(***************************************************************************)
(* dovecote_events and dovecote_deliveries as producers use them: callers  *)
(* open a transaction of their own, make enqueue and import calls in it,   *)
(* and commit it or roll it back.  The module holds the tables, the        *)
(* callers' transactions and what a call may answer; the steps of a call   *)
(* differ between the adapters and are in PgProducer, MysqlProducer and    *)
(* SqliteProducer.                                                         *)
(*                                                                         *)
(* A caller keeps the documented discipline: after an error it rolls its   *)
(* transaction back.  Every transaction may be rolled back at any time: a  *)
(* crash, a lost connection, a statement or lock timeout, a deadlock.      *)
(***************************************************************************)
EXTENDS EventRows, FiniteSets, Integers

CONSTANTS
  Sessions,  \* callers' database sessions
  MaxCalls   \* bound on the distinct calls made in one transaction

VARIABLES
  events,  \* the committed rows
  writes,  \* rows inserted by each open transaction
  pc,      \* where each session stands
  call,    \* the call it is making
  told     \* the answers its transaction was given so far

txs == <<writes, pc, call, told>>

Steps == {"enqueue_insert", "enqueue_find", "enqueue_check", "enqueue_delivery",
          "import_insert", "import_find", "import_compare", "import_delivery"}

Call == [op : {"enqueue", "import"}, id : Ids, content : Contents, state : ImportedDeliveryState]

NoCall == [op |-> "none"]

Accepted == {"Enqueued", "AlreadyEnqueued", "Imported", "AlreadyImported"}
Refused == {"IdempotencyConflict", "IdentityConflict", "ImportConflict",
            "MigrationMismatch", "MissingRow", "Transient",
            "WriteTransactionRequired"}

Answer == [call : Call, outcome : Accepted \union Refused]

NoWrites == [i \in Ids |-> Absent]

TxInit ==
  /\ events = [i \in Ids |-> Absent]
  /\ writes = [s \in Sessions |-> NoWrites]
  /\ pc = [s \in Sessions |-> "idle"]
  /\ call = [s \in Sessions |-> NoCall]
  /\ told = [s \in Sessions |-> {}]

\* What a statement of s that reads the latest rows sees: its own insertions and
\* the committed rows.
Latest(s, i) == IF writes[s][i] # Absent THEN writes[s][i] ELSE events[i]

\* Open transactions that have inserted identity i; the unique index makes
\* others wait for them.
Inserters(i) == {s \in Sessions : writes[s][i] # Absent}

\* The call goes on with its next statement.
Proceed(s, step) ==
  /\ pc' = [pc EXCEPT ![s] = step]
  /\ UNCHANGED <<call, told>>

\* The call returns.  A typed error is a refusal the caller answers by rollback.
Return(s, outcome) ==
  /\ pc' = [pc EXCEPT ![s] = IF outcome \in Accepted THEN "open" ELSE "failed"]
  /\ told' = [told EXCEPT ![s] = @ \union {[call |-> call[s], outcome |-> outcome]}]
  /\ call' = [call EXCEPT ![s] = NoCall]

OpenTx(s) ==
  /\ pc[s] = "idle"
  /\ Proceed(s, "open")
  /\ UNCHANGED <<events, writes>>

BeginCall(s, step, c) ==
  /\ pc[s] = "open"
  /\ Cardinality(told[s]) < MaxCalls
  /\ pc' = [pc EXCEPT ![s] = step]
  /\ call' = [call EXCEPT ![s] = c]
  /\ UNCHANGED <<events, writes, told>>

BeginEnqueue(s) ==
  \E c \in Call : /\ c.op = "enqueue" /\ c.state = "pending"
                 /\ BeginCall(s, "enqueue_insert", c)

BeginImport(s) ==
  \E c \in Call : c.op = "import" /\ BeginCall(s, "import_insert", c)

CloseTx(s) ==
  /\ writes' = [writes EXCEPT ![s] = NoWrites]
  /\ pc' = [pc EXCEPT ![s] = "idle"]
  /\ call' = [call EXCEPT ![s] = NoCall]
  /\ told' = [told EXCEPT ![s] = {}]

CommitTx(s) ==
  /\ pc[s] = "open"
  /\ events' = [i \in Ids |-> Latest(s, i)]
  /\ CloseTx(s)

RollbackTx(s) ==
  /\ pc[s] # "idle"
  /\ CloseTx(s)
  /\ UNCHANGED events

\* A worker or a finalising migration commits its change of a delivery.
Work(i) ==
  /\ events[i].delivery = "pending"
  /\ \E d \in Stamps \union {"touched"} : events' = [events EXCEPT ![i].delivery = d]
  /\ UNCHANGED txs

-------------------------------------------------------------------------------
(* Properties.                                                             *)

\* Every variable keeps its type.
TypeOK ==
  /\ events \in [Ids -> Row]
  /\ writes \in [Sessions -> [Ids -> Row]]
  /\ pc \in [Sessions -> Steps \union {"idle", "open", "failed"}]
  /\ call \in [Sessions -> Call \union {NoCall}]
  /\ told \in [Sessions -> SUBSET Answer]

\* An event row with its delivery row.
Complete(row) == row.content # "none" /\ row.delivery # "none"

Ledger == INSTANCE EventLedger WITH ledger <- events

\* Concurrent and repeated calls, refusals and rollbacks included, the committed
\* tables change as EventLedger allows: each identity is recorded once, with its
\* delivery row, and keeps its content.
LedgerRefined == Ledger!Spec

AnswerStands(s, a) ==
  LET row == Latest(s, a.call.id)
  IN  /\ a.outcome \in Accepted =>
           row.content = a.call.content /\ row.delivery # "none"
      /\ a.outcome \in {"Enqueued", "Imported"} => Inserters(a.call.id) = {s}
      /\ a.outcome \in {"IdempotencyConflict", "IdentityConflict"} =>
           row.content \notin {"none", a.call.content}

\* What a transaction was told still holds when it commits: an accepted call
\* names the stored event with exactly that content and a delivery row, a new one
\* was inserted by this transaction, and a conflict names different content.
AnswersStand ==
  \A s \in Sessions : \A a \in told[s] : AnswerStands(s, a)

\* SPEC.md:419-420: "Concurrent insertion of the same identity must resolve to
\* one of these three outcomes": a call ends in Enqueued, AlreadyEnqueued or
\* IdempotencyConflict (Imported, AlreadyImported or a typed conflict), and never
\* in a row that cannot be found or an event without its delivery.
OutcomeResolved ==
  \A s \in Sessions : \A a \in told[s] :
    a.outcome \notin {"MissingRow", "MigrationMismatch"}

\* An import answered AlreadyImported where the delivery cannot change under it
\* (MySQL's locking read, SQLite's write transaction): the state it confirmed is
\* still the stored one when the caller commits.
ReplayHeld ==
  \A s \in Sessions : \A a \in told[s] :
    a.outcome = "AlreadyImported" => Latest(s, a.call.id).delivery = a.call.state

\* Every started call returns: it waits for another producer of the identity
\* only as long as that producer's transaction is open.
CallsEnd == \A s \in Sessions : pc[s] \in Steps ~> pc[s] \notin Steps
===============================================================================
