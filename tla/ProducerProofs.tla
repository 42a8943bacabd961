----------------------------- MODULE ProducerProofs -----------------------------
(***************************************************************************)
(* The producers of the MySQL/MariaDB and of the SQLite adapter implement  *)
(* EventLedger and keep what they answered, for every set of identities,   *)
(* contents, sessions and calls.  The invariants IInv of MysqlProducer and *)
(* of SqliteProducer are inductive.  Frame is the heart of both arguments: *)
(* what the other transactions and the workers do keeps what a transaction *)
(* relies on, with MySQL because of its record locks, with SQLite because  *)
(* there is one writer.                                                    *)
(***************************************************************************)
EXTENDS Producers, FiniteSetTheorems, TLAPS

\* The empty row is a row without content, and the only one with neither part.
LEMMA AbsentIsRow ==
  Absent \in Row /\ Absent.content = "none" /\ Absent.delivery = "none" /\ ~Complete(Absent)
BY Zenon DEF Absent, Row, DeliveryState, Complete

\* What a statement sees has the type of a row.
LEMMA LatestIsRow ==
  ASSUME TypeOK, NEW s \in Sessions, NEW i \in Ids
  PROVE  Latest(s, i) \in Row
BY Zenon DEF TypeOK, Latest

\* How the row of i that u sees may change: not at all, from absent, or in its
\* delivery only, which stays present.
Kept(u, i) ==
  \/ Latest(u, i)' = Latest(u, i)
  \/ Latest(u, i) = Absent
  \/ Latest(u, i)'.content = Latest(u, i).content /\ Latest(u, i)'.delivery # "none"

\* Under such a change every answer given to u stands.
LEMMA StandsKept ==
  ASSUME NEW u \in Sessions, NEW a \in Answer, AnswerStands(u, a),
         Kept(u, a.call.id), Inserters(a.call.id) = {u} => Inserters(a.call.id)' = {u}
  PROVE  AnswerStands(u, a)'
<1> DEFINE i == a.call.id
           row == Latest(u, i)
           new == Latest(u, i)'
<1>1. /\ i \in Ids /\ a.call.content \in Contents /\ a.call.content # "none"
  BY RowsAssumption, Zenon DEF Answer, Call
<1>2. row = Absent => /\ a.outcome \notin Accepted
                      /\ a.outcome \notin {"IdempotencyConflict", "IdentityConflict"}
  BY <1>1, AbsentIsRow, Zenon DEF AnswerStands
<1>3. a.outcome \in {"Enqueued", "Imported"} => Inserters(i)' = {u}
  BY Zenon DEF AnswerStands
<1>4. a.outcome \in Accepted => new.content = a.call.content /\ new.delivery # "none"
  BY <1>2, Zenon DEF AnswerStands, Kept
<1>5. a.outcome \in {"IdempotencyConflict", "IdentityConflict"} =>
        new.content \notin {"none", a.call.content}
  BY <1>2, Zenon DEF AnswerStands, Kept
<1>6. QED
  BY <1>3, <1>4, <1>5, Zenon DEF AnswerStands

-------------------------------------------------------------------------------
(* MySQL: what every step keeps.                                           *)

\* What IInv says of the tables and the locks.
Stored == \A i \in Ids : events[i] = Absent \/ Complete(events[i])

Owned == \A s \in Sessions, i \in Ids :
           writes[s][i] # Absent => events[i] = Absent /\ xlock[i] = s

Tables == TypeOK /\ LocalsOK /\ Stored /\ Owned

\* IInv is the tables' part and, of each transaction, what it may rely on.
LEMMA IInvParts ==
  IInv <=> Tables /\ \A s \in Sessions : SessionInv(s)
BY Zenon DEF IInv, Tables, Stored, Owned

\* The same in the next state.
LEMMA IInvPartsPrime ==
  ASSUME Tables', \A s \in Sessions : SessionInv(s)'
  PROVE  IInv'
BY Zenon DEF IInv, Tables, Stored, Owned

\* The transaction that has inserted an identity is the only one.
LEMMA OneInserter ==
  ASSUME Tables, NEW s \in Sessions, NEW i \in Ids, writes[s][i] # Absent
  PROVE  Inserters(i) = {s}
BY DEF Tables, Owned, Inserters

\* The same in the next state.
LEMMA OneInserterPrime ==
  ASSUME Owned', NEW s \in Sessions, NEW i \in Ids, writes'[s][i] # Absent
  PROVE  Inserters(i)' = {s}
BY DEF Owned, Inserters

\* A row that u has confirmed under its lock stays as it is.
Confirmed(u, i) ==
  dlock[i] = u /\ Latest(u, i).delivery # "none" =>
    dlock'[i] = u /\ Latest(u, i)' = Latest(u, i)

\* What u was told goes on holding while its rows are kept.
LEMMA AnswerKept ==
  ASSUME Tables', NEW u \in Sessions, NEW a \in Answer, AnswerInv(u, a),
         NEW i \in Ids, i = a.call.id, Kept(u, i), Confirmed(u, i),
         Inserters(i) = {u} => writes'[u][i] # Absent,
         told[u] \subseteq told'[u]
  PROVE  AnswerInv(u, a)'
<1>1. AnswerStands(u, a) /\ (Inserters(i) = {u} => Inserters(i)' = {u})
  BY OneInserterPrime, Zenon DEF AnswerInv, Tables
<1>2. AnswerStands(u, a)'
  BY <1>1, StandsKept, Zenon
<1>3. a.outcome = "AlreadyImported" =>
        dlock'[i] = u /\ Latest(u, i)'.delivery = a.call.state
  <2>1. a.call.state # "none"
    BY RowsAssumption, Zenon DEF Answer, Call, ImportedDeliveryState
  <2>2. QED
    BY <2>1, Zenon DEF AnswerInv, Confirmed
<1>4. a.outcome \in {"MissingRow", "MigrationMismatch"} =>
       /\ a.outcome = "MissingRow" /\ a.call.op = "enqueue"
       /\ \E b \in told'[u] : b.outcome \in Accepted
  BY Zenon DEF AnswerInv
<1>5. QED
  BY <1>2, <1>3, <1>4, Zenon DEF AnswerInv

\* The variables of u's transaction.
Untouched(u) ==
  /\ pc'[u] = pc[u] /\ call'[u] = call[u] /\ told'[u] = told[u] /\ writes'[u] = writes[u]
  /\ view'[u] = view[u] /\ inserted'[u] = inserted[u]

\* A transaction that does not move itself can go on relying on its invariant.
LEMMA Frame ==
  ASSUME Tables, Tables', NEW u \in Sessions, SessionInv(u), Untouched(u),
         \A i \in Ids : Kept(u, i) /\ Confirmed(u, i),
         \A i \in Ids : events[i] # Absent => events'[i].content = events[i].content
  PROVE  SessionInv(u)'
<1>1. \A a \in told[u] : a \in Answer /\ a.call.id \in Ids
  BY DEF Tables, TypeOK, Answer, Call
<1>2. \A i \in Ids : Inserters(i) = {u} => writes'[u][i] # Absent
  BY Zenon DEF Inserters, Untouched
<1>3. \A a \in told'[u] : AnswerInv(u, a)'
  <2> SUFFICES ASSUME NEW a \in told[u] PROVE AnswerInv(u, a)'
    BY Zenon DEF Untouched
  <2>1. a \in Answer /\ a.call.id \in Ids /\ AnswerInv(u, a) /\ told[u] \subseteq told'[u]
    BY <1>1, Zenon DEF SessionInv, Untouched
  <2>2. QED
    BY <1>2, <2>1, AnswerKept, Zenon
<1>4. ASSUME pc[u] \in Steps PROVE CallInv(u)'
  <2> DEFINE i == call[u].id
  <2>1. CallInv(u) /\ call[u] \in Call /\ i \in Ids /\ Kept(u, i)
    BY <1>4, Zenon DEF SessionInv, CallInv, Call
  <2>2. Complete(Latest(u, i)) =>
          Complete(Latest(u, i))' /\ Latest(u, i)'.content = Latest(u, i).content
    BY <2>1, AbsentIsRow, Zenon DEF Kept, Complete
  <2>3. view[u] # NoView => Seen(u, i)' = Seen(u, i)
    BY Zenon DEF Seen, View, Untouched
  <2>4. Complete(Seen(u, i)) /\ view[u] # NoView => Complete(Seen(u, i))'
    BY <2>3, Zenon DEF Complete
  <2>5. QED
    BY <2>1, <2>2, <2>3, <2>4, Zenon DEF CallInv, Untouched
<1>5. ViewInv(u)'
  <2> SUFFICES ASSUME view[u] # NoView, NEW i \in Ids, view[u][i] # Absent
               PROVE  Complete(view[u][i])' /\ events'[i].content = view[u][i].content
    BY Zenon DEF ViewInv, Untouched, Complete
  <2>1. Complete(view[u][i]) /\ events[i].content = view[u][i].content
    BY Zenon DEF SessionInv, ViewInv
  <2>2. events[i] # Absent
    BY <2>1, AbsentIsRow, Zenon DEF Complete
  <2>3. QED
    BY <2>1, <2>2, Zenon DEF Complete, Untouched
<1>6. \A i \in Ids : writes'[u][i] # Absent => WrittenInv(u, i)'
  BY DEF SessionInv, WrittenInv, Untouched, Complete
<1>7. QED
  BY <1>3, <1>4, <1>5, <1>6, Zenon DEF SessionInv, Untouched, NoWrites

\* A step of s leaves the transactions of the others alone, stores nothing in
\* place of a stored row and takes no lock from them.
Apart(s) ==
  /\ \A u \in Sessions \ {s} : Untouched(u)
  /\ \A i \in Ids : events'[i] = events[i] \/ events[i] = Absent
  /\ \A i \in Ids : dlock[i] \in Sessions \ {s} => dlock'[i] = dlock[i]

\* Such a step keeps IInv if it keeps the tables and what s relies on.
LEMMA OwnStep ==
  ASSUME IInv, NEW s \in Sessions, Apart(s), Tables', SessionInv(s)'
  PROVE  IInv'
<1>1. ASSUME NEW u \in Sessions, u # s PROVE SessionInv(u)'
  <2>1. Tables /\ SessionInv(u) /\ Untouched(u)
    BY <1>1, IInvParts, Zenon DEF Apart
  <2>2. \A i \in Ids : Latest(u, i)' = Latest(u, i) \/ Latest(u, i) = Absent
    BY <2>1, Zenon DEF Apart, Latest, Untouched
  <2>3. \A i \in Ids : Kept(u, i)
    BY <2>2, Zenon DEF Kept
  <2>4. \A i \in Ids : Confirmed(u, i)
    BY <1>1, <2>2, AbsentIsRow, Zenon DEF Confirmed, Apart
  <2>5. \A i \in Ids : events[i] # Absent => events'[i].content = events[i].content
    BY Zenon DEF Apart
  <2>6. QED
    BY <2>1, <2>3, <2>4, <2>5, Frame, Zenon
<1>2. QED
  BY <1>1, IInvPartsPrime, Zenon

\* A worker changes the delivery of a committed row whose lock nobody holds.
LEMMA WorkStep ==
  ASSUME IInv, NEW i \in Ids, dlock[i] = Free, Work(i), UNCHANGED <<locals, locks>>
  PROVE  IInv'
<1>1. PICK d \in Stamps \union {"touched"} : events' = [events EXCEPT ![i].delivery = d]
  BY Zenon DEF Work
<1>2. /\ Tables /\ TypeOK /\ events[i].delivery = "pending"
      /\ UNCHANGED <<writes, pc, call, told, view, inserted, retries, xlock, shared, dlock>>
  BY IInvParts, Zenon DEF Work, txs, Tables, locals, locks
<1>3. events[i] \in Row /\ events[i] # Absent /\ Complete(events[i])
  BY <1>2, AbsentIsRow, Zenon DEF TypeOK, Tables, Stored
<1>4. d \in DeliveryState /\ d # "none"
  BY RowsAssumption, Zenon DEF DeliveryState, ImportedDeliveryState
<1>5. /\ events' \in [Ids -> Row] /\ events'[i].content = events[i].content
      /\ events'[i].delivery = d /\ \A j \in Ids \ {i} : events'[j] = events[j]
  BY <1>1, <1>2, <1>3, <1>4, Zenon DEF TypeOK, Row
<1>6. TypeOK' /\ LocalsOK'
  BY <1>2, <1>5, Zenon DEF TypeOK, LocalsOK, Tables
<1>7. Stored'
  BY <1>2, <1>3, <1>4, <1>5, Zenon DEF Complete, Stored, Tables
<1>8. Owned'
  BY <1>2, <1>3, <1>5 DEF Owned, Tables
<1>9. ASSUME NEW u \in Sessions PROVE SessionInv(u)'
  <2>1. SessionInv(u) /\ Untouched(u)
    BY <1>2, IInvParts, Zenon DEF Untouched
  <2>2. \A j \in Ids : Kept(u, j)
    BY <1>2, <1>4, <1>5, Zenon DEF Kept, Latest
  <2>3. \A j \in Ids : Confirmed(u, j)
    BY <1>2, <1>5, ProducerAssumption, Zenon DEF Confirmed, Latest
  <2>4. \A j \in Ids : events'[j].content = events[j].content
    BY <1>5, Zenon
  <2>5. QED
    BY <1>2, <1>6, <1>7, <1>8, <2>1, <2>2, <2>3, <2>4, Frame, Zenon DEF Tables
<1>10. QED
  BY <1>6, <1>7, <1>8, <1>9, IInvPartsPrime, Zenon DEF Tables

-------------------------------------------------------------------------------
(* MySQL: a statement of a call, by how the call goes on.                  *)

\* A step of s inserts no rows of the others and takes no lock from them.
OthersApart(s) ==
  /\ \A u \in Sessions \ {s} :
       writes'[u] = writes[u] /\ view'[u] = view[u] /\ inserted'[u] = inserted[u]
  /\ \A i \in Ids : dlock[i] \in Sessions \ {s} => dlock'[i] = dlock[i]

\* It only adds to what s sees.
Grows(s) ==
  \A i \in Ids : /\ Kept(s, i) /\ Confirmed(s, i)
                 /\ writes[s][i] # Absent => writes'[s][i] # Absent

\* A statement that writes no row adds nothing.
LEMMA QuietGrows ==
  ASSUME NEW s \in Sessions, UNCHANGED <<events, writes>>,
         \A i \in Ids : dlock[i] = s => dlock'[i] = s
  PROVE  Grows(s)
BY Zenon DEF Grows, Kept, Confirmed, Latest

\* The answers given before a step of s hold after it.
LEMMA OldAnswers ==
  ASSUME IInv, NEW s \in Sessions, Tables', Grows(s), told[s] \subseteq told'[s],
         NEW a \in told[s]
  PROVE  AnswerInv(s, a)'
<1>1. Tables /\ AnswerInv(s, a)
  BY IInvParts, Zenon DEF SessionInv
<1>2. a \in Answer /\ a.call.id \in Ids
  BY <1>1 DEF Tables, TypeOK, Answer, Call
<1>3. Inserters(a.call.id) = {s} => writes'[s][a.call.id] # Absent
  BY <1>2, Zenon DEF Inserters, Grows
<1>4. QED
  BY <1>1, <1>2, <1>3, AnswerKept, Zenon DEF Grows

\* A statement that ends its call keeps IInv if the answer is right and the rows
\* of the transaction are complete.
LEMMA ReturnStep ==
  ASSUME IInv, NEW s \in Sessions, pc[s] \in Steps,
         NEW outcome \in Accepted \union Refused, Return(s, outcome),
         NEW new \in Answer, new = [call |-> call[s], outcome |-> outcome],
         UNCHANGED events, writes' \in [Sessions -> [Ids -> Row]], LocalsOK', Owned',
         OthersApart(s), Grows(s),
         \A i \in Ids : writes'[s][i] # Absent =>
           Complete(writes'[s][i]) /\ writes'[s][i].delivery # "touched",
         ViewInv(s)', AnswerInv(s, new)'
  PROVE  IInv'
<1>1. Tables /\ TypeOK /\ SessionInv(s)
  BY IInvParts, Zenon DEF Tables
<1>2. TypeOK'
  BY <1>1, Zenon DEF TypeOK, Return
<1>3. Stored'
  BY <1>1, Zenon DEF Tables, Stored, Complete
<1>4. /\ pc'[s] = (IF outcome \in Accepted THEN "open" ELSE "failed")
      /\ told'[s] = told[s] \union {new} /\ Apart(s)
  BY <1>1, Zenon DEF TypeOK, Return, Apart, Untouched, OthersApart
<1>5. Tables'
  BY <1>2, <1>3, Zenon DEF Tables
<1>6. \A a \in told'[s] : AnswerInv(s, a)'
  BY <1>4, <1>5, OldAnswers, Zenon
<1>7. pc'[s] # "failed" => \A a \in told'[s] : a.outcome \in Accepted
  <2>1. \A a \in told[s] : a.outcome \in Accepted
    BY <1>1, Zenon DEF SessionInv, Steps
  <2>2. QED
    BY <1>4, <2>1
<1>8. IsFiniteSet(told'[s])
  <2>1. IsFiniteSet(told[s])
    BY <1>1, Zenon DEF SessionInv
  <2>2. IsFiniteSet(told[s] \union {new})
    BY <2>1, FS_AddElement, Zenon
  <2>3. QED
    BY <1>4, <2>2, Zenon
<1>9. \A i \in Ids : writes'[s][i] # Absent => WrittenInv(s, i)'
  BY Zenon DEF WrittenInv, Complete
<1>10. SessionInv(s)'
  BY <1>4, <1>6, <1>7, <1>8, <1>9, Zenon DEF SessionInv, Steps
<1>11. QED
  BY <1>4, <1>5, <1>10, OwnStep, Zenon

\* A statement that goes on keeps IInv if the call may rely on what the next
\* statement needs.
LEMMA ProceedStep ==
  ASSUME IInv, NEW s \in Sessions, pc[s] \in Steps, NEW step \in Steps, Proceed(s, step),
         UNCHANGED events, writes' \in [Sessions -> [Ids -> Row]], LocalsOK', Owned',
         OthersApart(s), Grows(s), CallInv(s)', ViewInv(s)',
         \A i \in Ids : writes'[s][i] # Absent => WrittenInv(s, i)',
         view'[s] # NoView /\ step \in {"enqueue_insert", "enqueue_find"} => told[s] # {}
  PROVE  IInv'
<1>1. Tables /\ TypeOK /\ SessionInv(s)
  BY IInvParts, Zenon DEF Tables
<1>2. TypeOK'
  BY <1>1, Zenon DEF TypeOK, Proceed
<1>3. Stored'
  BY <1>1, Zenon DEF Tables, Stored, Complete
<1>4. pc'[s] = step /\ told' = told /\ Apart(s)
  BY <1>1, Zenon DEF TypeOK, Proceed, Apart, Untouched, OthersApart
<1>5. Tables'
  BY <1>2, <1>3, Zenon DEF Tables
<1>6. \A a \in told'[s] : AnswerInv(s, a)'
  BY <1>4, <1>5, OldAnswers, Zenon
<1>7. step \notin {"idle", "open", "failed"} /\ pc[s] # "failed"
  BY Zenon DEF Steps
<1>8. SessionInv(s)'
  BY <1>1, <1>4, <1>6, <1>7, Zenon DEF SessionInv
<1>9. QED
  BY <1>4, <1>5, <1>8, OwnStep, Zenon

-------------------------------------------------------------------------------
(* MySQL: one lemma for each action.                                       *)

\* The first plain SELECT fixes the read view at the committed rows.
LEMMA FixedView ==
  ASSUME IInv, NEW s \in Sessions, FixView(s), UNCHANGED events
  PROVE  /\ ViewInv(s)' /\ view' \in [Sessions -> [Ids -> Row] \union {NoView}]
         /\ view'[s] = View(s) /\ view'[s] # NoView
         /\ \A u \in Sessions \ {s} : view'[u] = view[u]
<1>1. Tables /\ TypeOK /\ LocalsOK /\ SessionInv(s)
  BY IInvParts, Zenon DEF Tables
<1>2. View(s) \in [Ids -> Row]
  BY <1>1, Zenon DEF View, TypeOK, LocalsOK
<1>3. /\ view' \in [Sessions -> [Ids -> Row] \union {NoView}] /\ view'[s] = View(s)
      /\ \A u \in Sessions \ {s} : view'[u] = view[u]
  BY <1>1, <1>2, Zenon DEF FixView, LocalsOK
<1>4. view'[s] # NoView
  BY <1>2, <1>3, ProducerAssumption, Zenon
<1>5. ASSUME NEW i \in Ids, View(s)[i] # Absent
      PROVE  Complete(View(s)[i]) /\ events[i].content = View(s)[i].content
  <2>1. CASE view[s] = NoView
    BY <1>1, <1>5, <2>1, Zenon DEF View, Tables, Stored
  <2>2. CASE view[s] # NoView
    BY <1>1, <1>5, <2>2, Zenon DEF View, SessionInv, ViewInv
  <2>3. QED
    BY <2>1, <2>2, Zenon
<1>6. ViewInv(s)'
  BY <1>3, <1>5, Zenon DEF ViewInv, Complete
<1>7. QED
  BY <1>3, <1>4, <1>6, Zenon

\* A new transaction has no rows, no answers and no read view.
LEMMA OpenStep ==
  ASSUME IInv, NEW s \in Sessions, Open(s)
  PROVE  IInv'
<1>1. /\ Tables /\ TypeOK /\ SessionInv(s) /\ pc[s] = "idle"
      /\ pc' = [pc EXCEPT ![s] = "open"] /\ UNCHANGED <<call, told, events, writes>>
      /\ UNCHANGED <<view, inserted, retries, xlock, shared, dlock>>
  BY IInvParts, Zenon DEF Tables, Open, OpenTx, Proceed, locals, locks
<1>2. told[s] = {} /\ writes[s] = NoWrites /\ view[s] = NoView
  BY <1>1, Zenon DEF SessionInv
<1>3. Tables'
  BY <1>1, Zenon DEF Tables, TypeOK, LocalsOK, Stored, Owned, Complete
<1>4. pc'[s] = "open" /\ Apart(s)
  BY <1>1, Zenon DEF TypeOK, Apart, Untouched
<1>5. SessionInv(s)'
  BY <1>1, <1>2, <1>4, Zenon DEF SessionInv, ViewInv, Steps, NoWrites
<1>6. QED
  BY <1>3, <1>4, <1>5, OwnStep, Zenon

\* A call begins; an import has fixed the read view before its first statement.
LEMMA BeginStep ==
  ASSUME IInv, NEW s \in Sessions, Enqueue(s) \/ ImportForMigration(s)
  PROVE  IInv'
<1>1. Tables /\ TypeOK /\ LocalsOK /\ SessionInv(s)
  BY IInvParts, Zenon DEF Tables
<1>2. PICK c \in Call : \/ c.op = "enqueue" /\ BeginCall(s, "enqueue_insert", c) /\ UNCHANGED view
                        \/ BeginCall(s, "import_insert", c) /\ FixView(s)
  BY Zenon DEF Enqueue, ImportForMigration, BeginEnqueue, BeginImport, locals
<1>3. PICK step \in {"enqueue_insert", "import_insert"} :
        /\ BeginCall(s, step, c)
        /\ \/ step = "enqueue_insert" /\ c.op = "enqueue" /\ UNCHANGED view
           \/ step = "import_insert" /\ FixView(s)
  BY <1>2, Zenon
<1>4. /\ pc[s] = "open" /\ pc' = [pc EXCEPT ![s] = step]
      /\ call' = [call EXCEPT ![s] = c] /\ UNCHANGED <<events, writes, told>>
  BY <1>3, Zenon DEF BeginCall
<1>5. UNCHANGED <<inserted, retries, xlock, shared, dlock>>
  BY Zenon DEF Enqueue, ImportForMigration, locals, locks
<1>6. TypeOK' /\ pc'[s] = step /\ call'[s] = c
  BY <1>1, <1>4, Zenon DEF TypeOK, Steps
<1>7. /\ ViewInv(s)' /\ view' \in [Sessions -> [Ids -> Row] \union {NoView}]
      /\ \A u \in Sessions \ {s} : view'[u] = view[u]
  <2>1. CASE UNCHANGED view
    BY <1>1, <1>4, <2>1, Zenon DEF LocalsOK, SessionInv, ViewInv, Complete
  <2>2. CASE FixView(s)
    BY <1>4, <2>2, FixedView, Zenon
  <2>3. QED
    BY <1>3, <2>1, <2>2, Zenon
<1>8. Tables'
  BY <1>1, <1>4, <1>5, <1>6, <1>7 DEF Tables, LocalsOK, Stored, Owned, Complete
<1>9. Apart(s)
  BY <1>1, <1>4, <1>5, <1>7, Zenon DEF Apart, Untouched, TypeOK
<1>10. Grows(s)
  BY <1>4, <1>5, QuietGrows, Zenon
<1>11. \A a \in told'[s] : AnswerInv(s, a)'
  BY <1>4, <1>8, <1>10, OldAnswers, Zenon
<1>12. CallInv(s)'
  BY <1>3, <1>6, Zenon DEF CallInv
<1>13. \A i \in Ids : writes'[s][i] # Absent => WrittenInv(s, i)'
  BY <1>1, <1>4, Zenon DEF SessionInv, WrittenInv, Complete
<1>14. view'[s] # NoView /\ step = "enqueue_insert" => told'[s] # {}
  BY <1>1, <1>3, <1>4, Zenon DEF SessionInv
<1>15. SessionInv(s)'
  BY <1>1, <1>4, <1>6, <1>7, <1>11, <1>12, <1>13, <1>14 DEF SessionInv
<1>16. QED
  BY <1>8, <1>9, <1>15, OwnStep, Zenon

\* The end of a transaction: its locks are free and nothing is left of it.
LEMMA CloseStep ==
  ASSUME IInv, NEW s \in Sessions, CloseTx(s), Release(s), events' \in [Ids -> Row],
         \A i \in Ids : \/ events'[i] = events[i]
                        \/ events[i] = Absent /\ Complete(events'[i]) /\ writes[s][i] # Absent
  PROVE  IInv'
<1>1. Tables /\ TypeOK /\ LocalsOK
  BY IInvParts, Zenon DEF Tables
<1>2. NoWrites \in [Ids -> Row] /\ \A i \in Ids : NoWrites[i] = Absent
  BY AbsentIsRow, Zenon DEF NoWrites
<1>3. TypeOK'
  BY <1>1, <1>2, Zenon DEF TypeOK, CloseTx
<1>4. LocalsOK'
  BY <1>1, Zenon DEF LocalsOK, Release
<1>5. /\ writes'[s] = NoWrites /\ pc'[s] = "idle" /\ told'[s] = {} /\ view'[s] = NoView
      /\ \A u \in Sessions \ {s} : Untouched(u)
  BY <1>1 DEF TypeOK, LocalsOK, CloseTx, Release, Untouched
<1>6. Apart(s)
  BY <1>1, <1>5, Zenon DEF Apart, Release, LocalsOK
<1>7. Stored'
  BY <1>1, Zenon DEF Stored, Tables, Complete
<1>8. Owned'
  <2> SUFFICES ASSUME NEW t \in Sessions, NEW j \in Ids, writes'[t][j] # Absent
               PROVE  events'[j] = Absent /\ xlock'[j] = t
    BY Zenon DEF Owned
  <2>1. t # s /\ writes[t][j] # Absent
    BY <1>2, <1>5, Zenon DEF Untouched
  <2>2. events[j] = Absent /\ xlock[j] = t
    BY <1>1, <2>1, Zenon DEF Tables, Owned
  <2>3. writes[s][j] = Absent
    BY <1>1, <2>1, <2>2, Zenon DEF Tables, Owned
  <2>4. QED
    BY <2>1, <2>2, <2>3, Zenon DEF Release
<1>9. SessionInv(s)'
  <2>1. IsFiniteSet(told'[s])
    BY <1>5, FS_EmptySet, Zenon
  <2>2. QED
    BY <1>2, <1>5, <2>1, Zenon DEF SessionInv, ViewInv, Steps, NoWrites
<1>10. QED
  BY <1>3, <1>4, <1>6, <1>7, <1>8, <1>9, OwnStep, Zenon DEF Tables

\* What a transaction is about to commit: complete rows no worker has seen, of
\* identities that nobody has committed.
LEMMA AboutToCommit ==
  ASSUME IInv, NEW s \in Sessions, pc[s] = "open", NEW i \in Ids, writes[s][i] # Absent
  PROVE  /\ writes[s][i] \in Row /\ Complete(writes[s][i]) /\ writes[s][i].delivery # "touched"
         /\ events[i] = Absent
<1>1. Tables /\ SessionInv(s) /\ writes[s][i] \in Row
  BY IInvParts, Zenon DEF Tables, TypeOK
<1>2. WrittenInv(s, i) /\ events[i] = Absent
  BY <1>1, Zenon DEF SessionInv, Tables, Owned
<1>3. QED
  BY <1>1, <1>2, Zenon DEF WrittenInv

\* COMMIT stores the transaction's rows, ROLLBACK drops them.
LEMMA EndStep ==
  ASSUME IInv, NEW s \in Sessions, Commit(s) \/ Rollback(s)
  PROVE  IInv'
<1>1. CASE Commit(s)
  <2>1. /\ CloseTx(s) /\ Release(s) /\ pc[s] = "open"
        /\ events' = [i \in Ids |-> Latest(s, i)]
    BY <1>1, Zenon DEF Commit, CommitTx
  <2>2. events' \in [Ids -> Row]
    BY <2>1, IInvParts, LatestIsRow, Zenon DEF Tables
  <2>3. ASSUME NEW i \in Ids
        PROVE  \/ events'[i] = events[i]
               \/ events[i] = Absent /\ Complete(events'[i]) /\ writes[s][i] # Absent
    BY <2>1, AboutToCommit, Zenon DEF Latest
  <2>4. QED
    BY <2>1, <2>2, <2>3, CloseStep, Zenon
<1>2. CASE Rollback(s)
  <2>1. CloseTx(s) /\ Release(s) /\ events' = events /\ events \in [Ids -> Row]
    BY <1>2, IInvParts, Zenon DEF Rollback, RollbackTx, Tables, TypeOK
  <2>2. QED
    BY <2>1, CloseStep, Zenon
<1>3. QED
  BY <1>1, <1>2, Zenon

\* What holds of the call of a statement.
LEMMA TheCall ==
  ASSUME IInv, NEW s \in Sessions, pc[s] \in Steps
  PROVE  /\ Tables /\ TypeOK /\ LocalsOK /\ SessionInv(s) /\ CallInv(s) /\ ViewInv(s)
         /\ call[s] \in Call /\ call[s].id \in Ids
         /\ call[s].content \in Contents /\ call[s].content # "none"
         /\ call[s].state \in ImportedDeliveryState
         /\ call[s].state \notin {"none", "touched"}
<1>1. Tables /\ TypeOK /\ LocalsOK /\ SessionInv(s) /\ CallInv(s) /\ ViewInv(s)
  BY IInvParts, Zenon DEF SessionInv, Tables
<1>2. call[s] \in Call
  BY <1>1, Zenon DEF CallInv
<1>3. QED
  BY <1>1, <1>2, RowsAssumption, Zenon DEF Call, ImportedDeliveryState

\* Outside the statements after the INSERT of its event, the rows of a transaction
\* are complete.
LEMMA WrittenComplete ==
  ASSUME IInv, NEW s \in Sessions,
         pc[s] \notin {"enqueue_find", "enqueue_check", "import_find"} \/ ~inserted[s],
         NEW i \in Ids, writes[s][i] # Absent
  PROVE  Complete(writes[s][i]) /\ writes[s][i].delivery # "touched"
BY IInvParts, Zenon DEF SessionInv, WrittenInv

\* The INSERT of the event: a new row under this transaction's lock, or the
\* complete row that is there.
LEMMA InsertEventStep ==
  ASSUME IInv, NEW s \in Sessions, EnqueueInsert(s) \/ ImportInsert(s)
  PROVE  IInv'
<1>1. PICK next \in {"enqueue_find", "import_find"} :
        /\ pc[s] = (IF next = "enqueue_find" THEN "enqueue_insert" ELSE "import_insert")
        /\ InsertEvent(s, next)
  BY Zenon DEF EnqueueInsert, ImportInsert
<1>2. pc[s] \in Steps /\ next \in Steps /\ pc[s] \in {"enqueue_insert", "import_insert"}
  BY <1>1, Zenon DEF Steps
<1>3. /\ Tables /\ TypeOK /\ LocalsOK /\ SessionInv(s) /\ CallInv(s) /\ ViewInv(s)
      /\ call[s] \in Call /\ call[s].content # "none"
  BY <1>2, TheCall, Zenon
<1>4. PICK c \in Call : c = call[s]
  BY <1>3, Zenon
<1>5. PICK i \in Ids : i = c.id
  BY Zenon DEF Call
<1>6. /\ xlock[i] \in {s, Free} /\ inserted' = [inserted EXCEPT ![s] = Latest(s, i) = Absent]
      /\ Proceed(s, next) /\ UNCHANGED <<events, view, retries, dlock>>
  BY <1>1, <1>4, <1>5, Zenon DEF InsertEvent, BlocksShared
<1>7. /\ inserted' \in [Sessions -> BOOLEAN] /\ inserted'[s] = (Latest(s, i) = Absent)
      /\ \A u \in Sessions \ {s} : inserted'[u] = inserted[u]
  BY <1>3, <1>6, Zenon DEF LocalsOK
<1>8. /\ pc'[s] = next /\ call'[s] = c /\ ViewInv(s)'
      /\ view'[s] # NoView /\ next = "enqueue_find" => told[s] # {}
  BY <1>1, <1>3, <1>4, <1>6 DEF TypeOK, Proceed, ViewInv, SessionInv, Complete
<1>9. \A j \in Ids : writes[s][j] # Absent =>
        Complete(writes[s][j]) /\ writes[s][j].delivery # "touched"
  BY <1>2, WrittenComplete, Zenon
<1>10. CASE Latest(s, i) # Absent
  <2>1. ~inserted'[s] /\ shared' = [shared EXCEPT ![i] = @ \union {s}] /\ UNCHANGED <<writes, xlock>>
    BY <1>1, <1>4, <1>5, <1>7, <1>10, Zenon DEF InsertEvent
  <2>2. Complete(Latest(s, i)) /\ Latest(s, i)' = Latest(s, i)
    BY <1>3, <1>6, <1>9, <1>10, <2>1 DEF Latest, Tables, Stored
  <2>3. CallInv(s)'
    BY <1>1, <1>3, <1>4, <1>5, <1>8, <2>1, <2>2 DEF CallInv, Complete
  <2>4. LocalsOK' /\ Owned' /\ writes' \in [Sessions -> [Ids -> Row]]
    BY <1>3, <1>6, <1>7, <2>1 DEF LocalsOK, Owned, Tables, TypeOK
  <2>5. OthersApart(s) /\ Grows(s)
    BY <1>6, <1>7, <2>1, QuietGrows, Zenon DEF OthersApart
  <2>6. \A j \in Ids : writes'[s][j] # Absent => WrittenInv(s, j)'
    BY <1>9, <2>1, Zenon DEF WrittenInv, Complete
  <2>7. QED
    BY <1>2, <1>6, <1>8, <2>3, <2>4, <2>5, <2>6, ProceedStep
<1>11. CASE Latest(s, i) = Absent
  <2>1. /\ inserted'[s] /\ writes' = [writes EXCEPT ![s][i].content = c.content]
        /\ xlock' = [xlock EXCEPT ![i] = s] /\ UNCHANGED shared
    BY <1>1, <1>4, <1>5, <1>7, <1>11, Zenon DEF InsertEvent
  <2>2. writes[s][i] = Absent /\ events[i] = Absent
    BY <1>11, Zenon DEF Latest
  <2>3. PICK row \in Row : row = [content |-> c.content, delivery |-> "none"]
    BY Zenon DEF Row, DeliveryState, Call
  <2>4. row # Absent /\ [writes[s][i] EXCEPT !.content = c.content] = row
    BY <1>3, <1>4, <2>2, <2>3 DEF Absent
  <2>5. writes' = [writes EXCEPT ![s] = [writes[s] EXCEPT ![i] = row]]
    BY <1>3, <2>1, <2>4, Zenon DEF TypeOK
  <2>6. /\ writes' \in [Sessions -> [Ids -> Row]] /\ writes'[s][i] = row
        /\ \A j \in Ids \ {i} : writes'[s][j] = writes[s][j]
        /\ \A t \in Sessions \ {s} : writes'[t] = writes[t]
    BY <1>3, <2>5, Zenon DEF TypeOK
  <2>7. LocalsOK' /\ OthersApart(s)
    BY <1>3, <1>6, <1>7, <2>1, <2>6 DEF LocalsOK, OthersApart
  <2>8. Owned'
    <3> SUFFICES ASSUME NEW t \in Sessions, NEW j \in Ids, writes'[t][j] # Absent
                 PROVE  events[j] = Absent /\ xlock'[j] = t
      BY <1>6, Zenon DEF Owned
    <3>1. CASE j = i
      <4>1. t = s
        BY <3>1, <1>3, <1>6, <2>6, ProducerAssumption DEF Tables, Owned
      <4>2. QED
        BY <3>1, <4>1, <1>3, <2>1, <2>2, Zenon DEF LocalsOK
    <3>2. CASE j # i
      BY <3>2, <1>3, <2>1, <2>6 DEF Tables, Owned, LocalsOK
    <3>3. QED
      BY <3>1, <3>2, Zenon
  <2>9. Grows(s)
    BY <1>6, <1>11, <2>2, <2>4, <2>6, AbsentIsRow DEF Grows, Kept, Confirmed, Latest
  <2>10. CallInv(s)'
    BY <1>1, <1>3, <1>4, <1>5, <1>8, <2>1, <2>3, <2>6 DEF CallInv
  <2>11. \A j \in Ids : writes'[s][j] # Absent => WrittenInv(s, j)'
    BY <1>5, <1>8, <1>9, <2>1, <2>6 DEF WrittenInv, Complete
  <2>12. QED
    BY <1>2, <1>6, <1>8, <2>6, <2>7, <2>8, <2>9, <2>10, <2>11, ProceedStep, Zenon
<1>12. QED
  BY <1>10, <1>11, Zenon

\* A call that inserted nothing is answered without a write.
LEMMA QuietReturn ==
  ASSUME IInv, NEW s \in Sessions, pc[s] \in Steps, ~inserted[s],
         NEW outcome \in Accepted \union Refused, Return(s, outcome),
         UNCHANGED <<events, writes, inserted>>, LocalsOK', Owned', ViewInv(s)',
         \A u \in Sessions \ {s} : view'[u] = view[u],
         \A i \in Ids : dlock[i] \in Sessions => dlock'[i] = dlock[i],
         NEW new \in Answer, new = [call |-> call[s], outcome |-> outcome], AnswerInv(s, new)'
  PROVE  IInv'
<1>1. TypeOK
  BY TheCall, Zenon
<1>2. OthersApart(s) /\ Grows(s) /\ writes' \in [Sessions -> [Ids -> Row]]
  BY <1>1, QuietGrows, Zenon DEF OthersApart, TypeOK
<1>3. \A i \in Ids : writes'[s][i] # Absent =>
        Complete(writes'[s][i]) /\ writes'[s][i].delivery # "touched"
  BY WrittenComplete, Zenon
<1>4. QED
  BY <1>2, <1>3, ReturnStep, Zenon

\* A row found in the read view is complete and still stored with that content.
LEMMA SeenRow ==
  ASSUME IInv, NEW s \in Sessions, NEW i \in Ids, Seen(s, i) # Absent,
         writes[s][i] # Absent => Complete(writes[s][i])
  PROVE  Complete(Seen(s, i)) /\ Latest(s, i).content = Seen(s, i).content
<1>1. Tables /\ ViewInv(s)
  BY IInvParts, Zenon DEF SessionInv
<1>2. CASE writes[s][i] # Absent
  BY <1>2, Zenon DEF Seen, Latest
<1>3. CASE writes[s][i] = Absent /\ view[s] = NoView
  BY <1>1, <1>3, Zenon DEF Seen, Latest, View, Tables, Stored
<1>4. CASE writes[s][i] = Absent /\ view[s] # NoView
  BY <1>1, <1>4, Zenon DEF Seen, Latest, View, ViewInv
<1>5. QED
  BY <1>2, <1>3, <1>4, Zenon

\* The plain SELECT of an enqueue finds the row the call inserted, or the duplicate,
\* unless an earlier call has fixed a read view without it.
LEMMA EnqueueFindStep ==
  ASSUME IInv, NEW s \in Sessions, EnqueueFind(s)
  PROVE  IInv'
<1>1. /\ pc[s] = "enqueue_find" /\ pc[s] \in Steps /\ FixView(s)
      /\ UNCHANGED <<events, writes, inserted, retries, xlock, shared, dlock>>
  BY Zenon DEF EnqueueFind, Steps, locks
<1>2. /\ Tables /\ TypeOK /\ LocalsOK /\ SessionInv(s) /\ CallInv(s)
      /\ call[s] \in Call /\ call[s].content # "none"
  BY <1>1, TheCall, Zenon
<1>3. PICK c \in Call : c = call[s]
  BY <1>2, Zenon
<1>4. PICK i \in Ids : i = c.id
  BY Zenon DEF Call
<1>5. c.op = "enqueue"
  BY <1>1, <1>2, <1>3, Zenon DEF CallInv
<1>6. /\ ViewInv(s)' /\ view' \in [Sessions -> [Ids -> Row] \union {NoView}]
      /\ view'[s] = View(s) /\ view'[s] # NoView
      /\ \A u \in Sessions \ {s} : view'[u] = view[u]
  BY <1>1, FixedView, Zenon
<1>7. LocalsOK' /\ Owned'
  BY <1>1, <1>2, <1>6 DEF LocalsOK, Owned, Tables
<1>8. Seen(s, i)' = Seen(s, i)
  BY <1>1, <1>6, Zenon DEF Seen, View
<1>9. ASSUME Proceed(s, "enqueue_check"),
             IF inserted[s] THEN writes[s][i] = [content |-> c.content, delivery |-> "none"]
                            ELSE Complete(Seen(s, i)) /\ Seen(s, i).content = c.content
      PROVE  IInv'
  <2>1. pc'[s] = "enqueue_check" /\ call'[s] = c
    BY <1>2, <1>3, <1>9, Zenon DEF TypeOK, Proceed
  <2>2. CallInv(s)'
    BY <1>1, <1>3, <1>4, <1>5, <1>6, <1>8, <1>9, <2>1 DEF CallInv, Complete
  <2>3. OthersApart(s) /\ Grows(s) /\ writes' \in [Sessions -> [Ids -> Row]]
    BY <1>1, <1>2, <1>6, QuietGrows, Zenon DEF OthersApart, TypeOK
  <2>4. \A j \in Ids : writes'[s][j] # Absent => WrittenInv(s, j)'
    BY <1>1, <1>2, <1>3, <2>1 DEF SessionInv, WrittenInv, Complete
  <2>5. QED
    BY <1>1, <1>6, <1>7, <1>9, <2>2, <2>3, <2>4, ProceedStep DEF Steps
<1>10. CASE inserted[s]
  <2>1. writes[s][i] = [content |-> c.content, delivery |-> "none"]
    BY <1>1, <1>2, <1>3, <1>4, <1>10, Zenon DEF CallInv
  <2>2. Seen(s, i) # Absent /\ Seen(s, i).content = c.content
    BY <1>2, <1>3, <2>1 DEF Seen, Absent
  <2>3. Proceed(s, "enqueue_check")
    BY <1>3, <1>4, <2>2, Zenon DEF EnqueueFind, same_event
  <2>4. QED
    BY <1>9, <1>10, <2>1, <2>3, Zenon
<1>11. CASE ~inserted[s]
  <2>1. Complete(Latest(s, i)) /\ (writes[s][i] # Absent => Complete(writes[s][i]))
    BY <1>1, <1>2, <1>3, <1>4, <1>11, Zenon DEF CallInv, Latest
  <2>2. ASSUME NEW outcome \in Accepted \union Refused, Return(s, outcome),
               NEW new \in Answer, new = [call |-> c, outcome |-> outcome], AnswerInv(s, new)'
        PROVE  IInv'
    BY <1>1, <1>3, <1>6, <1>7, <1>11, <2>2, QuietReturn, Zenon
  <2>3. CASE Seen(s, i) = Absent
    <3>1. PICK outcome \in Accepted \union Refused : outcome = "MissingRow"
      BY Zenon DEF Refused
    <3>2. PICK new \in Answer : new = [call |-> c, outcome |-> outcome]
      BY Zenon DEF Answer
    <3>3. Return(s, outcome)
      BY <1>3, <1>4, <2>3, <3>1, Zenon DEF EnqueueFind
    <3>4. view[s] # NoView
      BY <2>1, <2>3, AbsentIsRow, Zenon DEF Seen, Latest, View
    <3>5. \E b \in told[s] : b.outcome \in Accepted
      BY <1>1, <1>2, <3>4, Zenon DEF SessionInv
    <3>6. told[s] \subseteq told'[s]
      BY <1>2, <3>3, Zenon DEF Return, TypeOK
    <3>7. AnswerStands(s, new)'
      BY <3>1, <3>2, Zenon DEF AnswerStands, Accepted
    <3>8. AnswerInv(s, new)'
      BY <1>5, <3>1, <3>2, <3>5, <3>6, <3>7, Zenon DEF AnswerInv
    <3>9. QED
      BY <2>2, <3>2, <3>3, <3>8, Zenon
  <2>4. CASE Seen(s, i) # Absent
    <3>1. Complete(Seen(s, i)) /\ Latest(s, i).content = Seen(s, i).content
      BY <2>1, <2>4, SeenRow, Zenon
    <3>2. CASE Seen(s, i).content = c.content
      <4>1. Proceed(s, "enqueue_check")
        BY <1>3, <1>4, <2>4, <3>2, Zenon DEF EnqueueFind, same_event
      <4>2. QED
        BY <1>9, <1>11, <3>1, <3>2, <4>1, Zenon
    <3>3. CASE Seen(s, i).content # c.content
      <4>1. PICK outcome \in Accepted \union Refused : outcome = "IdempotencyConflict"
        BY Zenon DEF Refused
      <4>2. PICK new \in Answer : new = [call |-> c, outcome |-> outcome]
        BY Zenon DEF Answer
      <4>3. Return(s, outcome)
        BY <1>3, <1>4, <2>4, <3>3, <4>1, Zenon DEF EnqueueFind, same_event
      <4>4. AnswerStands(s, new)'
        BY <1>1, <1>4, <3>1, <3>3, <4>1, <4>2, Zenon DEF AnswerStands, Accepted, Latest, Complete
      <4>5. AnswerInv(s, new)'
        BY <4>1, <4>2, <4>4, Zenon DEF AnswerInv
      <4>6. QED
        BY <2>2, <4>2, <4>3, <4>5, Zenon
    <3>4. QED
      BY <3>2, <3>3, Zenon
  <2>5. QED
    BY <2>3, <2>4, Zenon
<1>12. QED
  BY <1>10, <1>11, Zenon

\* The INSERT of the delivery completes the row of the call.
LEMMA DeliveryStep ==
  ASSUME IInv, NEW s \in Sessions, pc[s] \in Steps, inserted[s],
         NEW outcome \in {"Enqueued", "Imported"}, InsertDelivery(s, outcome),
         writes[s][call[s].id] = [content |-> call[s].content, delivery |-> "none"],
         UNCHANGED <<events, view, inserted, dlock>>, LocalsOK',
         \A j \in Ids : xlock'[j] = xlock[j] \/ (xlock'[j] = s /\ j = call[s].id)
  PROVE  IInv'
<1>1. /\ Tables /\ TypeOK /\ LocalsOK /\ SessionInv(s) /\ CallInv(s) /\ ViewInv(s)
      /\ call[s] \in Call /\ call[s].content # "none"
      /\ call[s].state \in ImportedDeliveryState /\ call[s].state \notin {"none", "touched"}
  BY TheCall, Zenon
<1>2. PICK c \in Call : c = call[s]
  BY <1>1, Zenon
<1>3. PICK i \in Ids : i = c.id
  BY Zenon DEF Call
<1>4. writes[s][i] = [content |-> c.content, delivery |-> "none"] /\ writes[s][i] # Absent
  BY <1>1, <1>2, <1>3 DEF Absent
<1>5. PICK row \in Row : row = [content |-> c.content, delivery |-> c.state]
  BY Zenon DEF Row, DeliveryState, Call
<1>6. [writes[s][i] EXCEPT !.delivery = c.state] = row
  BY <1>4, <1>5
<1>7. writes' = [writes EXCEPT ![s] = [writes[s] EXCEPT ![i] = row]]
  BY <1>1, <1>2, <1>3, <1>6, Zenon DEF TypeOK, InsertDelivery
<1>8. /\ writes' \in [Sessions -> [Ids -> Row]] /\ writes'[s][i] = row
      /\ \A j \in Ids \ {i} : writes'[s][j] = writes[s][j]
      /\ \A t \in Sessions \ {s} : writes'[t] = writes[t]
  BY <1>1, <1>7 DEF TypeOK
<1>9. row # Absent /\ Complete(row) /\ row.delivery # "touched"
  BY <1>1, <1>2, <1>5, Zenon DEF Absent, Complete
<1>10. PICK new \in Answer : new = [call |-> c, outcome |-> outcome]
  BY Zenon DEF Answer, Accepted
<1>11. Owned'
  <2> SUFFICES ASSUME NEW t \in Sessions, NEW j \in Ids, writes'[t][j] # Absent
               PROVE  events[j] = Absent /\ xlock'[j] = t
    BY DEF Owned
  <2>1. writes[t][j] # Absent
    BY <1>4, <1>8
  <2>2. events[j] = Absent /\ xlock[j] = t
    BY <2>1, <1>1, Zenon DEF Tables, Owned
  <2>3. xlock[i] = s
    BY <1>1, <1>4, Zenon DEF Tables, Owned
  <2>4. QED
    BY <2>2, <2>3, <1>2, <1>3
<1>12. OthersApart(s)
  BY <1>8, Zenon DEF OthersApart
<1>13. Latest(s, i)' = row /\ Latest(s, i) = writes[s][i]
  BY <1>4, <1>8, <1>9, Zenon DEF Latest
<1>14. \A j \in Ids \ {i} : Latest(s, j)' = Latest(s, j)
  BY <1>8, Zenon DEF Latest
<1>15. Grows(s)
  <2>1. Kept(s, i) /\ Confirmed(s, i)
    BY <1>4, <1>5, <1>9, <1>13 DEF Kept, Confirmed, Complete
  <2>2. \A j \in Ids \ {i} : Kept(s, j) /\ Confirmed(s, j)
    BY <1>14, Zenon DEF Kept, Confirmed
  <2>3. QED
    BY <1>4, <1>8, <1>9, <2>1, <2>2 DEF Grows
<1>16. \A j \in Ids : writes'[s][j] # Absent =>
         Complete(writes'[s][j]) /\ writes'[s][j].delivery # "touched"
  <2> SUFFICES ASSUME NEW j \in Ids, j # i, writes[s][j] # Absent
               PROVE  Complete(writes[s][j]) /\ writes[s][j].delivery # "touched"
    BY <1>8, <1>9
  <2>1. QED
    BY <1>1, <1>2, <1>3, Zenon DEF SessionInv, WrittenInv
<1>17. ViewInv(s)'
  BY <1>1, Zenon DEF ViewInv, Complete
<1>18. Inserters(i)' = {s}
  BY <1>8, <1>9, <1>11, OneInserterPrime, Zenon
<1>19. AnswerStands(s, new)'
  BY <1>1, <1>2, <1>3, <1>5, <1>10, <1>13, <1>18 DEF AnswerStands
<1>20. AnswerInv(s, new)'
  BY <1>10, <1>19, Zenon DEF AnswerInv
<1>21. QED
  BY <1>2, <1>8, <1>10, <1>11, <1>12, <1>15, <1>16, <1>17, <1>20, ReturnStep
     DEF InsertDelivery, Accepted

\* The duplicate of an enqueue has its delivery row; the new event is given one.
LEMMA EnqueueCheckStep ==
  ASSUME IInv, NEW s \in Sessions, EnqueueCheck(s)
  PROVE  IInv'
<1>1. /\ pc[s] = "enqueue_check" /\ pc[s] \in Steps
      /\ UNCHANGED <<events, view, inserted, retries, xlock, shared, dlock>>
  BY Zenon DEF EnqueueCheck, Steps, locals, locks
<1>2. /\ Tables /\ TypeOK /\ LocalsOK /\ SessionInv(s) /\ CallInv(s) /\ ViewInv(s)
      /\ call[s] \in Call /\ call[s].content # "none"
  BY <1>1, TheCall, Zenon
<1>3. PICK c \in Call : c = call[s]
  BY <1>2, Zenon
<1>4. PICK i \in Ids : i = c.id
  BY Zenon DEF Call
<1>5. LocalsOK' /\ ViewInv(s)'
  BY <1>1, <1>2, Zenon DEF LocalsOK, ViewInv, Complete
<1>6. CASE inserted[s]
  <2>1. writes[s][i] = [content |-> c.content, delivery |-> "none"]
    BY <1>1, <1>2, <1>3, <1>4, <1>6, Zenon DEF CallInv
  <2>2. Seen(s, i).delivery = "none"
    BY <1>2, <1>3, <2>1 DEF Seen, Absent
  <2>3. InsertDelivery(s, "Enqueued")
    BY <1>3, <1>4, <1>6, <2>2, Zenon DEF EnqueueCheck
  <2>4. QED
    BY <1>1, <1>3, <1>4, <1>5, <1>6, <2>1, <2>3, DeliveryStep, Zenon
<1>7. CASE ~inserted[s]
  <2>1. Complete(Seen(s, i)) /\ Seen(s, i).content = c.content
    BY <1>1, <1>2, <1>3, <1>4, <1>7, Zenon DEF CallInv
  <2>2. PICK outcome \in Accepted \union Refused : outcome = "AlreadyEnqueued"
    BY Zenon DEF Accepted
  <2>3. Return(s, outcome) /\ UNCHANGED writes
    BY <1>3, <1>4, <2>1, <2>2, Zenon DEF EnqueueCheck, Complete
  <2>4. PICK new \in Answer : new = [call |-> c, outcome |-> outcome]
    BY Zenon DEF Answer
  <2>5. \A j \in Ids : writes[s][j] # Absent => Complete(writes[s][j])
    BY <1>7, WrittenComplete, Zenon
  <2>6. Latest(s, i).content = c.content /\ Latest(s, i) \in Row
    BY <1>2, <1>4, <2>1, <2>5, SeenRow, AbsentIsRow, LatestIsRow
  <2>7. Complete(Latest(s, i))
    BY <1>2, <1>3, <2>5, <2>6, AbsentIsRow DEF Latest, Tables, Stored
  <2>8. AnswerStands(s, new)'
    BY <1>1, <1>4, <2>2, <2>3, <2>4, <2>6, <2>7 DEF AnswerStands, Latest, Complete
  <2>9. AnswerInv(s, new)'
    BY <2>2, <2>4, <2>8, Zenon DEF AnswerInv
  <2>10. Owned'
    BY <1>1, <1>2, <2>3, Zenon DEF Owned, Tables
  <2>11. QED
    BY <1>1, <1>3, <1>5, <1>7, <2>3, <2>4, <2>9, <2>10, QuietReturn, Zenon
<1>8. QED
  BY <1>6, <1>7, Zenon

\* Error 1020: the locking read is tried again, or the call fails.
LEMMA RecordChangedStep ==
  ASSUME IInv, NEW s \in Sessions, RecordChanged(s)
  PROVE  IInv'
<1>1. /\ pc[s] = "import_find" /\ pc[s] \in Steps /\ ~inserted[s]
      /\ UNCHANGED <<events, writes, view, inserted, xlock, shared, dlock>>
  BY Zenon DEF RecordChanged, Steps, locks
<1>2. /\ Tables /\ TypeOK /\ LocalsOK /\ SessionInv(s) /\ ViewInv(s) /\ call[s] \in Call
  BY <1>1, TheCall, Zenon
<1>3. Stored' /\ Owned' /\ ViewInv(s)'
  BY <1>1, <1>2, Zenon DEF Tables, Stored, Owned, ViewInv, Complete
<1>4. CASE retries[s] < MAX_RECORD_CHANGED_RETRIES
  <2>1. retries' = [retries EXCEPT ![s] = @ + 1] /\ UNCHANGED <<pc, call, told>>
    BY <1>4, Zenon DEF RecordChanged
  <2>2. Tables'
    BY <1>1, <1>2, <1>3, <2>1 DEF Tables, TypeOK, LocalsOK
  <2>3. Untouched(s) /\ Apart(s)
    BY <1>1, <2>1, Zenon DEF Untouched, Apart
  <2>4. \A i \in Ids : Kept(s, i) /\ Confirmed(s, i)
    BY <1>1, Zenon DEF Kept, Confirmed, Latest
  <2>5. SessionInv(s)'
    BY <1>1, <1>2, <2>2, <2>3, <2>4, Frame, Zenon
  <2>6. QED
    BY <2>2, <2>3, <2>5, OwnStep, Zenon
<1>5. CASE ~(retries[s] < MAX_RECORD_CHANGED_RETRIES)
  <2>1. PICK outcome \in Accepted \union Refused : outcome = "Transient"
    BY Zenon DEF Refused
  <2>2. PICK new \in Answer : new = [call |-> call[s], outcome |-> outcome]
    BY <1>2, Zenon DEF Answer
  <2>3. retries' = [retries EXCEPT ![s] = 0] /\ Return(s, outcome)
    BY <1>5, <2>1, Zenon DEF RecordChanged
  <2>4. LocalsOK'
    BY <1>1, <1>2, <2>3, Zenon DEF LocalsOK
  <2>5. AnswerInv(s, new)'
    BY <2>1, <2>2, Zenon DEF AnswerInv, AnswerStands, Accepted
  <2>6. QED
    BY <1>1, <1>3, <2>2, <2>3, <2>4, <2>5, QuietReturn, Zenon
<1>6. QED
  BY <1>4, <1>5, Zenon

\* The locking read of an import sees the latest row: the one it inserted, or the
\* duplicate.
LEMMA ImportFindStep ==
  ASSUME IInv, NEW s \in Sessions, ImportFind(s)
  PROVE  IInv'
<1>1. /\ pc[s] = "import_find" /\ pc[s] \in Steps
      /\ UNCHANGED <<events, view, inserted, shared, dlock>>
      /\ retries' = [retries EXCEPT ![s] = 0]
  BY Zenon DEF ImportFind, Steps
<1>2. /\ Tables /\ TypeOK /\ LocalsOK /\ SessionInv(s) /\ CallInv(s) /\ ViewInv(s)
      /\ call[s] \in Call /\ call[s].content # "none"
  BY <1>1, TheCall, Zenon
<1>3. PICK c \in Call : c = call[s]
  BY <1>2, Zenon
<1>4. PICK i \in Ids : i = c.id
  BY Zenon DEF Call
<1>5. xlock[i] \in {s, Free} /\ xlock' = [xlock EXCEPT ![i] = s]
  BY <1>3, <1>4, Zenon DEF ImportFind, BlocksExclusive
<1>6. LocalsOK' /\ ViewInv(s)' /\ \A j \in Ids : xlock'[j] = xlock[j] \/ (xlock'[j] = s /\ j = i)
  BY <1>1, <1>2, <1>5, Zenon DEF LocalsOK, ViewInv, Complete
<1>7. CASE inserted[s]
  <2>1. writes[s][i] = [content |-> c.content, delivery |-> "none"]
    BY <1>1, <1>2, <1>3, <1>4, <1>7, Zenon DEF CallInv
  <2>2. Latest(s, i) # Absent
    BY <1>2, <1>3, <2>1 DEF Latest, Absent
  <2>3. InsertDelivery(s, "Imported")
    BY <1>3, <1>4, <1>7, <2>2, Zenon DEF ImportFind, LockedRow
  <2>4. QED
    BY <1>1, <1>3, <1>4, <1>6, <1>7, <2>1, <2>3, DeliveryStep, Zenon
<1>8. CASE ~inserted[s]
  <2>1. Complete(Latest(s, i)) /\ Latest(s, i) # Absent
    BY <1>1, <1>2, <1>3, <1>4, <1>8, AbsentIsRow DEF CallInv
  <2>2. UNCHANGED writes
    BY <1>3, <1>4, <1>8, <2>1, Zenon DEF ImportFind, LockedRow
  <2>3. Owned'
    <3> SUFFICES ASSUME NEW t \in Sessions, NEW j \in Ids, writes[t][j] # Absent
                 PROVE  events[j] = Absent /\ xlock'[j] = t
      BY <1>1, <2>2, Zenon DEF Owned
    <3>1. events[j] = Absent /\ xlock[j] = t
      BY <1>2, Zenon DEF Tables, Owned
    <3>2. QED
      BY <3>1, <1>5, <1>6, ProducerAssumption, Zenon
  <2>4. Latest(s, i)' = Latest(s, i)
    BY <1>1, <2>2, Zenon DEF Latest
  <2>5. CASE Latest(s, i).content = c.content
    <3>1. Proceed(s, "import_compare")
      BY <1>3, <1>4, <1>8, <2>1, <2>5, Zenon DEF ImportFind, LockedRow, same_event
    <3>2. pc'[s] = "import_compare" /\ call'[s] = c
      BY <1>2, <1>3, <3>1, Zenon DEF TypeOK, Proceed
    <3>3. CallInv(s)'
      BY <1>1, <1>3, <1>4, <1>8, <2>1, <2>4, <2>5, <3>2 DEF CallInv, Complete
    <3>4. OthersApart(s) /\ Grows(s) /\ writes' \in [Sessions -> [Ids -> Row]]
      BY <1>1, <1>2, <2>2, QuietGrows, Zenon DEF OthersApart, TypeOK
    <3>5. \A j \in Ids : writes[s][j] # Absent =>
            Complete(writes[s][j]) /\ writes[s][j].delivery # "touched"
      BY <1>8, WrittenComplete, Zenon
    <3>6. \A j \in Ids : writes'[s][j] # Absent => WrittenInv(s, j)'
      BY <2>2, <3>5, Zenon DEF WrittenInv, Complete
    <3>7. QED
      BY <1>1, <1>6, <2>3, <3>1, <3>3, <3>4, <3>6, ProceedStep DEF Steps
  <2>6. CASE Latest(s, i).content # c.content
    <3>1. PICK outcome \in Accepted \union Refused : outcome = "IdentityConflict"
      BY Zenon DEF Refused
    <3>2. PICK new \in Answer : new = [call |-> c, outcome |-> outcome]
      BY Zenon DEF Answer
    <3>3. Return(s, outcome)
      BY <1>3, <1>4, <1>8, <2>1, <2>6, <3>1 DEF ImportFind, LockedRow, same_event
    <3>4. AnswerInv(s, new)'
      BY <1>4, <2>1, <2>4, <2>6, <3>1, <3>2 DEF AnswerInv, AnswerStands, Accepted, Complete
    <3>5. QED
      BY <1>1, <1>3, <1>6, <1>8, <2>2, <2>3, <3>2, <3>3, <3>4, QuietReturn
  <2>7. QED
    BY <2>5, <2>6, Zenon
<1>9. QED
  BY <1>7, <1>8, Zenon

\* The delivery of the duplicate is compared under its lock.
LEMMA ImportCompareStep ==
  ASSUME IInv, NEW s \in Sessions, ImportCompare(s)
  PROVE  IInv'
<1>1. /\ pc[s] = "import_compare" /\ pc[s] \in Steps
      /\ UNCHANGED <<events, writes, view, inserted, retries, xlock, shared>>
  BY Zenon DEF ImportCompare, Steps, locals
<1>2. /\ Tables /\ TypeOK /\ LocalsOK /\ SessionInv(s) /\ CallInv(s) /\ ViewInv(s)
      /\ call[s] \in Call
  BY <1>1, TheCall, Zenon
<1>3. PICK c \in Call : c = call[s]
  BY <1>2, Zenon
<1>4. PICK i \in Ids : i = c.id
  BY Zenon DEF Call
<1>5. ~inserted[s] /\ Complete(Latest(s, i)) /\ Latest(s, i).content = c.content
  BY <1>1, <1>2, <1>3, <1>4, Zenon DEF CallInv
<1>6. dlock[i] \in {s, Free} /\ dlock' = [dlock EXCEPT ![i] = s]
  BY <1>3, <1>4, Zenon DEF ImportCompare, LockDelivery
<1>7. /\ LocalsOK' /\ Owned' /\ ViewInv(s)' /\ dlock'[i] = s
      /\ \A j \in Ids : dlock[j] \in Sessions => dlock'[j] = dlock[j]
  BY <1>1, <1>2, <1>6, ProducerAssumption DEF LocalsOK, Owned, Tables, ViewInv, Complete
<1>8. PICK outcome \in Accepted \union Refused :
        /\ Return(s, outcome) /\ outcome \in {"AlreadyImported", "ImportConflict"}
        /\ outcome = "AlreadyImported" => Latest(s, i).delivery = c.state
  BY <1>3, <1>4, <1>5 DEF ImportCompare, LockedRow, delivery_matches, Complete, Accepted, Refused
<1>9. PICK new \in Answer : new = [call |-> c, outcome |-> outcome]
  BY Zenon DEF Answer
<1>10. Latest(s, i)' = Latest(s, i)
  BY <1>1, Zenon DEF Latest
<1>11. AnswerStands(s, new)'
  BY <1>4, <1>5, <1>8, <1>9, <1>10, Zenon DEF AnswerStands, Accepted, Complete
<1>12. AnswerInv(s, new)'
  BY <1>4, <1>7, <1>8, <1>9, <1>10, <1>11, Zenon DEF AnswerInv
<1>13. QED
  BY <1>1, <1>3, <1>5, <1>7, <1>8, <1>9, <1>12, QuietReturn

\* Nothing is stored, nothing is locked and nobody has been told anything.
LEMMA InitInv ==
  ASSUME Init
  PROVE  IInv
<1>1. /\ events = [i \in Ids |-> Absent] /\ writes = [s \in Sessions |-> NoWrites]
      /\ pc = [s \in Sessions |-> "idle"] /\ call = [s \in Sessions |-> NoCall]
      /\ told = [s \in Sessions |-> {}] /\ view = [s \in Sessions |-> NoView]
  BY Zenon DEF Init, TxInit
<1>2. NoWrites \in [Ids -> Row] /\ \A i \in Ids : NoWrites[i] = Absent
  BY AbsentIsRow, Zenon DEF NoWrites
<1>3. TypeOK
  BY <1>1, <1>2, AbsentIsRow, Zenon DEF TypeOK
<1>4. LocalsOK
  BY Zenon DEF Init, LocalsOK
<1>5. \A s \in Sessions : SessionInv(s)
  <2>1. \A s \in Sessions : IsFiniteSet(told[s])
    BY <1>1, FS_EmptySet, Zenon
  <2>2. QED
    BY <1>1, <1>2, <2>1, Zenon DEF SessionInv, ViewInv, Steps
<1>6. QED
  BY <1>1, <1>2, <1>3, <1>4, <1>5, Zenon DEF IInv

\* Every step of a caller or a worker keeps IInv.
LEMMA NextInv ==
  ASSUME IInv, [Next]_vars
  PROVE  IInv'
<1>1. ASSUME NEW s \in Sessions, Open(s) PROVE IInv'
  BY <1>1, OpenStep, Zenon
<1>2. ASSUME NEW s \in Sessions, Enqueue(s) \/ ImportForMigration(s) PROVE IInv'
  BY <1>2, BeginStep, Zenon
<1>3. ASSUME NEW s \in Sessions, Continue(s) PROVE IInv'
  <2>1. CASE EnqueueInsert(s) \/ ImportInsert(s)
    BY <2>1, InsertEventStep, Zenon
  <2>2. CASE EnqueueFind(s)
    BY <2>2, EnqueueFindStep, Zenon
  <2>3. CASE EnqueueCheck(s)
    BY <2>3, EnqueueCheckStep, Zenon
  <2>4. CASE ImportFind(s)
    BY <2>4, ImportFindStep, Zenon
  <2>5. CASE ImportCompare(s)
    BY <2>5, ImportCompareStep, Zenon
  <2>6. QED
    BY <1>3, <2>1, <2>2, <2>3, <2>4, <2>5 DEF Continue
<1>4. ASSUME NEW s \in Sessions, RecordChanged(s) PROVE IInv'
  BY <1>4, RecordChangedStep, Zenon
<1>5. ASSUME NEW s \in Sessions, Commit(s) \/ Rollback(s) PROVE IInv'
  BY <1>5, EndStep, Zenon
<1>6. ASSUME NEW i \in Ids, dlock[i] = Free, Work(i), UNCHANGED <<locals, locks>> PROVE IInv'
  BY <1>6, WorkStep, Zenon
<1>7. CASE UNCHANGED vars
  <2>1. UNCHANGED <<events, writes, pc, call, told, view, inserted, retries, xlock, shared, dlock>>
    BY <1>7, Zenon DEF vars, txs, locals, locks
  <2>2. Tables /\ Tables'
    BY <2>1, IInvParts, Zenon DEF Tables, TypeOK, LocalsOK, Stored, Owned, Complete
  <2>3. ASSUME NEW u \in Sessions PROVE SessionInv(u)'
    <3>1. SessionInv(u) /\ Untouched(u)
      BY <2>1, IInvParts, Zenon DEF Untouched
    <3>2. \A i \in Ids : Kept(u, i) /\ Confirmed(u, i)
      BY <2>1, Zenon DEF Kept, Confirmed, Latest
    <3>3. QED
      BY <2>1, <2>2, <3>1, <3>2, Frame, Zenon
  <2>4. QED
    BY <2>2, <2>3, IInvPartsPrime, Zenon
<1>8. QED
  BY <1>1, <1>2, <1>3, <1>4, <1>5, <1>6, <1>7, Zenon DEF Next

\* Whatever MySQL producers and workers interleave, committed events are complete,
\* an uncommitted one is locked by its transaction, and every transaction of
\* enqueue_for_scope and import_for_scope is consistent with what it has read and
\* was told.
THEOREM MysqlProducerInductive == Spec => []IInv
<1>1. Init => IInv
  BY InitInv, Zenon
<1>2. IInv /\ [Next]_vars => IInv'
  BY NextInv, Zenon
<1>3. QED
  BY <1>1, <1>2, PTL DEF Spec

\* A commit records the identities the transaction inserted.
LEMMA CommitRecords ==
  ASSUME IInv, NEW s \in Sessions, Commit(s)
  PROVE  \E S \in SUBSET Ids : Ledger!Record(S)
<1> DEFINE S == {i \in Ids : writes[s][i] # Absent}
           content == [i \in S |-> writes[s][i].content]
           state == [i \in S |-> writes[s][i].delivery]
<1>1. pc[s] = "open" /\ events' = [i \in Ids |-> Latest(s, i)]
  BY Zenon DEF Commit, CommitTx
<1>2. ASSUME NEW i \in S
      PROVE  /\ writes[s][i].content \in Contents
             /\ writes[s][i].delivery \in ImportedDeliveryState
             /\ writes[s][i] = [content |-> content[i], delivery |-> state[i]]
             /\ events[i] = Absent
  <2>1. /\ writes[s][i] \in Row /\ Complete(writes[s][i])
        /\ writes[s][i].delivery # "touched" /\ events[i] = Absent
    BY <1>1, AboutToCommit, Zenon
  <2>2. QED
    BY <2>1, Zenon DEF Row, Complete, DeliveryState
<1>3. content \in [S -> Contents] /\ state \in [S -> ImportedDeliveryState]
  BY <1>2, Zenon
<1>4. events' = [i \in Ids |-> IF i \in S THEN [content |-> content[i], delivery |-> state[i]]
                                          ELSE events[i]]
  BY <1>1, <1>2, Zenon DEF Latest
<1>5. \A i \in S : events[i] = Ledger!Absent
  BY <1>2, Zenon DEF Absent, Ledger!Absent
<1>6. content \in [S -> Contents] /\ state \in [S -> Ledger!ImportedDeliveryState]
  BY <1>3, Zenon DEF ImportedDeliveryState, Ledger!ImportedDeliveryState
<1> HIDE DEF content, state
<1>7. Ledger!Record(S)
  BY <1>4, <1>5, <1>6, Zenon DEF Ledger!Record
<1>8. QED
  BY <1>7, Zenon

\* Every step of MySQL's producers and workers is a step of the ledger, or none.
LEMMA MysqlLedgerStep ==
  ASSUME IInv, Next
  PROVE  Ledger!Next \/ UNCHANGED events
<1>1. ASSUME NEW s \in Sessions, Commit(s) PROVE Ledger!Next
  BY <1>1, CommitRecords, Zenon DEF Ledger!Next
<1>2. ASSUME NEW i \in Ids, Work(i) PROVE Ledger!Next
  BY <1>2, Zenon DEF Work, Ledger!Next, Ledger!Deliver
<1>3. ASSUME NEW s \in Sessions,
             \/ Open(s) \/ Enqueue(s) \/ ImportForMigration(s) \/ Continue(s)
             \/ RecordChanged(s) \/ Rollback(s)
      PROVE  UNCHANGED events
  BY <1>3, Zenon DEF Open, OpenTx, Enqueue, BeginEnqueue, ImportForMigration, BeginImport,
              BeginCall, Continue, EnqueueInsert, ImportInsert, InsertEvent,
              EnqueueFind, EnqueueCheck, ImportFind, ImportCompare, RecordChanged,
              Rollback, RollbackTx
<1>4. QED
  BY <1>1, <1>2, <1>3, Zenon DEF Next

-------------------------------------------------------------------------------
(* SQLite: the writer is alone.                                            *)

\* What Sqlite!IInv says of the tables and the writer.
SqStored == \A i \in Ids : events[i] = Sqlite!Absent \/ Sqlite!Complete(events[i])

SqOwned == \A s \in Sessions, i \in Ids :
             writes[s][i] # Sqlite!Absent => events[i] = Sqlite!Absent /\ mode[s] = "write"

OneWriter == \A s, t \in Sessions : mode[s] = "write" /\ mode[t] = "write" => s = t

SqTables ==
  Sqlite!TypeOK /\ mode \in [Sessions -> Sqlite!Modes] /\ OneWriter /\ SqStored /\ SqOwned

\* The invariant is the tables' part and, of each transaction, what it may rely on.
LEMMA SqParts ==
  Sqlite!IInv <=> SqTables /\ \A s \in Sessions : Sqlite!SessionInv(s)
BY Zenon DEF Sqlite!IInv, SqTables, SqStored, SqOwned, OneWriter

\* The same in the next state.
LEMMA SqPartsPrime ==
  ASSUME SqTables', \A s \in Sessions : Sqlite!SessionInv(s)'
  PROVE  Sqlite!IInv'
BY Zenon DEF Sqlite!IInv, SqTables, SqStored, SqOwned, OneWriter

\* The empty row is a row without content, and the only one with neither part.
LEMMA SqAbsentIsRow ==
  /\ Sqlite!Absent \in Sqlite!Row /\ ~Sqlite!Complete(Sqlite!Absent)
  /\ Sqlite!Absent.content = "none" /\ Sqlite!Absent.delivery = "none"
BY Zenon DEF Sqlite!Absent, Sqlite!Row, Sqlite!DeliveryState, Sqlite!Complete

\* A transaction that is not the writer has inserted nothing, was told nothing but
\* to become the writer, and has at most begun a call.
LEMMA NotTheWriter ==
  ASSUME Sqlite!IInv, NEW u \in Sessions, mode[u] # "write"
  PROVE  /\ \A i \in Ids : writes[u][i] = Sqlite!Absent
         /\ \A a \in told[u] : a.outcome = "WriteTransactionRequired"
         /\ pc[u] \in Sqlite!Steps => pc[u] \in {"enqueue_insert", "import_insert"} /\ call[u] \in Sqlite!Call
<1>1. SqTables /\ Sqlite!SessionInv(u)
  BY SqParts, Zenon
<1>2. \A i \in Ids : writes[u][i] = Sqlite!Absent
  BY <1>1, Zenon DEF SqTables, SqOwned
<1>3. \A a \in told[u] : a.outcome = "WriteTransactionRequired"
  BY <1>1, Zenon DEF Sqlite!SessionInv, Sqlite!AnswerInv
<1>4. QED
  BY <1>1, <1>2, <1>3, Zenon DEF Sqlite!SessionInv, Sqlite!CallInv

\* The variables of u's transaction; a commit makes a reader's snapshot stale.
SqUntouched(u) ==
  /\ pc'[u] = pc[u] /\ call'[u] = call[u] /\ told'[u] = told[u] /\ writes'[u] = writes[u]
  /\ mode'[u] = mode[u] \/ (mode[u] = "reading" /\ mode'[u] = "stale")

\* A transaction that does not move itself can go on relying on its invariant: it is
\* not the writer, or nothing is written.
LEMMA SqFrame ==
  ASSUME Sqlite!IInv, NEW u \in Sessions, SqUntouched(u),
         mode[u] # "write" \/ UNCHANGED <<events, writes>>
  PROVE  Sqlite!SessionInv(u)'
<1>1. SqTables /\ Sqlite!SessionInv(u)
  BY SqParts, Zenon
<1>2. CASE mode[u] # "write"
  <2>1. /\ \A i \in Ids : writes'[u][i] = Sqlite!Absent
        /\ \A a \in told'[u] : a.outcome = "WriteTransactionRequired"
        /\ pc'[u] \in Sqlite!Steps =>
             pc'[u] \in {"enqueue_insert", "import_insert"} /\ call'[u] \in Sqlite!Call
    BY <1>2, NotTheWriter, Zenon DEF SqUntouched
  <2>2. \A a \in told'[u] : Sqlite!AnswerInv(u, a)'
    BY <2>1, Zenon DEF Sqlite!AnswerInv, Sqlite!AnswerStands, Sqlite!Accepted
  <2>3. pc'[u] \in Sqlite!Steps => Sqlite!CallInv(u)'
    BY <2>1, Zenon DEF Sqlite!CallInv
  <2>4. pc'[u] = "idle" => told'[u] = {} /\ writes'[u] = Sqlite!NoWrites /\ mode'[u] = "none"
    BY <1>1, Zenon DEF Sqlite!SessionInv, SqUntouched
  <2>5. QED
    BY <2>1, <2>2, <2>3, <2>4, Zenon DEF Sqlite!SessionInv, Sqlite!NoWrites
<1>3. CASE mode[u] = "write" /\ UNCHANGED <<events, writes>>
  <2>1. mode'[u] = mode[u] /\ pc'[u] = pc[u] /\ call'[u] = call[u] /\ told'[u] = told[u]
    BY <1>3, Zenon DEF SqUntouched
  <2>2. \A i : Sqlite!Latest(u, i)' = Sqlite!Latest(u, i) /\ Sqlite!Inserters(i)' = Sqlite!Inserters(i)
    BY <1>3, Zenon DEF Sqlite!Latest, Sqlite!Inserters
  <2>3. \A a \in told'[u] : Sqlite!AnswerInv(u, a)'
    BY <1>1, <2>1, <2>2 DEF Sqlite!SessionInv, Sqlite!AnswerInv, Sqlite!AnswerStands
  <2>4. pc'[u] \in Sqlite!Steps => Sqlite!CallInv(u)'
    BY <1>1, <1>3, <2>1, <2>2, Zenon DEF Sqlite!SessionInv, Sqlite!CallInv, Sqlite!Complete
  <2>5. \A i \in Ids : writes'[u][i] # Sqlite!Absent => Sqlite!WrittenInv(u, i)'
    BY <1>1, <1>3, <2>1, Zenon DEF Sqlite!SessionInv, Sqlite!WrittenInv, Sqlite!Complete
  <2>6. QED
    BY <1>1, <1>3, <2>1, <2>3, <2>4, <2>5 DEF Sqlite!SessionInv, Sqlite!NoWrites
<1>4. QED
  BY <1>2, <1>3, Zenon

\* A step of s leaves the others' transactions alone, and writes only as the writer.
SqApart(s) ==
  /\ \A u \in Sessions \ {s} : SqUntouched(u)
  /\ mode[s] = "write" \/ UNCHANGED <<events, writes>>

\* Such a step keeps the invariant if it keeps the tables and what s relies on.
LEMMA SqOwnStep ==
  ASSUME Sqlite!IInv, NEW s \in Sessions, SqApart(s), SqTables', Sqlite!SessionInv(s)'
  PROVE  Sqlite!IInv'
<1>1. ASSUME NEW u \in Sessions, u # s PROVE Sqlite!SessionInv(u)'
  <2>1. SqUntouched(u) /\ (mode[u] # "write" \/ UNCHANGED <<events, writes>>)
    BY <1>1, SqParts, Zenon DEF SqApart, SqTables, OneWriter
  <2>2. QED
    BY <2>1, SqFrame, Zenon
<1>2. QED
  BY <1>1, SqPartsPrime, Zenon

\* The transaction that has inserted an identity is the only one: it is the writer.
LEMMA SqOneInserterPrime ==
  ASSUME OneWriter', SqOwned', NEW s \in Sessions, NEW i \in Ids, writes'[s][i] # Sqlite!Absent
  PROVE  Sqlite!Inserters(i)' = {s}
BY DEF OneWriter, SqOwned, Sqlite!Inserters

\* A step of s leaves the rows it sees alone, inserts a row that was absent or
\* completes one that had no delivery.
SqGrows(s) ==
  \A i \in Ids :
    /\ \/ Sqlite!Latest(s, i)' = Sqlite!Latest(s, i)
       \/ Sqlite!Latest(s, i) = Sqlite!Absent
       \/ /\ Sqlite!Latest(s, i).delivery = "none"
          /\ Sqlite!Latest(s, i)'.content = Sqlite!Latest(s, i).content
    /\ writes[s][i] # Sqlite!Absent => writes'[s][i] # Sqlite!Absent

\* A statement that writes no row adds nothing.
LEMMA SqQuietGrows ==
  ASSUME NEW s \in Sessions, UNCHANGED <<events, writes>>
  PROVE  SqGrows(s)
BY Zenon DEF SqGrows, Sqlite!Latest

\* The answers given before a step of s hold after it.
LEMMA SqOldAnswers ==
  ASSUME Sqlite!IInv, NEW s \in Sessions, OneWriter', SqOwned', SqGrows(s),
         mode'[s] = mode[s], NEW a \in told[s]
  PROVE  Sqlite!AnswerInv(s, a)'
<1>1. SqTables /\ Sqlite!AnswerInv(s, a)
  BY SqParts, Zenon DEF Sqlite!SessionInv
<1>2. a \in Sqlite!Answer
  BY <1>1, Zenon DEF SqTables, Sqlite!TypeOK
<1>3. PICK i \in Ids : i = a.call.id
  BY <1>2, Zenon DEF Sqlite!Answer, Sqlite!Call
<1>4. a.call.content # "none" /\ a.call.state # "none"
  BY <1>2, RowsAssumption, Zenon DEF Sqlite!Answer, Sqlite!Call, Sqlite!ImportedDeliveryState
<1> DEFINE row == Sqlite!Latest(s, i)
           new == Sqlite!Latest(s, i)'
<1>5. new = row \/ row = Sqlite!Absent \/ (row.delivery = "none" /\ new.content = row.content)
  BY Zenon DEF SqGrows
<1>6. a.outcome \in Sqlite!Accepted => row.delivery # "none" /\ new = row
  BY <1>1, <1>3, <1>4, <1>5, SqAbsentIsRow DEF Sqlite!AnswerInv, Sqlite!AnswerStands
<1>7. a.outcome \in {"IdempotencyConflict", "IdentityConflict"} => new.content = row.content
  BY <1>1, <1>3, <1>5, SqAbsentIsRow, Zenon DEF Sqlite!AnswerInv, Sqlite!AnswerStands
<1>8. a.outcome \in {"Enqueued", "Imported"} => Sqlite!Inserters(i)' = {s}
  <2>1. a.outcome \in {"Enqueued", "Imported"} => writes[s][i] # Sqlite!Absent
    BY <1>1, <1>3, Zenon DEF Sqlite!AnswerInv, Sqlite!AnswerStands, Sqlite!Inserters
  <2>2. QED
    BY <2>1, SqOneInserterPrime, Zenon DEF SqGrows
<1>9. Sqlite!AnswerStands(s, a)'
  BY <1>1, <1>3, <1>6, <1>7, <1>8 DEF Sqlite!AnswerInv, Sqlite!AnswerStands
<1>10. a.outcome = "AlreadyImported" => new.delivery = a.call.state
  BY <1>1, <1>3, <1>6, Zenon DEF Sqlite!AnswerInv, Sqlite!Accepted
<1>11. QED
  BY <1>1, <1>3, <1>9, <1>10, Zenon DEF Sqlite!AnswerInv

\* A step of s inserts no rows of the others, and none unless s is the writer.
SqOwnRows(s) ==
  /\ writes' \in [Sessions -> [Ids -> Sqlite!Row]] /\ SqOwned'
  /\ \A u \in Sessions \ {s} : writes'[u] = writes[u]
  /\ mode[s] = "write" \/ UNCHANGED writes

\* A statement that ends its call keeps the invariant if the answer is right and
\* the rows of the transaction are complete.
LEMMA SqReturnStep ==
  ASSUME Sqlite!IInv, NEW s \in Sessions,
         NEW outcome \in Sqlite!Accepted \union Sqlite!Refused, Sqlite!Return(s, outcome),
         NEW new \in Sqlite!Answer, new = [call |-> call[s], outcome |-> outcome],
         UNCHANGED <<events, mode>>, SqOwnRows(s), SqGrows(s),
         \A i \in Ids : writes'[s][i] # Sqlite!Absent =>
           Sqlite!Complete(writes'[s][i]) /\ writes'[s][i].delivery # "touched",
         Sqlite!AnswerInv(s, new)'
  PROVE  Sqlite!IInv'
<1>1. SqTables /\ Sqlite!TypeOK
  BY SqParts, Zenon DEF SqTables
<1>2. Sqlite!TypeOK'
  BY <1>1, Zenon DEF Sqlite!TypeOK, Sqlite!Return, SqOwnRows
<1>3. SqStored' /\ OneWriter' /\ mode' \in [Sessions -> Sqlite!Modes]
  BY <1>1, Zenon DEF SqTables, SqStored, OneWriter, Sqlite!Complete
<1>4. /\ pc'[s] = (IF outcome \in Sqlite!Accepted THEN "open" ELSE "failed")
      /\ told'[s] = told[s] \union {new} /\ SqApart(s)
  BY <1>1, Zenon DEF Sqlite!TypeOK, Sqlite!Return, SqApart, SqUntouched, SqOwnRows
<1>5. SqTables'
  BY <1>2, <1>3, Zenon DEF SqTables, SqOwnRows
<1>6. \A a \in told'[s] : Sqlite!AnswerInv(s, a)'
  BY <1>3, <1>4, SqOldAnswers, Zenon DEF SqOwnRows
<1>7. \A i \in Ids : writes'[s][i] # Sqlite!Absent => Sqlite!WrittenInv(s, i)'
  BY Zenon DEF Sqlite!WrittenInv, Sqlite!Complete
<1>8. Sqlite!SessionInv(s)'
  BY <1>4, <1>6, <1>7, Zenon DEF Sqlite!SessionInv, Sqlite!Steps
<1>9. QED
  BY <1>4, <1>5, <1>8, SqOwnStep

\* A statement that goes on keeps the invariant if the call may rely on what the
\* next statement needs.
LEMMA SqProceedStep ==
  ASSUME Sqlite!IInv, NEW s \in Sessions, NEW step \in Sqlite!Steps, Sqlite!Proceed(s, step),
         UNCHANGED <<events, mode>>, SqOwnRows(s), SqGrows(s), Sqlite!CallInv(s)',
         \A i \in Ids : writes'[s][i] # Sqlite!Absent => Sqlite!WrittenInv(s, i)'
  PROVE  Sqlite!IInv'
<1>1. SqTables /\ Sqlite!TypeOK
  BY SqParts, Zenon DEF SqTables
<1>2. Sqlite!TypeOK'
  BY <1>1, Zenon DEF Sqlite!TypeOK, Sqlite!Proceed, SqOwnRows
<1>3. SqStored' /\ OneWriter' /\ mode' \in [Sessions -> Sqlite!Modes]
  BY <1>1, Zenon DEF SqTables, SqStored, OneWriter, Sqlite!Complete
<1>4. pc'[s] = step /\ told' = told /\ SqApart(s)
  BY <1>1, Zenon DEF Sqlite!TypeOK, Sqlite!Proceed, SqApart, SqUntouched, SqOwnRows
<1>5. SqTables'
  BY <1>2, <1>3, Zenon DEF SqTables, SqOwnRows
<1>6. \A a \in told'[s] : Sqlite!AnswerInv(s, a)'
  BY <1>3, <1>4, SqOldAnswers, Zenon DEF SqOwnRows
<1>7. step # "idle"
  BY Zenon DEF Sqlite!Steps
<1>8. Sqlite!SessionInv(s)'
  BY <1>4, <1>6, <1>7, Zenon DEF Sqlite!SessionInv
<1>9. QED
  BY <1>4, <1>5, <1>8, SqOwnStep, Zenon

-------------------------------------------------------------------------------
(* SQLite: one lemma for each action.                                      *)

\* A transaction begins, with nothing written or told; BEGIN IMMEDIATE makes it the
\* writer when there is none.
LEMMA SqOpenStep ==
  ASSUME Sqlite!IInv, NEW s \in Sessions, Sqlite!BeginImmediate(s) \/ Sqlite!BeginDeferred(s)
  PROVE  Sqlite!IInv'
<1>1. PICK m \in Sqlite!Modes :
        mode' = [mode EXCEPT ![s] = m] /\ (m = "write" => \A t \in Sessions : mode[t] # "write")
  BY Zenon DEF Sqlite!BeginImmediate, Sqlite!BeginDeferred, Sqlite!SetMode, Sqlite!Modes, Sqlite!NoWriter
<1>2. /\ SqTables /\ Sqlite!TypeOK /\ Sqlite!SessionInv(s) /\ pc[s] = "idle"
      /\ pc' = [pc EXCEPT ![s] = "open"] /\ UNCHANGED <<call, told, events, writes>>
  BY SqParts, Zenon DEF SqTables, Sqlite!BeginImmediate, Sqlite!BeginDeferred, Sqlite!OpenTx, Sqlite!Proceed
<1>3. told[s] = {} /\ writes[s] = Sqlite!NoWrites /\ mode[s] = "none"
  BY <1>2, Zenon DEF Sqlite!SessionInv
<1>4. /\ mode' \in [Sessions -> Sqlite!Modes] /\ mode'[s] = m
      /\ \A u \in Sessions \ {s} : mode'[u] = mode[u]
  BY <1>1, <1>2, Zenon DEF SqTables
<1>5. Sqlite!TypeOK' /\ SqStored'
  BY <1>2, Zenon DEF SqTables, Sqlite!TypeOK, SqStored, Sqlite!Complete
<1>6. OneWriter'
  BY <1>1, <1>2, <1>4, Zenon DEF OneWriter, SqTables
<1>7. SqOwned'
  BY <1>2, <1>3, <1>4, Zenon DEF SqOwned, SqTables, Sqlite!NoWrites
<1>8. pc'[s] = "open" /\ SqApart(s)
  BY <1>2, <1>4, Zenon DEF Sqlite!TypeOK, SqApart, SqUntouched
<1>9. Sqlite!SessionInv(s)'
  BY <1>2, <1>3, <1>8, Zenon DEF Sqlite!SessionInv, Sqlite!Steps, Sqlite!NoWrites
<1>10. QED
  BY <1>4, <1>5, <1>6, <1>7, <1>8, <1>9, SqOwnStep DEF SqTables

\* The application's own read or first write in a deferred transaction.
LEMMA SqAppStep ==
  ASSUME Sqlite!IInv, NEW s \in Sessions, Sqlite!AppRead(s) \/ Sqlite!AppWrite(s)
  PROVE  Sqlite!IInv'
<1>1. PICK m \in Sqlite!Modes :
        mode' = [mode EXCEPT ![s] = m] /\ (m = "write" => \A t \in Sessions : mode[t] # "write")
  BY Zenon DEF Sqlite!AppRead, Sqlite!AppWrite, Sqlite!SetMode, Sqlite!Modes, Sqlite!NoWriter
<1>2. /\ SqTables /\ Sqlite!TypeOK /\ pc[s] = "open" /\ mode[s] # "write"
      /\ UNCHANGED <<events, writes, pc, call, told>>
  BY SqParts, Zenon DEF SqTables, Sqlite!AppRead, Sqlite!AppWrite, Sqlite!txs
<1>3. /\ \A i \in Ids : writes[s][i] = Sqlite!Absent
      /\ \A a \in told[s] : a.outcome = "WriteTransactionRequired"
  BY <1>2, NotTheWriter, Zenon
<1>4. /\ mode' \in [Sessions -> Sqlite!Modes] /\ mode'[s] = m
      /\ \A u \in Sessions \ {s} : mode'[u] = mode[u]
  BY <1>1, <1>2, Zenon DEF SqTables
<1>5. Sqlite!TypeOK' /\ SqStored'
  BY <1>2, Zenon DEF SqTables, Sqlite!TypeOK, SqStored, Sqlite!Complete
<1>6. OneWriter'
  BY <1>1, <1>2, <1>4, Zenon DEF OneWriter, SqTables
<1>7. SqOwned'
  BY <1>2, <1>3, <1>4, Zenon DEF SqOwned, SqTables
<1>8. SqApart(s)
  BY <1>2, <1>4, Zenon DEF SqApart, SqUntouched
<1>9. \A a \in told'[s] : Sqlite!AnswerInv(s, a)'
  BY <1>2, <1>3, Zenon DEF Sqlite!AnswerInv, Sqlite!AnswerStands, Sqlite!Accepted
<1>10. Sqlite!SessionInv(s)'
  BY <1>2, <1>3, <1>9, Zenon DEF Sqlite!SessionInv, Sqlite!Steps
<1>11. QED
  BY <1>4, <1>5, <1>6, <1>7, <1>8, <1>10, SqOwnStep DEF SqTables

\* A call begins.
LEMMA SqBeginStep ==
  ASSUME Sqlite!IInv, NEW s \in Sessions, Sqlite!Enqueue(s) \/ Sqlite!ImportForMigration(s)
  PROVE  Sqlite!IInv'
<1>1. SqTables /\ Sqlite!TypeOK /\ Sqlite!SessionInv(s)
  BY SqParts, Zenon DEF SqTables
<1>2. PICK c \in Sqlite!Call : \/ Sqlite!BeginCall(s, "enqueue_insert", c)
                               \/ Sqlite!BeginCall(s, "import_insert", c)
  BY Zenon DEF Sqlite!Enqueue, Sqlite!ImportForMigration, Sqlite!BeginEnqueue, Sqlite!BeginImport
<1>3. PICK step \in {"enqueue_insert", "import_insert"} : Sqlite!BeginCall(s, step, c)
  BY <1>2, Zenon
<1>4. /\ pc[s] = "open" /\ pc' = [pc EXCEPT ![s] = step] /\ call' = [call EXCEPT ![s] = c]
      /\ UNCHANGED <<events, writes, told, mode>>
  BY <1>3, Zenon DEF Sqlite!BeginCall, Sqlite!Enqueue, Sqlite!ImportForMigration
<1>5. Sqlite!TypeOK' /\ pc'[s] = step /\ call'[s] = c
  BY <1>1, <1>4, Zenon DEF Sqlite!TypeOK, Sqlite!Steps
<1>6. SqTables'
  BY <1>1, <1>4, <1>5, Zenon DEF SqTables, OneWriter, SqStored, SqOwned, Sqlite!Complete
<1>7. SqApart(s)
  BY <1>1, <1>4, Zenon DEF SqApart, SqUntouched, Sqlite!TypeOK
<1>8. SqGrows(s)
  BY <1>4, SqQuietGrows, Zenon
<1>9. \A a \in told'[s] : Sqlite!AnswerInv(s, a)'
  BY <1>4, <1>6, <1>8, SqOldAnswers, Zenon DEF SqTables
<1>10. Sqlite!CallInv(s)'
  BY <1>5, Zenon DEF Sqlite!CallInv
<1>11. \A i \in Ids : writes'[s][i] # Sqlite!Absent => Sqlite!WrittenInv(s, i)'
  BY <1>1, <1>4, Zenon DEF Sqlite!SessionInv, Sqlite!WrittenInv, Sqlite!Complete
<1>12. Sqlite!SessionInv(s)'
  BY <1>5, <1>9, <1>10, <1>11, Zenon DEF Sqlite!SessionInv
<1>13. QED
  BY <1>6, <1>7, <1>12, SqOwnStep, Zenon

\* The end of a transaction: nothing is left of it.
LEMMA SqCloseStep ==
  ASSUME Sqlite!IInv, NEW s \in Sessions, Sqlite!CloseTx(s), events' \in [Ids -> Sqlite!Row],
         \A i \in Ids : \/ events'[i] = events[i]
                        \/ events[i] = Sqlite!Absent /\ Sqlite!Complete(events'[i]),
         mode[s] = "write" \/ UNCHANGED events,
         mode' \in [Sessions -> Sqlite!Modes], mode'[s] = "none",
         \A u \in Sessions \ {s} :
           mode'[u] = mode[u] \/ (mode[u] = "reading" /\ mode'[u] = "stale")
  PROVE  Sqlite!IInv'
<1>1. SqTables /\ Sqlite!TypeOK
  BY SqParts, Zenon DEF SqTables
<1>2. Sqlite!NoWrites \in [Ids -> Sqlite!Row] /\ \A i \in Ids : Sqlite!NoWrites[i] = Sqlite!Absent
  BY SqAbsentIsRow, Zenon DEF Sqlite!NoWrites
<1>3. Sqlite!TypeOK'
  BY <1>1, <1>2, Zenon DEF Sqlite!TypeOK, Sqlite!CloseTx
<1>4. /\ writes'[s] = Sqlite!NoWrites /\ pc'[s] = "idle" /\ told'[s] = {}
      /\ \A u \in Sessions \ {s} : SqUntouched(u)
  BY <1>1, Zenon DEF Sqlite!TypeOK, Sqlite!CloseTx, SqUntouched
<1>5. mode[s] = "write" \/ UNCHANGED <<events, writes>>
  <2> SUFFICES ASSUME mode[s] # "write" PROVE writes' = writes
    BY Zenon
  <2>1. \A i \in Ids : writes[s][i] = Sqlite!Absent
    BY NotTheWriter, Zenon
  <2>2. writes[s] = Sqlite!NoWrites
    BY <1>1, <2>1, Zenon DEF Sqlite!TypeOK, Sqlite!NoWrites
  <2>3. QED
    BY <1>1, <2>2, Zenon DEF Sqlite!CloseTx, Sqlite!TypeOK
<1>6. SqApart(s)
  BY <1>4, <1>5, Zenon DEF SqApart
<1>7. SqStored'
  BY <1>1, Zenon DEF SqStored, SqTables, Sqlite!Complete
<1>8. OneWriter'
  BY <1>1, Zenon DEF OneWriter, SqTables
<1>9. SqOwned'
  <2> SUFFICES ASSUME NEW t \in Sessions, NEW j \in Ids, writes'[t][j] # Sqlite!Absent
               PROVE  events'[j] = Sqlite!Absent /\ mode'[t] = "write"
    BY Zenon DEF SqOwned
  <2>1. t # s /\ writes[t][j] # Sqlite!Absent
    BY <1>2, <1>4, Zenon DEF SqUntouched
  <2>2. events[j] = Sqlite!Absent /\ mode[t] = "write"
    BY <1>1, <2>1, Zenon DEF SqTables, SqOwned
  <2>3. mode[s] # "write"
    BY <1>1, <2>1, <2>2, Zenon DEF SqTables, OneWriter
  <2>4. QED
    BY <2>1, <2>2, <2>3, Zenon
<1>10. Sqlite!SessionInv(s)'
  BY <1>2, <1>4, Zenon DEF Sqlite!SessionInv, Sqlite!Steps, Sqlite!NoWrites
<1>11. QED
  BY <1>3, <1>6, <1>7, <1>8, <1>9, <1>10, SqOwnStep DEF SqTables

\* What a transaction is about to commit: complete rows no worker has seen, of
\* identities that nobody has committed.
LEMMA SqAboutToCommit ==
  ASSUME Sqlite!IInv, NEW s \in Sessions, pc[s] = "open", NEW i \in Ids,
         writes[s][i] # Sqlite!Absent
  PROVE  /\ writes[s][i] \in Sqlite!Row /\ Sqlite!Complete(writes[s][i])
         /\ writes[s][i].delivery # "touched" /\ events[i] = Sqlite!Absent
<1>1. SqTables /\ Sqlite!SessionInv(s) /\ writes[s][i] \in Sqlite!Row
  BY SqParts, Zenon DEF SqTables, Sqlite!TypeOK
<1>2. Sqlite!WrittenInv(s, i) /\ events[i] = Sqlite!Absent
  BY <1>1, Zenon DEF Sqlite!SessionInv, SqTables, SqOwned
<1>3. QED
  BY <1>1, <1>2, Zenon DEF Sqlite!WrittenInv

\* COMMIT stores the writer's rows, ROLLBACK drops them.
LEMMA SqEndStep ==
  ASSUME Sqlite!IInv, NEW s \in Sessions, Sqlite!Commit(s) \/ Sqlite!Rollback(s)
  PROVE  Sqlite!IInv'
<1>1. SqTables /\ Sqlite!TypeOK
  BY SqParts, Zenon DEF SqTables
<1>2. /\ mode' \in [Sessions -> Sqlite!Modes] /\ mode'[s] = "none"
      /\ \A u \in Sessions \ {s} :
           mode'[u] = mode[u] \/ (mode[u] = "reading" /\ mode'[u] = "stale")
  BY <1>1, Zenon DEF SqTables, Sqlite!Commit, Sqlite!Rollback, Sqlite!SetMode, Sqlite!AfterCommit,
              Sqlite!Modes
<1>3. CASE Sqlite!Commit(s)
  <2>1. /\ Sqlite!CloseTx(s) /\ pc[s] = "open"
        /\ events' = [i \in Ids |-> Sqlite!Latest(s, i)]
    BY <1>3, Zenon DEF Sqlite!Commit, Sqlite!CommitTx
  <2>2. events' \in [Ids -> Sqlite!Row]
    BY <1>1, <2>1 DEF Sqlite!Latest, Sqlite!TypeOK
  <2>3. ASSUME NEW i \in Ids
        PROVE  events'[i] = events[i] \/ (events[i] = Sqlite!Absent /\ Sqlite!Complete(events'[i]))
    BY <2>1, SqAboutToCommit, Zenon DEF Sqlite!Latest
  <2>4. ASSUME mode[s] # "write" PROVE UNCHANGED events
    <3>1. \A i \in Ids : events'[i] = events[i]
      BY <2>1, <2>4, NotTheWriter, Zenon DEF Sqlite!Latest
    <3>2. QED
      BY <1>1, <2>2, <3>1 DEF Sqlite!TypeOK
  <2>5. QED
    BY <1>2, <2>1, <2>2, <2>3, <2>4, SqCloseStep
<1>4. CASE Sqlite!Rollback(s)
  <2>1. Sqlite!CloseTx(s) /\ events' = events /\ events \in [Ids -> Sqlite!Row]
    BY <1>1, <1>4, Zenon DEF Sqlite!Rollback, Sqlite!RollbackTx, Sqlite!TypeOK
  <2>2. QED
    BY <1>2, <2>1, SqCloseStep, Zenon
<1>5. QED
  BY <1>3, <1>4, Zenon

\* A worker commits while there is no writer: the open transactions have written
\* nothing and rely on no row.
LEMMA SqWorkStep ==
  ASSUME Sqlite!IInv, NEW i \in Ids, Sqlite!WorkerCommit(i)
  PROVE  Sqlite!IInv'
<1>1. PICK d \in Stamps \union {"touched"} : events' = [events EXCEPT ![i].delivery = d]
  BY Zenon DEF Sqlite!WorkerCommit, Sqlite!Work
<1>2. /\ SqTables /\ Sqlite!TypeOK /\ events[i].delivery = "pending"
      /\ UNCHANGED <<writes, pc, call, told>> /\ \A t \in Sessions : mode[t] # "write"
      /\ mode' = [t \in Sessions |-> IF mode[t] = "reading" THEN "stale" ELSE mode[t]]
  BY SqParts, Zenon DEF Sqlite!WorkerCommit, Sqlite!Work, Sqlite!txs, SqTables, Sqlite!NoWriter
<1>3. events[i] \in Sqlite!Row /\ Sqlite!Complete(events[i])
  BY <1>2, SqAbsentIsRow, Zenon DEF Sqlite!TypeOK, SqTables, SqStored
<1>4. d \in Sqlite!DeliveryState /\ d # "none"
  BY RowsAssumption, Zenon DEF Sqlite!DeliveryState, Sqlite!ImportedDeliveryState
<1>5. /\ events' \in [Ids -> Sqlite!Row] /\ events'[i].content = events[i].content
      /\ events'[i].delivery = d /\ \A j \in Ids \ {i} : events'[j] = events[j]
  BY <1>1, <1>2, <1>3, <1>4 DEF Sqlite!TypeOK, Sqlite!Row
<1>6. Sqlite!TypeOK' /\ mode' \in [Sessions -> Sqlite!Modes] /\ OneWriter'
  BY <1>2, <1>5, Zenon DEF Sqlite!TypeOK, SqTables, Sqlite!Modes, OneWriter
<1>7. SqStored'
  BY <1>2, <1>3, <1>4, <1>5, Zenon DEF Sqlite!Complete, SqStored, SqTables
<1>8. SqOwned'
  BY <1>2, Zenon DEF SqOwned, SqTables
<1>9. \A u \in Sessions : SqUntouched(u)
  BY <1>2, Zenon DEF SqUntouched
<1>10. \A u \in Sessions : Sqlite!SessionInv(u)'
  BY <1>2, <1>9, SqFrame, Zenon
<1>11. QED
  BY <1>6, <1>7, <1>8, <1>10, SqPartsPrime DEF SqTables

\* What holds of the call of a statement.
LEMMA SqTheCall ==
  ASSUME Sqlite!IInv, NEW s \in Sessions, pc[s] \in Sqlite!Steps
  PROVE  /\ SqTables /\ Sqlite!TypeOK /\ Sqlite!SessionInv(s) /\ Sqlite!CallInv(s)
         /\ call[s] \in Sqlite!Call /\ call[s].content # "none"
         /\ call[s].state \notin {"none", "touched"}
<1>1. SqTables /\ Sqlite!TypeOK /\ Sqlite!SessionInv(s) /\ Sqlite!CallInv(s)
  BY SqParts, Zenon DEF Sqlite!SessionInv, SqTables
<1>2. call[s] \in Sqlite!Call
  BY <1>1, Zenon DEF Sqlite!CallInv
<1>3. QED
  BY <1>1, <1>2, RowsAssumption, Zenon DEF Sqlite!Call, Sqlite!ImportedDeliveryState

\* Away from the INSERT of a delivery, the rows of a transaction are complete.
LEMMA SqWrittenComplete ==
  ASSUME Sqlite!IInv, NEW s \in Sessions, pc[s] \notin {"enqueue_delivery", "import_delivery"},
         NEW i \in Ids, writes[s][i] # Sqlite!Absent
  PROVE  Sqlite!Complete(writes[s][i]) /\ writes[s][i].delivery # "touched"
BY SqParts, Zenon DEF Sqlite!SessionInv, Sqlite!WrittenInv

\* A statement that writes nothing.
LEMMA SqQuietRows ==
  ASSUME Sqlite!IInv, NEW s \in Sessions, UNCHANGED <<events, writes, mode>>
  PROVE  SqOwnRows(s) /\ SqGrows(s)
<1>1. SqTables
  BY SqParts, Zenon
<1>2. QED
  BY <1>1, SqQuietGrows, Zenon DEF SqTables, SqOwnRows, SqOwned, Sqlite!TypeOK

\* A call is answered without a write.
LEMMA SqQuietReturn ==
  ASSUME Sqlite!IInv, NEW s \in Sessions, pc[s] \notin {"enqueue_delivery", "import_delivery"},
         NEW outcome \in Sqlite!Accepted \union Sqlite!Refused, Sqlite!Return(s, outcome),
         UNCHANGED <<events, writes, mode>>,
         NEW new \in Sqlite!Answer, new = [call |-> call[s], outcome |-> outcome],
         Sqlite!AnswerInv(s, new)'
  PROVE  Sqlite!IInv'
<1>1. SqOwnRows(s) /\ SqGrows(s)
  BY SqQuietRows, Zenon
<1>2. \A i \in Ids : writes'[s][i] # Sqlite!Absent =>
        Sqlite!Complete(writes'[s][i]) /\ writes'[s][i].delivery # "touched"
  BY SqWrittenComplete, Zenon
<1>3. QED
  BY <1>1, <1>2, SqReturnStep, Zenon

\* The INSERT of the event in the write transaction: a new row, or the complete row
\* that is there.  Outside of one the call is refused.
LEMMA SqInsertEventStep ==
  ASSUME Sqlite!IInv, NEW s \in Sessions, Sqlite!EnqueueInsert(s) \/ Sqlite!ImportInsert(s)
  PROVE  Sqlite!IInv'
<1>1. pc[s] \in {"enqueue_insert", "import_insert"} /\ pc[s] \in Sqlite!Steps
  BY Zenon DEF Sqlite!EnqueueInsert, Sqlite!ImportInsert, Sqlite!Steps
<1>2. SqTables /\ Sqlite!TypeOK /\ call[s] \in Sqlite!Call /\ call[s].content # "none"
  BY <1>1, SqTheCall, Zenon
<1>3. PICK c \in Sqlite!Call : c = call[s]
  BY <1>2, Zenon
<1>4. PICK i \in Ids : i = c.id
  BY Zenon DEF Sqlite!Call
<1>5. CASE Sqlite!Refuse(s)
  <2>1. PICK outcome \in Sqlite!Accepted \union Sqlite!Refused : outcome = "WriteTransactionRequired"
    BY Zenon DEF Sqlite!Refused
  <2>2. PICK new \in Sqlite!Answer : new = [call |-> c, outcome |-> outcome]
    BY Zenon DEF Sqlite!Answer
  <2>3. Sqlite!Return(s, outcome) /\ UNCHANGED <<events, writes, mode>>
    BY <1>5, <2>1, Zenon DEF Sqlite!Refuse
  <2>4. Sqlite!AnswerInv(s, new)'
    BY <2>1, <2>2, Zenon DEF Sqlite!AnswerInv, Sqlite!AnswerStands, Sqlite!Accepted
  <2>5. QED
    BY <1>1, <1>3, <2>2, <2>3, <2>4, SqQuietReturn
<1>6. ASSUME NEW found \in {"enqueue_find", "import_find"},
             NEW next \in {"enqueue_delivery", "import_delivery"},
             Sqlite!InsertEvent(s, found, next)
      PROVE  Sqlite!IInv'
  <2>1. mode[s] = "write" /\ UNCHANGED <<events, mode>> /\ found \in Sqlite!Steps /\ next \in Sqlite!Steps
    BY <1>6, Zenon DEF Sqlite!InsertEvent, Sqlite!transaction_is_write, Sqlite!Steps
  <2>2. \A j \in Ids : writes[s][j] # Sqlite!Absent =>
          Sqlite!Complete(writes[s][j]) /\ writes[s][j].delivery # "touched"
    BY <1>1, SqWrittenComplete, Zenon
  <2>3. CASE Sqlite!Latest(s, i) # Sqlite!Absent
    <3>1. Sqlite!Proceed(s, found) /\ UNCHANGED writes
      BY <1>3, <1>4, <1>6, <2>3 DEF Sqlite!InsertEvent
    <3>2. Sqlite!Complete(Sqlite!Latest(s, i)) /\ Sqlite!Latest(s, i)' = Sqlite!Latest(s, i)
      BY <1>2, <2>1, <2>2, <2>3, <3>1 DEF Sqlite!Latest, SqTables, SqStored
    <3>3. pc'[s] = found /\ call'[s] = c
      BY <1>2, <1>3, <3>1, Zenon DEF Sqlite!TypeOK, Sqlite!Proceed
    <3>4. Sqlite!CallInv(s)'
      BY <1>4, <2>1, <3>2, <3>3, Zenon DEF Sqlite!CallInv, Sqlite!Complete
    <3>5. \A j \in Ids : writes'[s][j] # Sqlite!Absent => Sqlite!WrittenInv(s, j)'
      BY <2>2, <3>1, Zenon DEF Sqlite!WrittenInv, Sqlite!Complete
    <3>6. SqOwnRows(s) /\ SqGrows(s)
      BY <2>1, <3>1, SqQuietRows, Zenon
    <3>7. QED
      BY <2>1, <3>1, <3>4, <3>5, <3>6, SqProceedStep
  <2>4. CASE Sqlite!Latest(s, i) = Sqlite!Absent
    <3>1. Sqlite!Proceed(s, next) /\ writes' = [writes EXCEPT ![s][i].content = c.content]
      BY <1>3, <1>4, <1>6, <2>4, Zenon DEF Sqlite!InsertEvent
    <3>2. writes[s][i] = Sqlite!Absent /\ events[i] = Sqlite!Absent
      BY <2>4, Zenon DEF Sqlite!Latest
    <3>3. PICK row \in Sqlite!Row : row = [content |-> c.content, delivery |-> "none"]
      BY Zenon DEF Sqlite!Row, Sqlite!DeliveryState, Sqlite!Call
    <3>4. row # Sqlite!Absent /\ [writes[s][i] EXCEPT !.content = c.content] = row
      BY <1>2, <1>3, <3>2, <3>3 DEF Sqlite!Absent
    <3>5. writes' = [writes EXCEPT ![s] = [writes[s] EXCEPT ![i] = row]]
      BY <1>2, <3>1, <3>4, Zenon DEF Sqlite!TypeOK
    <3>6. /\ writes' \in [Sessions -> [Ids -> Sqlite!Row]] /\ writes'[s][i] = row
          /\ \A j \in Ids \ {i} : writes'[s][j] = writes[s][j]
          /\ \A t \in Sessions \ {s} : writes'[t] = writes[t]
      BY <1>2, <3>5, Zenon DEF Sqlite!TypeOK
    <3>7. SqOwned'
      BY <1>2, <2>1, <3>2, <3>6 DEF SqOwned, SqTables
    <3>8. SqGrows(s)
      BY <2>1, <2>4, <3>4, <3>6, Zenon DEF SqGrows, Sqlite!Latest
    <3>9. pc'[s] = next /\ call'[s] = c
      BY <1>2, <1>3, <3>1, Zenon DEF Sqlite!TypeOK, Sqlite!Proceed
    <3>10. Sqlite!CallInv(s)'
      BY <1>4, <2>1, <3>3, <3>6, <3>9 DEF Sqlite!CallInv
    <3>11. \A j \in Ids : writes'[s][j] # Sqlite!Absent => Sqlite!WrittenInv(s, j)'
      BY <1>4, <2>2, <3>6, <3>9 DEF Sqlite!WrittenInv, Sqlite!Complete
    <3>12. QED
      BY <2>1, <3>1, <3>6, <3>7, <3>8, <3>10, <3>11, SqProceedStep DEF SqOwnRows
  <2>5. QED
    BY <2>3, <2>4, Zenon
<1>7. QED
  BY <1>5, <1>6, Zenon DEF Sqlite!EnqueueInsert, Sqlite!ImportInsert

\* The INSERT of the delivery completes the row of the call.
LEMMA SqDeliveryStep ==
  ASSUME Sqlite!IInv, NEW s \in Sessions, Sqlite!EnqueueDelivery(s) \/ Sqlite!ImportDelivery(s)
  PROVE  Sqlite!IInv'
<1>1. pc[s] \in {"enqueue_delivery", "import_delivery"} /\ pc[s] \in Sqlite!Steps
  BY Zenon DEF Sqlite!EnqueueDelivery, Sqlite!ImportDelivery, Sqlite!Steps
<1>2. PICK outcome \in {"Enqueued", "Imported"} : Sqlite!InsertDelivery(s, outcome)
  BY Zenon DEF Sqlite!EnqueueDelivery, Sqlite!ImportDelivery
<1>3. /\ SqTables /\ Sqlite!TypeOK /\ Sqlite!SessionInv(s) /\ Sqlite!CallInv(s)
      /\ call[s] \in Sqlite!Call /\ call[s].content # "none"
      /\ call[s].state \notin {"none", "touched"}
  BY <1>1, SqTheCall, Zenon
<1>4. PICK c \in Sqlite!Call : c = call[s]
  BY <1>3, Zenon
<1>5. PICK i \in Ids : i = c.id
  BY Zenon DEF Sqlite!Call
<1>6. /\ mode[s] = "write" /\ UNCHANGED <<events, mode>>
      /\ writes[s][i] = [content |-> c.content, delivery |-> "none"]
  BY <1>1, <1>2, <1>3, <1>4, <1>5 DEF Sqlite!CallInv, Sqlite!InsertDelivery
<1>7. PICK row \in Sqlite!Row : row = [content |-> c.content, delivery |-> c.state]
  BY Zenon DEF Sqlite!Row, Sqlite!DeliveryState, Sqlite!Call
<1>8. [writes[s][i] EXCEPT !.delivery = c.state] = row /\ writes[s][i] # Sqlite!Absent
  BY <1>3, <1>4, <1>6, <1>7 DEF Sqlite!Absent
<1>9. writes' = [writes EXCEPT ![s] = [writes[s] EXCEPT ![i] = row]]
  BY <1>2, <1>3, <1>4, <1>5, <1>8 DEF Sqlite!TypeOK, Sqlite!InsertDelivery
<1>10. /\ writes' \in [Sessions -> [Ids -> Sqlite!Row]] /\ writes'[s][i] = row
       /\ \A j \in Ids \ {i} : writes'[s][j] = writes[s][j]
       /\ \A t \in Sessions \ {s} : writes'[t] = writes[t]
  BY <1>3, <1>9, Zenon DEF Sqlite!TypeOK
<1>11. row # Sqlite!Absent /\ Sqlite!Complete(row) /\ row.delivery # "touched"
  BY <1>3, <1>4, <1>7, Zenon DEF Sqlite!Absent, Sqlite!Complete
<1>12. PICK new \in Sqlite!Answer : new = [call |-> c, outcome |-> outcome]
  BY Zenon DEF Sqlite!Answer, Sqlite!Accepted
<1>13. SqOwned'
  BY <1>3, <1>6, <1>8, <1>10 DEF SqOwned, SqTables
<1>14. OneWriter'
  BY <1>3, <1>6, Zenon DEF OneWriter, SqTables
<1>15. Sqlite!Latest(s, i)' = row /\ Sqlite!Latest(s, i) = writes[s][i]
  BY <1>8, <1>10, <1>11, Zenon DEF Sqlite!Latest
<1>16. \A j \in Ids \ {i} : Sqlite!Latest(s, j)' = Sqlite!Latest(s, j)
  BY <1>6, <1>10, Zenon DEF Sqlite!Latest
<1>17. SqGrows(s)
  BY <1>6, <1>7, <1>10, <1>11, <1>15, <1>16 DEF SqGrows
<1>18. \A j \in Ids : writes'[s][j] # Sqlite!Absent =>
         Sqlite!Complete(writes'[s][j]) /\ writes'[s][j].delivery # "touched"
  <2> SUFFICES ASSUME NEW j \in Ids, j # i, writes[s][j] # Sqlite!Absent
               PROVE  Sqlite!Complete(writes[s][j]) /\ writes[s][j].delivery # "touched"
    BY <1>10, <1>11, Zenon
  <2>1. QED
    BY <1>3, <1>4, <1>5, Zenon DEF Sqlite!SessionInv, Sqlite!WrittenInv
<1>19. Sqlite!Inserters(i)' = {s}
  BY <1>10, <1>11, <1>13, <1>14, SqOneInserterPrime, Zenon
<1>20. Sqlite!AnswerStands(s, new)'
  BY <1>3, <1>4, <1>5, <1>7, <1>12, <1>15, <1>19 DEF Sqlite!AnswerStands
<1>21. Sqlite!AnswerInv(s, new)'
  BY <1>6, <1>12, <1>20, Zenon DEF Sqlite!AnswerInv
<1>22. QED
  BY <1>2, <1>4, <1>6, <1>10, <1>12, <1>13, <1>17, <1>18, <1>21, SqReturnStep
     DEF Sqlite!InsertDelivery, Sqlite!Accepted, SqOwnRows

\* The duplicate is read and compared by the writer.
LEMMA SqFindStep ==
  ASSUME Sqlite!IInv, NEW s \in Sessions, Sqlite!EnqueueFind(s) \/ Sqlite!ImportFind(s)
  PROVE  Sqlite!IInv'
<1>1. pc[s] \in {"enqueue_find", "import_find"} /\ pc[s] \in Sqlite!Steps
  BY Zenon DEF Sqlite!EnqueueFind, Sqlite!ImportFind, Sqlite!Steps
<1>2. PICK conflict \in {"IdempotencyConflict", "IdentityConflict"} :
        \E next \in {"enqueue_check", "import_compare"} : Sqlite!Find(s, conflict, next)
  BY Zenon DEF Sqlite!EnqueueFind, Sqlite!ImportFind
<1>3. PICK next \in {"enqueue_check", "import_compare"} : Sqlite!Find(s, conflict, next)
  BY <1>2, Zenon
<1>4. /\ SqTables /\ Sqlite!TypeOK /\ Sqlite!SessionInv(s) /\ Sqlite!CallInv(s)
      /\ call[s] \in Sqlite!Call /\ call[s].content # "none"
  BY <1>1, SqTheCall, Zenon
<1>5. PICK c \in Sqlite!Call : c = call[s]
  BY <1>4, Zenon
<1>6. PICK i \in Ids : i = c.id
  BY Zenon DEF Sqlite!Call
<1>7. /\ mode[s] = "write" /\ Sqlite!Complete(Sqlite!Latest(s, i))
      /\ Sqlite!Latest(s, i) # Sqlite!Absent
  BY <1>1, <1>4, <1>5, <1>6, SqAbsentIsRow DEF Sqlite!CallInv
<1>8. UNCHANGED <<events, writes, mode>> /\ Sqlite!Latest(s, i)' = Sqlite!Latest(s, i)
  BY <1>3, Zenon DEF Sqlite!Find, Sqlite!Latest
<1>9. CASE Sqlite!Latest(s, i).content = c.content
  <2>1. Sqlite!Proceed(s, next)
    BY <1>3, <1>5, <1>6, <1>7, <1>9 DEF Sqlite!Find, Sqlite!same_event
  <2>2. pc'[s] = next /\ call'[s] = c
    BY <1>4, <1>5, <2>1, Zenon DEF Sqlite!TypeOK, Sqlite!Proceed
  <2>3. Sqlite!CallInv(s)'
    BY <1>6, <1>7, <1>8, <1>9, <2>2 DEF Sqlite!CallInv, Sqlite!Complete
  <2>4. \A j \in Ids : writes[s][j] # Sqlite!Absent =>
          Sqlite!Complete(writes[s][j]) /\ writes[s][j].delivery # "touched"
    BY <1>1, SqWrittenComplete, Zenon
  <2>5. \A j \in Ids : writes'[s][j] # Sqlite!Absent => Sqlite!WrittenInv(s, j)'
    BY <1>8, <2>4, Zenon DEF Sqlite!WrittenInv, Sqlite!Complete
  <2>6. SqOwnRows(s) /\ SqGrows(s) /\ next \in Sqlite!Steps
    BY <1>8, SqQuietRows, Zenon DEF Sqlite!Steps
  <2>7. QED
    BY <1>8, <2>1, <2>3, <2>5, <2>6, SqProceedStep
<1>10. CASE Sqlite!Latest(s, i).content # c.content
  <2>1. PICK outcome \in Sqlite!Accepted \union Sqlite!Refused : outcome = conflict
    BY Zenon DEF Sqlite!Refused
  <2>2. PICK new \in Sqlite!Answer : new = [call |-> c, outcome |-> outcome]
    BY Zenon DEF Sqlite!Answer
  <2>3. Sqlite!Return(s, outcome)
    BY <1>3, <1>5, <1>6, <1>7, <1>10, <2>1 DEF Sqlite!Find, Sqlite!same_event
  <2>4. Sqlite!AnswerStands(s, new)'
    BY <1>6, <1>7, <1>8, <1>10, <2>1, <2>2
       DEF Sqlite!AnswerStands, Sqlite!Accepted, Sqlite!Complete
  <2>5. Sqlite!AnswerInv(s, new)'
    BY <1>7, <1>8, <2>1, <2>2, <2>4 DEF Sqlite!AnswerInv
  <2>6. QED
    BY <1>1, <1>5, <1>8, <2>2, <2>3, <2>5, SqQuietReturn
<1>11. QED
  BY <1>9, <1>10, Zenon

\* The duplicate of an enqueue has its delivery row; that of an import is compared
\* with the imported state.
LEMMA SqCompareStep ==
  ASSUME Sqlite!IInv, NEW s \in Sessions, Sqlite!EnqueueCheck(s) \/ Sqlite!ImportCompare(s)
  PROVE  Sqlite!IInv'
<1>1. pc[s] \in {"enqueue_check", "import_compare"} /\ pc[s] \in Sqlite!Steps
  BY Zenon DEF Sqlite!EnqueueCheck, Sqlite!ImportCompare, Sqlite!Steps
<1>2. /\ SqTables /\ Sqlite!TypeOK /\ Sqlite!SessionInv(s) /\ Sqlite!CallInv(s)
      /\ call[s] \in Sqlite!Call
  BY <1>1, SqTheCall, Zenon
<1>3. PICK c \in Sqlite!Call : c = call[s]
  BY <1>2, Zenon
<1>4. PICK i \in Ids : i = c.id
  BY Zenon DEF Sqlite!Call
<1>5. /\ mode[s] = "write" /\ Sqlite!Complete(Sqlite!Latest(s, i))
      /\ Sqlite!Latest(s, i).content = c.content
  BY <1>1, <1>2, <1>3, <1>4, Zenon DEF Sqlite!CallInv
<1>6. UNCHANGED <<events, writes, mode>> /\ Sqlite!Latest(s, i)' = Sqlite!Latest(s, i)
  BY Zenon DEF Sqlite!EnqueueCheck, Sqlite!ImportCompare, Sqlite!Latest
<1>7. PICK outcome \in {"AlreadyEnqueued", "AlreadyImported", "ImportConflict"} :
        /\ Sqlite!Return(s, outcome)
        /\ outcome = "AlreadyImported" => Sqlite!Latest(s, i).delivery = c.state
  BY <1>3, <1>4, <1>5, Zenon
     DEF Sqlite!EnqueueCheck, Sqlite!ImportCompare, Sqlite!matches_import, Sqlite!Complete
<1>8. outcome \in Sqlite!Accepted \union Sqlite!Refused
  BY Zenon DEF Sqlite!Accepted, Sqlite!Refused
<1>9. PICK new \in Sqlite!Answer : new = [call |-> c, outcome |-> outcome]
  BY <1>8, Zenon DEF Sqlite!Answer
<1>10. Sqlite!AnswerStands(s, new)'
  BY <1>4, <1>5, <1>6, <1>9 DEF Sqlite!AnswerStands, Sqlite!Complete
<1>11. Sqlite!AnswerInv(s, new)'
  BY <1>4, <1>5, <1>6, <1>7, <1>9, <1>10 DEF Sqlite!AnswerInv
<1>12. QED
  BY <1>1, <1>3, <1>6, <1>7, <1>8, <1>9, <1>11, SqQuietReturn

\* Nothing is stored, there is no writer and nobody has been told anything.
LEMMA SqInitInv ==
  ASSUME Sqlite!Init
  PROVE  Sqlite!IInv
<1>1. /\ events = [i \in Ids |-> Sqlite!Absent]
      /\ writes = [s \in Sessions |-> Sqlite!NoWrites]
      /\ pc = [s \in Sessions |-> "idle"] /\ call = [s \in Sessions |-> Sqlite!NoCall]
      /\ told = [s \in Sessions |-> {}] /\ mode = [s \in Sessions |-> "none"]
  BY Zenon DEF Sqlite!Init, Sqlite!TxInit
<1>2. Sqlite!NoWrites \in [Ids -> Sqlite!Row] /\ \A i \in Ids : Sqlite!NoWrites[i] = Sqlite!Absent
  BY SqAbsentIsRow, Zenon DEF Sqlite!NoWrites
<1>3. Sqlite!TypeOK
  BY <1>1, <1>2, SqAbsentIsRow, Zenon DEF Sqlite!TypeOK
<1>4. SqTables
  BY <1>1, <1>2, <1>3, Zenon DEF SqTables, OneWriter, SqStored, SqOwned, Sqlite!Modes
<1>5. \A s \in Sessions : Sqlite!SessionInv(s)
  BY <1>1, <1>2, Zenon DEF Sqlite!SessionInv, Sqlite!Steps
<1>6. QED
  BY <1>4, <1>5, SqParts, Zenon

\* Every step of a caller or a worker keeps the invariant.
LEMMA SqNextInv ==
  ASSUME Sqlite!IInv, [Sqlite!Next]_Sqlite!vars
  PROVE  Sqlite!IInv'
<1>1. ASSUME NEW s \in Sessions, Sqlite!BeginImmediate(s) \/ Sqlite!BeginDeferred(s)
      PROVE  Sqlite!IInv'
  BY <1>1, SqOpenStep, Zenon
<1>2. ASSUME NEW s \in Sessions, Sqlite!AppRead(s) \/ Sqlite!AppWrite(s) PROVE Sqlite!IInv'
  BY <1>2, SqAppStep, Zenon
<1>3. ASSUME NEW s \in Sessions, Sqlite!Enqueue(s) \/ Sqlite!ImportForMigration(s)
      PROVE  Sqlite!IInv'
  BY <1>3, SqBeginStep, Zenon
<1>4. ASSUME NEW s \in Sessions, Sqlite!Continue(s) PROVE Sqlite!IInv'
  BY <1>4, SqInsertEventStep, SqDeliveryStep, SqFindStep, SqCompareStep, Zenon DEF Sqlite!Continue
<1>5. ASSUME NEW s \in Sessions, Sqlite!Commit(s) \/ Sqlite!Rollback(s) PROVE Sqlite!IInv'
  BY <1>5, SqEndStep, Zenon
<1>6. ASSUME NEW i \in Ids, Sqlite!WorkerCommit(i) PROVE Sqlite!IInv'
  BY <1>6, SqWorkStep, Zenon
<1>7. CASE UNCHANGED Sqlite!vars
  <2>1. UNCHANGED <<events, writes, pc, call, told, mode>>
    BY <1>7, Zenon DEF Sqlite!vars, Sqlite!txs
  <2>2. SqTables'
    BY <2>1, SqParts, Zenon DEF SqTables, Sqlite!TypeOK, OneWriter, SqStored, SqOwned, Sqlite!Complete
  <2>3. \A u \in Sessions : Sqlite!SessionInv(u)'
    BY <2>1, SqFrame, Zenon DEF SqUntouched
  <2>4. QED
    BY <2>2, <2>3, SqPartsPrime, Zenon
<1>8. QED
  BY <1>1, <1>2, <1>3, <1>4, <1>5, <1>6, <1>7 DEF Sqlite!Next

\* A commit records the identities the transaction inserted.
LEMMA SqCommitRecords ==
  ASSUME Sqlite!IInv, NEW s \in Sessions, Sqlite!Commit(s)
  PROVE  \E S \in SUBSET Ids : Ledger!Record(S)
<1> DEFINE S == {i \in Ids : writes[s][i] # Sqlite!Absent}
           content == [i \in S |-> writes[s][i].content]
           state == [i \in S |-> writes[s][i].delivery]
<1>1. pc[s] = "open" /\ events' = [i \in Ids |-> Sqlite!Latest(s, i)]
  BY Zenon DEF Sqlite!Commit, Sqlite!CommitTx
<1>2. ASSUME NEW i \in S
      PROVE  /\ writes[s][i].content \in Contents
             /\ writes[s][i].delivery \in Sqlite!ImportedDeliveryState
             /\ writes[s][i] = [content |-> content[i], delivery |-> state[i]]
             /\ events[i] = Sqlite!Absent
  <2>1. /\ writes[s][i] \in Sqlite!Row /\ Sqlite!Complete(writes[s][i])
        /\ writes[s][i].delivery # "touched" /\ events[i] = Sqlite!Absent
    BY <1>1, SqAboutToCommit, Zenon
  <2>2. QED
    BY <2>1, Zenon DEF Sqlite!Row, Sqlite!Complete, Sqlite!DeliveryState
<1>3. content \in [S -> Contents] /\ state \in [S -> Sqlite!ImportedDeliveryState]
  BY <1>2, Zenon
<1>4. events' = [i \in Ids |-> IF i \in S THEN [content |-> content[i], delivery |-> state[i]]
                                          ELSE events[i]]
  BY <1>1, <1>2, Zenon DEF Sqlite!Latest
<1>5. \A i \in S : events[i] = Ledger!Absent
  BY <1>2, Zenon DEF Sqlite!Absent, Ledger!Absent
<1>6. content \in [S -> Contents] /\ state \in [S -> Ledger!ImportedDeliveryState]
  BY <1>3, Zenon DEF Sqlite!ImportedDeliveryState, Ledger!ImportedDeliveryState
<1> HIDE DEF content, state
<1>7. Ledger!Record(S)
  BY <1>4, <1>5, <1>6, Zenon DEF Ledger!Record
<1>8. QED
  BY <1>7, Zenon

\* Every step of SQLite's producers and workers is a step of the ledger, or none.
LEMMA SqLedgerStep ==
  ASSUME Sqlite!IInv, Sqlite!Next
  PROVE  Ledger!Next \/ UNCHANGED events
<1>1. ASSUME NEW s \in Sessions, Sqlite!Commit(s) PROVE Ledger!Next
  BY <1>1, SqCommitRecords, Zenon DEF Ledger!Next
<1>2. ASSUME NEW i \in Ids, Sqlite!WorkerCommit(i) PROVE Ledger!Next
  BY <1>2, Zenon DEF Sqlite!WorkerCommit, Sqlite!Work, Ledger!Next, Ledger!Deliver
<1>3. ASSUME NEW s \in Sessions,
             \/ Sqlite!BeginImmediate(s) \/ Sqlite!BeginDeferred(s)
             \/ Sqlite!AppRead(s) \/ Sqlite!AppWrite(s)
             \/ Sqlite!Enqueue(s) \/ Sqlite!ImportForMigration(s) \/ Sqlite!Rollback(s)
      PROVE  UNCHANGED events
  BY <1>3, Zenon DEF Sqlite!BeginImmediate, Sqlite!BeginDeferred, Sqlite!OpenTx, Sqlite!AppRead,
              Sqlite!AppWrite, Sqlite!Enqueue, Sqlite!BeginEnqueue, Sqlite!ImportForMigration,
              Sqlite!BeginImport, Sqlite!BeginCall, Sqlite!Rollback, Sqlite!RollbackTx
<1>4. ASSUME NEW s \in Sessions, Sqlite!Continue(s) PROVE UNCHANGED events
  BY <1>4, Zenon DEF Sqlite!Continue, Sqlite!EnqueueInsert, Sqlite!ImportInsert, Sqlite!Refuse,
              Sqlite!InsertEvent, Sqlite!EnqueueDelivery, Sqlite!ImportDelivery,
              Sqlite!InsertDelivery, Sqlite!EnqueueFind, Sqlite!ImportFind, Sqlite!Find,
              Sqlite!EnqueueCheck, Sqlite!ImportCompare
<1>5. QED
  BY <1>1, <1>2, <1>3, <1>4, Zenon DEF Sqlite!Next

-------------------------------------------------------------------------------
(* Both adapters.                                                          *)

\* Initially either adapter's invariant holds, and its own steps keep it.
LEMMA ProducersInductive ==
  /\ ProducersInit => ProducersInv
  /\ ProducersInv /\ [ProducersNext]_producervars => ProducersInv'
<1>1. ProducersInit => ProducersInv
  BY InitInv, SqInitInv, Zenon DEF ProducersInit, ProducersInv
<1>2. ASSUME ProducersInv, [ProducersNext]_producervars PROVE ProducersInv'
  <2>1. CASE adapter = "mysql"
    <3>1. IInv /\ [Next]_vars /\ adapter' = adapter
      BY <1>2, <2>1, Zenon DEF ProducersInv, ProducersNext, MysqlNext, SqliteNext, producervars
    <3>2. IInv'
      BY <3>1, NextInv, Zenon
    <3>3. QED
      BY <2>1, <3>1, <3>2, Zenon DEF ProducersInv
  <2>2. CASE adapter # "mysql"
    <3>1. Sqlite!IInv /\ adapter' = adapter
      BY <1>2, <2>2, Zenon DEF ProducersInv, ProducersNext, producervars
    <3>2. [Sqlite!Next]_Sqlite!vars
      BY <1>2, <2>2, Zenon DEF ProducersNext, MysqlNext, SqliteNext, producervars, vars, txs,
                        Sqlite!vars, Sqlite!txs
    <3>3. Sqlite!IInv'
      BY <3>1, <3>2, SqNextInv, Zenon
    <3>4. QED
      BY <2>2, <3>1, <3>3, Zenon DEF ProducersInv
  <2>3. QED
    BY <2>1, <2>2, Zenon
<1>3. QED
  BY <1>1, <1>2, Zenon

\* Whatever the producers and workers of either adapter interleave, committed events
\* are complete, an uncommitted one belongs to the transaction that holds its lock
\* (MySQL) or to the one writer (SQLite), and every transaction of enqueue_for_scope
\* and import_for_scope is consistent with what it has read and was told.
THEOREM ProducersKeepInv == ProducersSpec => []ProducersInv
BY ProducersInductive, PTL DEF ProducersSpec

\* MySQL: the answers stand, and a missing row has another answer before it.
LEMMA MysqlAnswered ==
  ASSUME IInv
  PROVE  AnswersStand /\ ReplayHeld /\ ResolvedInNewView
<1>1. \A s \in Sessions : SessionInv(s)
  BY Zenon DEF IInv
<1>2. AnswersStand /\ ReplayHeld
  BY <1>1, Zenon DEF SessionInv, AnswerInv, AnswersStand, ReplayHeld
<1>3. ASSUME NEW s \in Sessions, NEW a \in told[s],
             a.outcome \in {"MissingRow", "MigrationMismatch"}
      PROVE  /\ a.outcome = "MissingRow" /\ a.call.op = "enqueue"
             /\ Cardinality(told[s]) > 1
  <2>1. /\ a.outcome = "MissingRow" /\ a.call.op = "enqueue" /\ IsFiniteSet(told[s])
        /\ \E b \in told[s] : b.outcome \in Accepted
    BY <1>1, <1>3, Zenon DEF SessionInv, AnswerInv
  <2>2. PICK b \in told[s] : b.outcome \in Accepted
    BY <2>1, Zenon
  <2>3. b \notin {a}
    BY <2>1, <2>2, Zenon DEF Accepted
  <2>4. IsFiniteSet({a}) /\ Cardinality({a}) = 1
    BY FS_Singleton, Zenon
  <2>5. Cardinality({a} \union {b}) = 2
    BY <2>3, <2>4, FS_AddElement
  <2>6. Cardinality({a} \union {b}) <= Cardinality(told[s])
    BY <2>1, FS_Subset, Zenon
  <2>7. Cardinality(told[s]) \in Nat
    BY <2>1, FS_CardinalityType, Zenon
  <2>8. QED
    BY <2>1, <2>5, <2>6, <2>7
<1>4. ResolvedInNewView
  BY <1>3, Zenon DEF ResolvedInNewView
<1>5. QED
  BY <1>2, <1>4, Zenon

\* SQLite: the answers stand, and every call was settled.
LEMMA SqAnswered ==
  ASSUME Sqlite!IInv
  PROVE  AnswersStand /\ ReplayHeld /\ OutcomeResolved
<1>1. ASSUME NEW s \in Sessions, NEW a \in told[s]
      PROVE  /\ AnswerStands(s, a) /\ a.outcome \notin {"MissingRow", "MigrationMismatch"}
             /\ a.outcome = "AlreadyImported" => Latest(s, a.call.id).delivery = a.call.state
  <2>1. Sqlite!AnswerInv(s, a)
    BY Zenon DEF Sqlite!IInv, Sqlite!SessionInv
  <2>2. \A i : Latest(s, i) = Sqlite!Latest(s, i) /\ Inserters(i) = Sqlite!Inserters(i)
    BY Zenon DEF Latest, Sqlite!Latest, Inserters, Sqlite!Inserters, Absent, Sqlite!Absent
  <2>3. AnswerStands(s, a)
    BY <2>1, <2>2, Zenon DEF Sqlite!AnswerInv, Sqlite!AnswerStands, AnswerStands, Accepted,
                      Sqlite!Accepted
  <2>4. QED
    BY <2>1, <2>2, <2>3, Zenon DEF Sqlite!AnswerInv
<1>2. QED
  BY <1>1, Zenon DEF AnswersStand, ReplayHeld, OutcomeResolved

\* What a transaction was told holds as long as it is open, with either adapter: an
\* accepted call names the stored event, one that inserted is the only inserter, a
\* conflict names other content and a replayed import the stored delivery.  No call
\* of SQLite ends with a row missing; with MySQL only an enqueue behind another
\* accepted call of its transaction does.
THEOREM AnswersHold == ProducersSpec => []Answered
<1>1. ProducersInv /\ adapter \in {"mysql", "sqlite"} => Answered
  BY MysqlAnswered, SqAnswered, Zenon DEF ProducersInv, Answered
<1>2. ProducersInit => adapter \in {"mysql", "sqlite"}
  BY Zenon DEF ProducersInit
<1>3. adapter \in {"mysql", "sqlite"} /\ [ProducersNext]_producervars =>
        (adapter \in {"mysql", "sqlite"})'
  BY Zenon DEF ProducersNext, producervars
<1>4. QED
  BY <1>1, <1>2, <1>3, ProducersKeepInv, PTL DEF ProducersSpec

\* The transactions of either adapter's producers implement EventLedger: each commit
\* records new identities, each with its delivery row, and nothing else changes the
\* committed rows but a worker's claim or finalisation.
THEOREM ProducersImplementLedger == ProducersSpec => LedgerRefined
<1>1. ProducersInit => Ledger!Init
  BY Zenon DEF ProducersInit, Init, TxInit, Ledger!Init, Absent, Ledger!Absent
<1>2. ASSUME ProducersInv, [ProducersNext]_producervars PROVE [Ledger!Next]_events
  <2>1. CASE MysqlNext
    <3>1. IInv /\ Next
      BY <1>2, <2>1, Zenon DEF ProducersInv, MysqlNext
    <3>2. QED
      BY <3>1, MysqlLedgerStep, Zenon
  <2>2. CASE SqliteNext
    <3>1. Sqlite!IInv /\ Sqlite!Next
      BY <1>2, <2>2, Zenon DEF ProducersInv, SqliteNext
    <3>2. QED
      BY <3>1, SqLedgerStep, Zenon
  <2>3. CASE UNCHANGED producervars
    BY <2>3, Zenon DEF producervars, vars
  <2>4. QED
    BY <1>2, <2>1, <2>2, <2>3, Zenon DEF ProducersNext
<1>3. QED
  BY <1>1, <1>2, ProducersKeepInv, PTL DEF ProducersSpec, LedgerRefined, Ledger!Spec
===============================================================================
