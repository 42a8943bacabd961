----------------------------- MODULE TenantProofs -----------------------------
(***************************************************************************)
(* The PostgreSQL producers of several tenants, and the upgrade of a       *)
(* database to the tenant schema.                                          *)
(*                                                                         *)
(* The producers implement EventLedger, for every set of identities,       *)
(* contents, sessions and calls.  IInv of PgProducer is inductive.  The    *)
(* heart of the argument is Kept: whatever another session or the rest of  *)
(* the own transaction does, a row a caller was told about keeps its       *)
(* content and its delivery row.                                           *)
(*                                                                         *)
(* The upgrade keeps identities apart by UpgradeInv: one of two unique     *)
(* indexes is always there.  What is said of the MySQL activation rests on *)
(* StagedInv: the catalog is the one after its first k statements, and a   *)
(* run either does statement k + 1 or repeats what is behind it.           *)
(***************************************************************************)
EXTENDS PgProducer, TenantUpgrade, SequenceTheorems, FiniteSetTheorems, TLAPS

\* The empty row is a row without content, and the only one with neither part.
LEMMA AbsentIsRow ==
  Absent \in Row /\ Absent.content = "none" /\ Absent.delivery = "none" /\ ~Complete(Absent)
BY Zenon DEF Absent, Row, DeliveryState, Complete

\* What a statement sees has the type of a row.
LEMMA LatestIsRow ==
  ASSUME TypeOK, NEW s \in Sessions, NEW i \in Ids
  PROVE  Latest(s, i) \in Row
BY Zenon DEF TypeOK, Latest

\* How the row of i that u sees may change: not at all, from absent, or in its
\* delivery only, which stays present.
Kept(u, i) ==
  \/ Latest(u, i)' = Latest(u, i)
  \/ Latest(u, i) = Absent
  \/ Latest(u, i)'.content = Latest(u, i).content /\ Latest(u, i)'.delivery # "none"

\* Under such a change every answer given to u stands.
LEMMA AnswerKept ==
  ASSUME TypeOK, NEW u \in Sessions, NEW a \in Answer, AnswerStands(u, a),
         Kept(u, a.call.id), Inserters(a.call.id) = {u} => Inserters(a.call.id)' = {u}
  PROVE  AnswerStands(u, a)'
<1> DEFINE i == a.call.id
           row == Latest(u, i)
           new == Latest(u, i)'
<1>1. /\ i \in Ids /\ a.call.content \in Contents /\ a.call.content # "none"
  BY RowsAssumption, Zenon DEF Answer, Call
<1>2. row = Absent => /\ a.outcome \notin Accepted
                      /\ a.outcome \notin {"IdempotencyConflict", "IdentityConflict"}
  BY <1>1, AbsentIsRow, Zenon DEF AnswerStands
<1>3. a.outcome \in {"Enqueued", "Imported"} => Inserters(i)' = {u}
  BY Zenon DEF AnswerStands
<1>4. a.outcome \in Accepted => new.content = a.call.content /\ new.delivery # "none"
  BY <1>2, Zenon DEF AnswerStands, Kept
<1>5. a.outcome \in {"IdempotencyConflict", "IdentityConflict"} =>
        new.content \notin {"none", a.call.content}
  BY <1>2, Zenon DEF AnswerStands, Kept
<1>6. QED
  BY <1>3, <1>4, <1>5, Zenon DEF AnswerStands

\* The variables of the other sessions are untouched.
OthersUntouched(s) ==
  \A u \in Sessions \ {s} :
    /\ pc'[u] = pc[u] /\ call'[u] = call[u] /\ told'[u] = told[u]
    /\ writes'[u] = writes[u] /\ bound'[u] = bound[u]

\* A transaction that does not move itself can go on relying on its invariant.
LEMMA Frame ==
  ASSUME TypeOK, NEW u \in Sessions, SessionInv(u),
         pc'[u] = pc[u], call'[u] = call[u], told'[u] = told[u],
         writes'[u] = writes[u], bound'[u] = bound[u],
         \A i \in Ids : Kept(u, i),
         \A i \in Ids : Inserters(i) = {u} => Inserters(i)' = {u}
  PROVE  SessionInv(u)'
<1>1. \A a \in told[u] : a \in Answer /\ a.call.id \in Ids
  BY DEF TypeOK, Answer, Call
<1>2. \A a \in told'[u] : /\ AnswerStands(u, a)'
                          /\ a.outcome \notin {"MissingRow", "MigrationMismatch"}
  BY <1>1, AnswerKept, Zenon DEF SessionInv
<1>3. ASSUME pc[u] \in Steps PROVE CallInv(u)'
  <2> DEFINE i == call[u].id
  <2>1. CallInv(u) /\ call[u] \in Call /\ i \in Ids /\ Kept(u, i)
    BY <1>3, Zenon DEF SessionInv, CallInv, Call
  <2>2. Complete(Latest(u, i)) =>
          Complete(Latest(u, i))' /\ Latest(u, i)'.content = Latest(u, i).content
    BY <2>1, AbsentIsRow, Zenon DEF Kept, Complete
  <2>3. QED
    BY <2>1, <2>2, Zenon DEF CallInv
<1>4. \A i \in Ids : writes'[u][i] # Absent => WrittenInv(u, i)'
  BY Zenon DEF SessionInv, WrittenInv
<1>5. QED
  BY <1>2, <1>3, <1>4, Zenon DEF SessionInv

-------------------------------------------------------------------------------
(* One lemma for each kind of step.                                        *)

\* What IInv says of the tables, and its other part, of each transaction.
LEMMA IInvParts ==
  ASSUME IInv
  PROVE  /\ TypeOK
         /\ bound \in [Sessions -> Tenants \union {"none"}]
         /\ \A i \in Ids : events[i] = Absent \/ Complete(events[i])
         /\ \A s \in Sessions, i \in Ids :
              writes[s][i] # Absent => events[i] = Absent /\ Inserters(i) = {s}
         /\ \A s \in Sessions : SessionInv(s)
BY Zenon DEF IInv

\* A step that commits nothing, and inserts only identities no other transaction
\* holds, leaves the other transactions what they rely on.
LEMMA OthersKept ==
  ASSUME IInv, NEW s \in Sessions, OthersUntouched(s), UNCHANGED events,
         \A i \in Ids : writes'[s][i] = writes[s][i] \/ Inserters(i) \subseteq {s}
  PROVE  \A u \in Sessions \ {s} : SessionInv(u)'
<1> SUFFICES ASSUME NEW u \in Sessions, u # s PROVE SessionInv(u)'
  BY Zenon
<1>1. TypeOK /\ SessionInv(u)
  BY IInvParts, Zenon
<1>2. /\ pc'[u] = pc[u] /\ call'[u] = call[u] /\ told'[u] = told[u]
      /\ writes'[u] = writes[u] /\ bound'[u] = bound[u]
  BY Zenon DEF OthersUntouched
<1>3. \A i \in Ids : Kept(u, i)
  BY <1>2, Zenon DEF Kept, Latest
<1>4. ASSUME NEW i \in Ids, Inserters(i) = {u} PROVE Inserters(i)' = {u}
  <2>1. writes'[s][i] = writes[s][i]
    BY <1>4, Zenon
  <2>2. \A t \in Sessions : writes'[t][i] = writes[t][i]
    BY <2>1, Zenon DEF OthersUntouched
  <2>3. QED
    BY <2>2, <1>4, Zenon DEF Inserters
<1>5. QED
  BY <1>1, <1>2, <1>3, <1>4, Frame, Zenon

\* A step that writes no row keeps IInv if it keeps what its own transaction
\* relies on.
LEMMA Quiet ==
  ASSUME IInv, NEW s \in Sessions, OthersUntouched(s), UNCHANGED <<events, writes>>,
         TypeOK', (bound \in [Sessions -> Tenants \union {"none"}])', SessionInv(s)'
  PROVE  IInv'
<1>1. \A u \in Sessions \ {s} : SessionInv(u)'
  BY OthersKept, Zenon
<1>2. \A i \in Ids : (events[i] = Absent \/ Complete(events[i]))'
  BY IInvParts, Zenon DEF Complete
<1>3. \A t \in Sessions, i \in Ids :
        (writes[t][i] # Absent => events[i] = Absent /\ Inserters(i) = {t})'
  BY IInvParts, Zenon DEF Inserters
<1>4. QED
  BY <1>1, <1>2, <1>3, Zenon DEF IInv

\* A step that writes no row leaves the answers given before it standing.
LEMMA OldAnswersStand ==
  ASSUME IInv, NEW s \in Sessions, UNCHANGED <<events, writes>>, NEW a \in told[s]
  PROVE  AnswerStands(s, a)' /\ a.outcome \notin {"MissingRow", "MigrationMismatch"}
<1>1. AnswerStands(s, a) /\ a.outcome \notin {"MissingRow", "MigrationMismatch"}
  BY IInvParts, Zenon DEF SessionInv
<1>2. QED
  BY <1>1, Zenon DEF AnswerStands, Latest, Inserters

\* begin(): the transaction has no tenant, no rows and no answers.
LEMMA OpenStep ==
  ASSUME IInv, NEW s \in Sessions, Open(s)
  PROVE  IInv'
<1> USE DEF Open, OpenTx, Proceed
<1>1. TypeOK /\ SessionInv(s) /\ bound \in [Sessions -> Tenants \union {"none"}]
  BY IInvParts, Zenon
<1>2. TypeOK' /\ pc'[s] = "open" /\ OthersUntouched(s)
  BY <1>1, Zenon DEF TypeOK, OthersUntouched
<1>3. told[s] = {} /\ writes[s] = NoWrites
  BY <1>1, Zenon DEF SessionInv
<1>4. SessionInv(s)'
  BY <1>2, <1>3, Zenon DEF SessionInv, Steps, NoWrites
<1>5. QED
  BY <1>1, <1>2, <1>4, Quiet, Zenon

\* A call begins by binding the tenant of its identity.
LEMMA BeginStep ==
  ASSUME IInv, NEW s \in Sessions, Enqueue(s) \/ ImportForMigration(s)
  PROVE  IInv'
<1>1. TypeOK /\ SessionInv(s) /\ bound \in [Sessions -> Tenants \union {"none"}]
  BY IInvParts, Zenon
<1>2. PICK c \in Call : \E step \in {"enqueue_insert", "import_insert"} : BeginCall(s, step, c)
  BY Zenon DEF Enqueue, ImportForMigration, BeginEnqueue, BeginImport
<1>3. PICK step \in {"enqueue_insert", "import_insert"} : BeginCall(s, step, c)
  BY <1>2, Zenon
<1>4. /\ pc[s] = "open" /\ pc' = [pc EXCEPT ![s] = step]
      /\ call' = [call EXCEPT ![s] = c] /\ UNCHANGED <<events, writes, told>>
  BY <1>3, Zenon DEF BeginCall
<1>5. TypeOK' /\ pc'[s] = step /\ call'[s] = c
  BY <1>1, <1>4, Zenon DEF TypeOK, Steps
<1>6. bound' = [bound EXCEPT ![s] = TenantOf[c.id]]
  BY <1>5, Zenon DEF Enqueue, ImportForMigration, bind_tenant
<1>7. TenantOf[c.id] \in Tenants
  BY TenantAssumption, Zenon DEF Call
<1>8. /\ bound' \in [Sessions -> Tenants \union {"none"}]
      /\ bound'[s] = TenantOf[c.id] /\ OthersUntouched(s)
  BY <1>1, <1>4, <1>6, <1>7, Zenon DEF TypeOK, OthersUntouched
<1>9. CallInv(s)'
  BY <1>5, <1>8, Zenon DEF CallInv
<1>10. \A i \in Ids : writes'[s][i] # Absent => WrittenInv(s, i)'
  BY <1>1, <1>4, Zenon DEF SessionInv, WrittenInv, Complete
<1>11. SessionInv(s)'
  BY <1>4, <1>5, <1>9, <1>10, OldAnswersStand, Zenon DEF SessionInv
<1>12. QED
  BY <1>4, <1>5, <1>8, <1>11, Quiet, Zenon
\* A read-only statement that ends its call keeps IInv if the answer is right.
LEMMA ReturnStep ==
  ASSUME IInv, NEW s \in Sessions, pc[s] \in Steps \ {"enqueue_delivery", "import_delivery"},
         NEW outcome \in (Accepted \union Refused) \ {"MissingRow", "MigrationMismatch"},
         Return(s, outcome), UNCHANGED <<events, writes, bound>>,
         AnswerStands(s, [call |-> call[s], outcome |-> outcome])
  PROVE  IInv'
<1>1. /\ TypeOK /\ SessionInv(s) /\ CallInv(s) /\ call[s] \in Call
      /\ bound \in [Sessions -> Tenants \union {"none"}]
  BY IInvParts, Zenon DEF SessionInv, CallInv
<1>2. PICK new \in Answer : new = [call |-> call[s], outcome |-> outcome]
  BY <1>1, Zenon DEF Answer
<1>3. TypeOK'
  BY <1>1, <1>2, Zenon DEF TypeOK, Return
<1>4. pc'[s] \in {"open", "failed"} /\ told'[s] = told[s] \union {new} /\ OthersUntouched(s)
  BY <1>1, <1>2, Zenon DEF TypeOK, Return, OthersUntouched
<1>5. AnswerStands(s, new)' /\ new.outcome = outcome
  BY <1>2, Zenon DEF AnswerStands, Latest, Inserters
<1>6. \A a \in told'[s] : AnswerStands(s, a)' /\ a.outcome \notin {"MissingRow", "MigrationMismatch"}
  BY <1>4, <1>5, OldAnswersStand, Zenon
<1>7. \A i \in Ids : writes'[s][i] # Absent => WrittenInv(s, i)'
  BY <1>1, Zenon DEF SessionInv, WrittenInv, Complete
<1>8. SessionInv(s)'
  BY <1>4, <1>6, <1>7, Zenon DEF SessionInv, Steps
<1>9. QED
  BY <1>1, <1>3, <1>4, <1>8, Quiet, Zenon

\* A read-only statement that goes on keeps IInv if the call may rely on what the
\* next statement needs.
LEMMA ProceedStep ==
  ASSUME IInv, NEW s \in Sessions, pc[s] \in Steps \ {"enqueue_delivery", "import_delivery"},
         NEW step \in Steps, Proceed(s, step), UNCHANGED <<events, writes, bound>>,
         CallInv(s)'
  PROVE  IInv'
<1>1. TypeOK /\ SessionInv(s) /\ bound \in [Sessions -> Tenants \union {"none"}]
  BY IInvParts, Zenon
<1>2. TypeOK' /\ pc'[s] = step /\ OthersUntouched(s)
  BY <1>1, Zenon DEF TypeOK, Proceed, OthersUntouched
<1>3. \A i \in Ids : writes'[s][i] # Absent => WrittenInv(s, i)'
  BY <1>1, Zenon DEF SessionInv, WrittenInv, Complete
<1>4. told'[s] = told[s] /\ step # "idle"
  BY Zenon DEF Proceed, Steps
<1>5. SessionInv(s)'
  BY <1>2, <1>3, <1>4, OldAnswersStand, Zenon DEF SessionInv
<1>6. QED
  BY <1>1, <1>2, <1>5, Quiet, Zenon

\* The duplicate a call found is seen under the tenant it bound.
LEMMA SeenIsLatest ==
  ASSUME IInv, NEW s \in Sessions, pc[s] \in Steps
  PROVE  /\ CallInv(s) /\ call[s] \in Call /\ call[s].id \in Ids
         /\ Seen(s) = Latest(s, call[s].id)
<1>1. CallInv(s)
  BY IInvParts, Zenon DEF SessionInv
<1>2. QED
  BY <1>1, Zenon DEF CallInv, Call, Seen

\* The duplicate is found; a conflict names other content.
LEMMA FindStep ==
  ASSUME IInv, NEW s \in Sessions, EnqueueFind(s) \/ ImportFind(s)
  PROVE  IInv'
<1>1. PICK conflict \in {"IdempotencyConflict", "IdentityConflict"} :
        \E next \in {"enqueue_check", "import_compare"} :
          pc[s] \in {"enqueue_find", "import_find"} /\ Find(s, conflict, next)
  BY Zenon DEF EnqueueFind, ImportFind
<1>2. PICK next \in {"enqueue_check", "import_compare"} : Find(s, conflict, next)
  BY <1>1, Zenon
<1>3. pc[s] \in {"enqueue_find", "import_find"} /\ UNCHANGED <<events, writes, bound>>
  BY <1>1, <1>2, Zenon DEF Find
<1> DEFINE c == call[s]
           row == Latest(s, c.id)
<1>4. CallInv(s) /\ c \in Call /\ c.id \in Ids /\ Seen(s) = row /\ TypeOK
  BY <1>3, SeenIsLatest, IInvParts, Zenon DEF Steps
<1>5. Complete(row) /\ row # Absent
  BY <1>3, <1>4, AbsentIsRow, Zenon DEF CallInv
<1>6. CASE row.content = c.content
  <2>1. Proceed(s, next)
    BY <1>2, <1>4, <1>5, <1>6, Zenon DEF Find, same_event
  <2>2. pc'[s] = next /\ call' = call
    BY <1>4, <2>1, Zenon DEF TypeOK, Proceed
  <2>3. CallInv(s)'
    BY <1>3, <1>4, <1>5, <1>6, <2>2, Zenon DEF CallInv, Complete, Latest
  <2>4. QED
    BY <1>3, <2>1, <2>3, ProceedStep, Zenon DEF Steps
<1>7. CASE row.content # c.content
  <2>1. Return(s, conflict)
    BY <1>2, <1>4, <1>5, <1>7, Zenon DEF Find, same_event
  <2>2. AnswerStands(s, [call |-> c, outcome |-> conflict])
    BY <1>5, <1>7, Zenon DEF AnswerStands, Accepted, Complete
  <2>3. QED
    BY <1>3, <2>1, <2>2, ReturnStep, Zenon DEF Steps, Refused
<1>8. QED
  BY <1>6, <1>7, Zenon

\* The equal duplicate has its delivery row.
LEMMA CompareStep ==
  ASSUME IInv, NEW s \in Sessions, EnqueueCheck(s) \/ ImportCompare(s)
  PROVE  IInv'
<1>1. pc[s] \in {"enqueue_check", "import_compare"} /\ UNCHANGED <<events, writes, bound>>
  BY Zenon DEF EnqueueCheck, ImportCompare
<1> DEFINE c == call[s]
           row == Latest(s, c.id)
<1>2. CallInv(s) /\ Seen(s) = row
  BY <1>1, SeenIsLatest, Zenon DEF Steps
<1>3. Complete(row) /\ row.content = c.content
  BY <1>1, <1>2, Zenon DEF CallInv
<1>4. PICK outcome \in {"AlreadyEnqueued", "AlreadyImported", "ImportConflict"} : Return(s, outcome)
  BY <1>2, <1>3, Zenon DEF EnqueueCheck, ImportCompare, Complete
<1>5. AnswerStands(s, [call |-> c, outcome |-> outcome])
  BY <1>3, <1>4, Zenon DEF AnswerStands, Accepted, Complete
<1>6. QED
  BY <1>1, <1>4, <1>5, ReturnStep, Zenon DEF Steps, Accepted, Refused
\* The INSERT of the event: a new row that only this transaction holds, or the
\* complete row that is there.
LEMMA InsertEventStep ==
  ASSUME IInv, NEW s \in Sessions, EnqueueInsert(s) \/ ImportInsert(s)
  PROVE  IInv'
<1>1. PICK found \in {"enqueue_find", "import_find"} :
        \E new \in {"enqueue_delivery", "import_delivery"} :
          pc[s] \in {"enqueue_insert", "import_insert"} /\ InsertEvent(s, found, new)
  BY Zenon DEF EnqueueInsert, ImportInsert
<1>2. PICK new \in {"enqueue_delivery", "import_delivery"} : InsertEvent(s, found, new)
  BY <1>1, Zenon
<1>3. /\ pc[s] \in {"enqueue_insert", "import_insert"} /\ pc[s] \in Steps
      /\ UNCHANGED <<events, bound>>
  BY <1>1, <1>2, Zenon DEF InsertEvent, Steps
<1>4. /\ TypeOK /\ SessionInv(s) /\ CallInv(s)
      /\ bound \in [Sessions -> Tenants \union {"none"}]
  BY <1>3, IInvParts, Zenon DEF SessionInv
<1>5. PICK c \in Call : c = call[s]
  BY <1>4, Zenon DEF CallInv
<1>6. PICK i \in Ids : i = c.id
  BY Zenon DEF Call
<1>7. Inserters(i) \subseteq {s} /\ bound[s] = TenantOf[i] /\ c.content \in Contents
  BY <1>2, <1>4, <1>5, <1>6, Zenon DEF InsertEvent, CanInsert, CallInv, Call
<1>8. \A j \in Ids : writes[s][j] # Absent => Complete(writes[s][j]) /\ writes[s][j].delivery # "touched"
  BY <1>3, <1>4, Zenon DEF SessionInv, WrittenInv
<1>9. CASE Latest(s, i) # Absent
  <2>1. Proceed(s, found) /\ UNCHANGED writes
    BY <1>2, <1>5, <1>6, <1>9, Zenon DEF InsertEvent
  <2>2. Complete(Latest(s, i))
    BY <1>8, <1>9, IInvParts, Zenon DEF Latest
  <2>3. pc'[s] = found /\ call' = call
    BY <1>4, <2>1, Zenon DEF TypeOK, Proceed
  <2>4. CallInv(s)'
    BY <1>3, <1>4, <1>5, <1>6, <2>1, <2>2, <2>3, Zenon DEF CallInv, Complete, Latest
  <2>5. QED
    BY <1>3, <2>1, <2>4, ProceedStep, Zenon DEF Steps
<1>10. CASE Latest(s, i) = Absent
  <2>1. /\ writes' = [writes EXCEPT ![s][i].content = c.content]
        /\ pc' = [pc EXCEPT ![s] = new] /\ UNCHANGED <<call, told>>
    BY <1>2, <1>5, <1>6, <1>10, Zenon DEF InsertEvent, Proceed
  <2>2. writes[s][i] = Absent /\ events[i] = Absent
    BY <1>10, Zenon DEF Latest
  <2>3. PICK row \in Row : row = [content |-> c.content, delivery |-> "none"]
    BY <1>7, Zenon DEF Row, DeliveryState
  <2>4. row # Absent
    BY <1>7, <2>3, RowsAssumption, Zenon DEF Absent
  <2>5. [writes[s][i] EXCEPT !.content = c.content] = row
    BY <2>2, <2>3 DEF Absent
  <2>6. writes' = [writes EXCEPT ![s] = [writes[s] EXCEPT ![i] = row]]
    BY <1>4, <2>1, <2>5, Zenon DEF TypeOK
  <2>7. /\ writes'[s][i] = row /\ \A j \in Ids \ {i} : writes'[s][j] = writes[s][j]
        /\ \A t \in Sessions \ {s} : writes'[t] = writes[t]
    BY <1>4, <2>6, Zenon DEF TypeOK
  <2>8. TypeOK' /\ pc'[s] = new
    <3>1. writes' \in [Sessions -> [Ids -> Row]]
      BY <1>4, <2>6, Zenon DEF TypeOK
    <3>2. QED
      BY <1>3, <1>4, <2>1, <3>1, Zenon DEF TypeOK, Steps
  <2>9. OthersUntouched(s)
    BY <1>3, <1>4, <2>1, <2>7, Zenon DEF OthersUntouched, TypeOK
  <2>10. \A u \in Sessions \ {s} : SessionInv(u)'
    BY <1>3, <1>7, <2>7, <2>9, OthersKept, Zenon
  <2>11. Inserters(i)' = {s} /\ \A j \in Ids \ {i} : Inserters(j)' = Inserters(j)
    BY <1>7, <2>4, <2>7 DEF Inserters
  <2>12. \A t \in Sessions, j \in Ids :
           (writes[t][j] # Absent => events[j] = Absent /\ Inserters(j) = {t})'
    <3> SUFFICES ASSUME NEW t \in Sessions, NEW j \in Ids, writes'[t][j] # Absent
                 PROVE  events[j] = Absent /\ Inserters(j)' = {t}
      BY <1>3, Zenon
    <3>1. CASE j = i
      BY <3>1, <2>2, <2>11, Zenon DEF Inserters
    <3>2. CASE j # i
      <4>1. writes[t][j] # Absent
        BY <3>2, <2>7, Zenon
      <4>2. QED
        BY <3>2, <4>1, <2>11, IInvParts, Zenon
    <3>3. QED
      BY <3>1, <3>2, Zenon
  <2>13. \A j \in Ids : Kept(s, j)
    BY <1>3, <1>10, <2>7, Zenon DEF Kept, Latest
  <2>14. \A a \in told'[s] : AnswerStands(s, a)' /\ a.outcome \notin {"MissingRow", "MigrationMismatch"}
    <3> SUFFICES ASSUME NEW a \in told[s]
                 PROVE  AnswerStands(s, a)' /\ a.outcome \notin {"MissingRow", "MigrationMismatch"}
      BY <2>1, Zenon
    <3>1. /\ a \in Answer /\ a.call.id \in Ids /\ AnswerStands(s, a)
          /\ a.outcome \notin {"MissingRow", "MigrationMismatch"}
      BY <1>4 DEF TypeOK, SessionInv, Answer, Call
    <3>2. Inserters(a.call.id) = {s} => Inserters(a.call.id)' = {s}
      BY <3>1, <2>11, Zenon
    <3>3. QED
      BY <3>1, <3>2, <1>4, <2>13, AnswerKept, Zenon
  <2>15. CallInv(s)'
    BY <1>3, <1>4, <1>5, <1>6, <2>1, <2>3, <2>7, <2>8, Zenon DEF CallInv
  <2>16. \A j \in Ids : writes'[s][j] # Absent => WrittenInv(s, j)'
    BY <1>5, <1>6, <1>8, <2>1, <2>7, <2>8, Zenon DEF WrittenInv, Complete
  <2>17. SessionInv(s)'
    BY <2>8, <2>14, <2>15, <2>16, Zenon DEF SessionInv
  <2>18. QED
    BY <1>3, <1>4, <2>8, <2>10, <2>12, <2>17, IInvParts DEF IInv, Complete
<1>11. QED
  BY <1>9, <1>10, Zenon

\* The INSERT of the delivery completes the row of the call.
LEMMA InsertDeliveryStep ==
  ASSUME IInv, NEW s \in Sessions, EnqueueDelivery(s) \/ ImportDelivery(s)
  PROVE  IInv'
<1>1. PICK outcome \in {"Enqueued", "Imported"} :
        pc[s] \in {"enqueue_delivery", "import_delivery"} /\ InsertDelivery(s, outcome)
  BY Zenon DEF EnqueueDelivery, ImportDelivery
<1>2. /\ pc[s] \in Steps /\ UNCHANGED <<events, bound>> /\ Return(s, outcome)
      /\ writes' = [writes EXCEPT ![s][call[s].id].delivery = call[s].state]
  BY <1>1, Zenon DEF InsertDelivery, Steps
<1>3. /\ TypeOK /\ SessionInv(s) /\ CallInv(s)
      /\ bound \in [Sessions -> Tenants \union {"none"}]
  BY <1>2, IInvParts, Zenon DEF SessionInv
<1>4. PICK c \in Call : c = call[s]
  BY <1>3, Zenon DEF CallInv
<1>5. PICK i \in Ids : i = c.id
  BY Zenon DEF Call
<1>6. c.content \in Contents /\ c.state \in ImportedDeliveryState
  BY Zenon DEF Call
<1>7. writes[s][i] = [content |-> c.content, delivery |-> "none"]
  BY <1>1, <1>3, <1>4, <1>5, Zenon DEF CallInv
<1>8. c.content # "none" /\ c.state \notin {"none", "touched"} /\ writes[s][i] # Absent
  BY <1>6, <1>7, RowsAssumption DEF ImportedDeliveryState, Absent
<1>9. PICK row \in Row : row = [content |-> c.content, delivery |-> c.state]
  BY <1>6, Zenon DEF Row, DeliveryState
<1>10. [writes[s][i] EXCEPT !.delivery = c.state] = row
  BY <1>7, <1>9
<1>11. writes' = [writes EXCEPT ![s] = [writes[s] EXCEPT ![i] = row]]
  BY <1>2, <1>3, <1>4, <1>5, <1>10, Zenon DEF TypeOK
<1>12. /\ writes'[s][i] = row /\ \A j \in Ids \ {i} : writes'[s][j] = writes[s][j]
       /\ \A t \in Sessions \ {s} : writes'[t] = writes[t]
  BY <1>3, <1>11, Zenon DEF TypeOK
<1>13. PICK new \in Answer : new = [call |-> c, outcome |-> outcome]
  BY <1>1, Zenon DEF Answer, Accepted
<1>14. TypeOK'
  <2>1. writes' \in [Sessions -> [Ids -> Row]]
    BY <1>3, <1>11, Zenon DEF TypeOK
  <2>2. QED
    BY <1>2, <1>3, <1>4, <1>13, <2>1, Zenon DEF TypeOK, Return
<1>15. pc'[s] = "open" /\ told'[s] = told[s] \union {new} /\ OthersUntouched(s)
  BY <1>1, <1>2, <1>3, <1>4, <1>12, <1>13, Zenon DEF TypeOK, Return, OthersUntouched, Accepted
<1>16. row # Absent /\ Complete(row) /\ row.delivery # "touched"
  BY <1>8, <1>9, Zenon DEF Absent, Complete
<1>17. Inserters(i) = {s}
  BY <1>8, IInvParts, Zenon
<1>18. \A j \in Ids : Inserters(j)' = Inserters(j)
  BY <1>8, <1>12, <1>16, Zenon DEF Inserters
<1>19. \A u \in Sessions \ {s} : SessionInv(u)'
  BY <1>2, <1>12, <1>15, <1>17, OthersKept, Zenon
<1>20. \A t \in Sessions, j \in Ids :
         (writes[t][j] # Absent => events[j] = Absent /\ Inserters(j) = {t})'
  <2> SUFFICES ASSUME NEW t \in Sessions, NEW j \in Ids, writes'[t][j] # Absent
               PROVE  events[j] = Absent /\ Inserters(j)' = {t}
    BY <1>2, Zenon
  <2>1. writes[t][j] # Absent
    BY <1>8, <1>12, Zenon
  <2>2. QED
    BY <2>1, <1>18, IInvParts, Zenon
<1>21. \A j \in Ids : Kept(s, j)
  <2>1. Latest(s, i)' = row /\ Latest(s, i).content = row.content /\ row.delivery # "none"
    BY <1>7, <1>8, <1>9, <1>12, <1>16 DEF Latest
  <2>2. \A j \in Ids \ {i} : Latest(s, j)' = Latest(s, j)
    BY <1>2, <1>12, Zenon DEF Latest
  <2>3. QED
    BY <2>1, <2>2, Zenon DEF Kept
<1>22. \A a \in told[s] : AnswerStands(s, a)' /\ a.outcome \notin {"MissingRow", "MigrationMismatch"}
  <2> SUFFICES ASSUME NEW a \in told[s]
               PROVE  AnswerStands(s, a)' /\ a.outcome \notin {"MissingRow", "MigrationMismatch"}
    BY Zenon
  <2>1. /\ a \in Answer /\ a.call.id \in Ids /\ AnswerStands(s, a)
        /\ a.outcome \notin {"MissingRow", "MigrationMismatch"}
    BY <1>3 DEF TypeOK, SessionInv, Answer, Call
  <2>2. QED
    BY <2>1, <1>3, <1>18, <1>21, AnswerKept, Zenon
<1>23. AnswerStands(s, new)' /\ new.outcome \notin {"MissingRow", "MigrationMismatch"}
  <2>1. Latest(s, i)' = row
    BY <1>12, <1>16, Zenon DEF Latest
  <2>2. QED
    BY <1>1, <1>5, <1>8, <1>9, <1>13, <1>17, <1>18, <2>1 DEF AnswerStands
<1>24. \A j \in Ids : writes'[s][j] # Absent => WrittenInv(s, j)'
  <2> SUFFICES ASSUME NEW j \in Ids, writes'[s][j] # Absent
               PROVE  Complete(writes'[s][j]) /\ writes'[s][j].delivery # "touched"
    BY Zenon DEF WrittenInv, Complete
  <2>1. CASE j = i
    BY <2>1, <1>12, <1>16, Zenon
  <2>2. CASE j # i
    BY <2>2, <1>3, <1>4, <1>5, <1>12 DEF SessionInv, WrittenInv
  <2>3. QED
    BY <2>1, <2>2, Zenon
<1>25. SessionInv(s)'
  BY <1>15, <1>22, <1>23, <1>24, Zenon DEF SessionInv, Steps
<1>26. QED
  BY <1>2, <1>3, <1>14, <1>19, <1>20, <1>25, IInvParts, Zenon DEF IInv, Complete
\* The end of a transaction: nothing is left of it.
LEMMA CloseSession ==
  ASSUME IInv, NEW s \in Sessions, CloseTx(s), bound' = [bound EXCEPT ![s] = "none"],
         events' \in [Ids -> Row]
  PROVE  /\ TypeOK' /\ bound' \in [Sessions -> Tenants \union {"none"}]
         /\ OthersUntouched(s) /\ SessionInv(s)' /\ writes'[s] = NoWrites
<1>1. TypeOK /\ bound \in [Sessions -> Tenants \union {"none"}]
  BY IInvParts, Zenon
<1>2. NoWrites \in [Ids -> Row] /\ \A i \in Ids : NoWrites[i] = Absent
  BY AbsentIsRow, Zenon DEF NoWrites
<1>3. TypeOK' /\ bound' \in [Sessions -> Tenants \union {"none"}]
  BY <1>1, <1>2, Zenon DEF TypeOK, CloseTx
<1>4. /\ writes'[s] = NoWrites /\ pc'[s] = "idle" /\ told'[s] = {}
      /\ OthersUntouched(s)
  BY <1>1, Zenon DEF TypeOK, CloseTx, OthersUntouched
<1>5. SessionInv(s)'
  BY <1>2, <1>4, Zenon DEF SessionInv, Steps, NoWrites
<1>6. QED
  BY <1>3, <1>4, <1>5, Zenon

\* A rollback takes the transaction's rows with it.
LEMMA RollbackStep ==
  ASSUME IInv, NEW s \in Sessions, Rollback(s)
  PROVE  IInv'
<1>1. CloseTx(s) /\ UNCHANGED events /\ bound' = [bound EXCEPT ![s] = "none"]
  BY Zenon DEF Rollback, RollbackTx
<1>2. /\ TypeOK' /\ bound' \in [Sessions -> Tenants \union {"none"}]
      /\ OthersUntouched(s) /\ SessionInv(s)' /\ writes'[s] = NoWrites
  BY <1>1, IInvParts, CloseSession, Zenon DEF TypeOK
<1>3. \A i \in Ids : writes'[s][i] = Absent
  BY <1>2, Zenon DEF NoWrites
<1>4. \A i \in Ids : writes'[s][i] = writes[s][i] \/ Inserters(i) \subseteq {s}
  BY <1>3, IInvParts, Zenon
<1>5. \A u \in Sessions \ {s} : SessionInv(u)'
  BY <1>1, <1>2, <1>4, OthersKept, Zenon
<1>6. \A t \in Sessions, j \in Ids :
        (writes[t][j] # Absent => events[j] = Absent /\ Inserters(j) = {t})'
  <2> SUFFICES ASSUME NEW t \in Sessions, NEW j \in Ids, writes'[t][j] # Absent
               PROVE  events[j] = Absent /\ Inserters(j)' = {t}
    BY <1>1, Zenon
  <2>1. t # s /\ writes'[t] = writes[t] /\ writes[t][j] # Absent
    BY <1>2, <1>3, Zenon DEF OthersUntouched
  <2>2. events[j] = Absent /\ Inserters(j) = {t}
    BY <2>1, IInvParts, Zenon
  <2>3. \A u \in Sessions \ {t} : writes'[u][j] = Absent
    BY <1>2, <1>3, <2>2, Zenon DEF Inserters, OthersUntouched
  <2>4. QED
    BY <2>1, <2>2, <2>3, Zenon DEF Inserters
<1>7. QED
  BY <1>1, <1>2, <1>5, <1>6, IInvParts, Zenon DEF IInv, Complete

\* What a transaction is about to commit: complete rows no worker has seen, of
\* identities that nobody has committed and nobody else has inserted.
LEMMA AboutToCommit ==
  ASSUME IInv, NEW s \in Sessions, pc[s] = "open", NEW i \in Ids, writes[s][i] # Absent
  PROVE  /\ writes[s][i] \in Row /\ Complete(writes[s][i]) /\ writes[s][i].delivery # "touched"
         /\ events[i] = Absent /\ Inserters(i) = {s}
<1>1. TypeOK /\ SessionInv(s) /\ events[i] = Absent /\ Inserters(i) = {s}
  BY IInvParts, Zenon
<1>2. WrittenInv(s, i) /\ writes[s][i] \in Row
  BY <1>1, Zenon DEF TypeOK, SessionInv
<1>3. QED
  BY <1>1, <1>2, Zenon DEF WrittenInv

\* A commit adds the transaction's rows to what the others see.
LEMMA CommitStep ==
  ASSUME IInv, NEW s \in Sessions, Commit(s)
  PROVE  IInv'
<1>1. /\ CloseTx(s) /\ pc[s] = "open" /\ bound' = [bound EXCEPT ![s] = "none"]
      /\ events' = [i \in Ids |-> Latest(s, i)]
  BY Zenon DEF Commit, CommitTx
<1>2. events' \in [Ids -> Row]
  BY <1>1, IInvParts, LatestIsRow, Zenon
<1>3. /\ TypeOK' /\ bound' \in [Sessions -> Tenants \union {"none"}]
      /\ OthersUntouched(s) /\ SessionInv(s)' /\ writes'[s] = NoWrites
  BY <1>1, <1>2, CloseSession, Zenon
<1>4. \A i \in Ids : writes'[s][i] = Absent
  BY <1>3, Zenon DEF NoWrites
<1>5. ASSUME NEW i \in Ids
      PROVE  \/ writes[s][i] = Absent /\ events'[i] = events[i]
             \/ Complete(events'[i]) /\ events[i] = Absent /\ Inserters(i) = {s}
  BY <1>1, AboutToCommit, Zenon DEF Latest
<1>6. \A i \in Ids : (events[i] = Absent \/ Complete(events[i]))'
  <2> SUFFICES ASSUME NEW i \in Ids PROVE events'[i] = Absent \/ Complete(events'[i])
    BY Zenon DEF Complete
  <2>1. QED
    BY <1>5, IInvParts, Zenon
<1>7. ASSUME NEW t \in Sessions, NEW j \in Ids, t # s, Inserters(j) = {t}
      PROVE  Inserters(j)' = {t} /\ events'[j] = events[j]
  <2>1. \A u \in Sessions \ {s} : writes'[u][j] = writes[u][j]
    BY <1>3, Zenon DEF OthersUntouched
  <2>2. events'[j] = events[j]
    BY <1>5, <1>7, Zenon
  <2>3. QED
    BY <1>4, <1>7, <2>1, <2>2, Zenon DEF Inserters
<1>8. \A t \in Sessions, j \in Ids :
        (writes[t][j] # Absent => events[j] = Absent /\ Inserters(j) = {t})'
  <2> SUFFICES ASSUME NEW t \in Sessions, NEW j \in Ids, writes'[t][j] # Absent
               PROVE  events'[j] = Absent /\ Inserters(j)' = {t}
    BY Zenon
  <2>1. t # s /\ writes[t][j] # Absent
    BY <1>3, <1>4, Zenon DEF OthersUntouched
  <2>2. events[j] = Absent /\ Inserters(j) = {t}
    BY <2>1, IInvParts, Zenon
  <2>3. QED
    BY <2>1, <2>2, <1>7, Zenon
<1>9. ASSUME NEW u \in Sessions, u # s PROVE SessionInv(u)'
  <2>1. TypeOK /\ SessionInv(u)
    BY IInvParts, Zenon
  <2>2. /\ pc'[u] = pc[u] /\ call'[u] = call[u] /\ told'[u] = told[u]
        /\ writes'[u] = writes[u] /\ bound'[u] = bound[u]
    BY <1>3, <1>9, Zenon DEF OthersUntouched
  <2>3. ASSUME NEW i \in Ids PROVE Kept(u, i)
    <3>1. CASE writes[u][i] # Absent
      BY <3>1, <2>2, Zenon DEF Kept, Latest
    <3>2. CASE writes[u][i] = Absent
      BY <3>2, <2>2, <1>5, Zenon DEF Kept, Latest
    <3>3. QED
      BY <3>1, <3>2, Zenon
  <2>4. \A i \in Ids : Inserters(i) = {u} => Inserters(i)' = {u}
    BY <1>7, <1>9, Zenon
  <2>5. QED
    BY <2>1, <2>2, <2>3, <2>4, Frame, Zenon
<1>10. QED
  BY <1>3, <1>6, <1>8, <1>9, Zenon DEF IInv

\* A worker changes the delivery of a committed row only.
LEMMA WorkStep ==
  ASSUME IInv, NEW i \in Ids, Work(i), UNCHANGED bound
  PROVE  IInv'
<1>1. PICK d \in Stamps \union {"touched"} : events' = [events EXCEPT ![i].delivery = d]
  BY Zenon DEF Work
<1>2. /\ TypeOK /\ events[i].delivery = "pending" /\ UNCHANGED <<writes, pc, call, told>>
  BY IInvParts, Zenon DEF Work, txs
<1>3. events[i] \in Row /\ events[i] # Absent /\ Complete(events[i])
  BY <1>2, IInvParts, AbsentIsRow, Zenon DEF TypeOK
<1>4. d \in DeliveryState /\ d # "none"
  BY RowsAssumption, Zenon DEF DeliveryState, ImportedDeliveryState
<1>5. /\ events' \in [Ids -> Row] /\ events'[i].content = events[i].content
      /\ events'[i].delivery = d /\ \A j \in Ids \ {i} : events'[j] = events[j]
  BY <1>1, <1>2, <1>3, <1>4, Zenon DEF TypeOK, Row
<1>6. TypeOK'
  BY <1>2, <1>5, Zenon DEF TypeOK
<1>7. \A j \in Ids : (events[j] = Absent \/ Complete(events[j]))'
  BY <1>3, <1>4, <1>5, IInvParts, Zenon DEF Complete
<1>8. \A j \in Ids : Inserters(j)' = Inserters(j)
  BY <1>2, Zenon DEF Inserters
<1>9. \A t \in Sessions, j \in Ids :
        (writes[t][j] # Absent => events[j] = Absent /\ Inserters(j) = {t})'
  BY <1>2, <1>3, <1>5, <1>8, IInvParts, Zenon
<1>10. ASSUME NEW u \in Sessions PROVE SessionInv(u)'
  <2>1. SessionInv(u)
    BY IInvParts, Zenon
  <2>2. \A j \in Ids : Kept(u, j)
    BY <1>2, <1>4, <1>5, Zenon DEF Kept, Latest
  <2>3. QED
    BY <1>2, <1>8, <2>1, <2>2, Frame, Zenon
<1>11. QED
  BY <1>6, <1>7, <1>9, <1>10, IInvParts, Zenon DEF IInv
-------------------------------------------------------------------------------
(* The theorems.                                                           *)

\* Nothing is stored and nobody has been told anything.
LEMMA InitInv ==
  ASSUME Init
  PROVE  IInv
<1>1. /\ events = [i \in Ids |-> Absent] /\ writes = [s \in Sessions |-> NoWrites]
      /\ pc = [s \in Sessions |-> "idle"] /\ call = [s \in Sessions |-> NoCall]
      /\ told = [s \in Sessions |-> {}] /\ bound = [s \in Sessions |-> "none"]
  BY Zenon DEF Init, TxInit
<1>2. NoWrites \in [Ids -> Row] /\ \A i \in Ids : NoWrites[i] = Absent
  BY AbsentIsRow, Zenon DEF NoWrites
<1>3. TypeOK
  BY <1>1, <1>2, AbsentIsRow, Zenon DEF TypeOK
<1>4. \A s \in Sessions : SessionInv(s)
  BY <1>1, <1>2, Zenon DEF SessionInv, Steps
<1>5. QED
  BY <1>1, <1>2, <1>3, <1>4, Zenon DEF IInv

\* Every step of a caller or a worker keeps IInv.
LEMMA NextInv ==
  ASSUME IInv, [Next]_vars
  PROVE  IInv'
<1>1. ASSUME NEW s \in Sessions, Open(s) PROVE IInv'
  BY <1>1, OpenStep, Zenon
<1>2. ASSUME NEW s \in Sessions, Enqueue(s) \/ ImportForMigration(s) PROVE IInv'
  BY <1>2, BeginStep, Zenon
<1>3. ASSUME NEW s \in Sessions, Continue(s) PROVE IInv'
  <2>1. CASE EnqueueInsert(s) \/ ImportInsert(s)
    BY <2>1, InsertEventStep, Zenon
  <2>2. CASE EnqueueDelivery(s) \/ ImportDelivery(s)
    BY <2>2, InsertDeliveryStep, Zenon
  <2>3. CASE EnqueueFind(s) \/ ImportFind(s)
    BY <2>3, FindStep, Zenon
  <2>4. CASE EnqueueCheck(s) \/ ImportCompare(s)
    BY <2>4, CompareStep, Zenon
  <2>5. QED
    BY <1>3, <2>1, <2>2, <2>3, <2>4, Zenon DEF Continue
<1>4. ASSUME NEW s \in Sessions, Commit(s) PROVE IInv'
  BY <1>4, CommitStep, Zenon
<1>5. ASSUME NEW s \in Sessions, Rollback(s) PROVE IInv'
  BY <1>5, RollbackStep, Zenon
<1>6. ASSUME NEW i \in Ids, Work(i), UNCHANGED bound PROVE IInv'
  BY <1>6, WorkStep, Zenon
<1>7. CASE UNCHANGED vars
  <2>1. UNCHANGED <<events, writes, pc, call, told, bound>>
    BY <1>7, Zenon DEF vars, txs
  <2>2. TypeOK' /\ \A i \in Ids : Inserters(i)' = Inserters(i)
    BY <2>1, IInvParts, Zenon DEF TypeOK, Inserters
  <2>3. ASSUME NEW u \in Sessions PROVE SessionInv(u)'
    <3>1. TypeOK /\ SessionInv(u)
      BY IInvParts, Zenon
    <3>2. \A i \in Ids : Kept(u, i)
      BY <2>1, Zenon DEF Kept, Latest
    <3>3. QED
      BY <2>1, <2>2, <3>1, <3>2, Frame, Zenon
  <2>4. QED
    BY <2>1, <2>2, <2>3, IInvParts, Zenon DEF IInv, Complete
<1>8. QED
  BY <1>1, <1>2, <1>3, <1>4, <1>5, <1>6, <1>7, Zenon DEF Next

\* Whatever producers and workers interleave, committed events are complete, an
\* uncommitted one belongs to one transaction, and every transaction of
\* enqueue_for_scope and import_for_scope is consistent with what it was told.
THEOREM PgProducerInductive == Spec => []IInv
<1>1. Init => IInv
  BY InitInv, Zenon
<1>2. IInv /\ [Next]_vars => IInv'
  BY NextInv, Zenon
<1>3. QED
  BY <1>1, <1>2, PTL DEF Spec

\* An answer of enqueue or import names what the transaction will commit beside,
\* for any number of concurrent callers of one identity.
THEOREM PgAnswersStand == Spec => []AnswersStand
<1>1. IInv => AnswersStand
  BY Zenon DEF IInv, SessionInv, AnswersStand
<1>2. QED
  BY <1>1, PgProducerInductive, PTL

\* A call that loses the race for an identity finds the row it lost to, and its
\* delivery, under the tenant it bound.
THEOREM PgOutcomeResolved == Spec => []OutcomeResolved
<1>1. IInv => OutcomeResolved
  BY Zenon DEF IInv, SessionInv, OutcomeResolved
<1>2. QED
  BY <1>1, PgProducerInductive, PTL

\* A commit records the identities the transaction inserted.
LEMMA CommitRecords ==
  ASSUME IInv, NEW s \in Sessions, Commit(s)
  PROVE  \E S \in SUBSET Ids : Ledger!Record(S)
<1> DEFINE S == {i \in Ids : writes[s][i] # Absent}
           content == [i \in S |-> writes[s][i].content]
           state == [i \in S |-> writes[s][i].delivery]
<1>1. pc[s] = "open" /\ events' = [i \in Ids |-> Latest(s, i)]
  BY Zenon DEF Commit, CommitTx
<1>2. ASSUME NEW i \in S
      PROVE  /\ writes[s][i].content \in Contents
             /\ writes[s][i].delivery \in ImportedDeliveryState
             /\ writes[s][i] = [content |-> content[i], delivery |-> state[i]]
             /\ events[i] = Absent
  <2>1. /\ writes[s][i] \in Row /\ Complete(writes[s][i])
        /\ writes[s][i].delivery # "touched" /\ events[i] = Absent
    BY <1>1, AboutToCommit, Zenon
  <2>2. QED
    BY <2>1, Zenon DEF Row, Complete, DeliveryState
<1>3. content \in [S -> Contents] /\ state \in [S -> ImportedDeliveryState]
  BY <1>2, Zenon
<1>4. events' = [i \in Ids |-> IF i \in S THEN [content |-> content[i], delivery |-> state[i]]
                                          ELSE events[i]]
  BY <1>1, <1>2, Zenon DEF Latest
<1>5. \A i \in S : events[i] = Ledger!Absent
  BY <1>2, Zenon DEF Absent, Ledger!Absent
<1>6. content \in [S -> Contents] /\ state \in [S -> Ledger!ImportedDeliveryState]
  BY <1>3, Zenon DEF ImportedDeliveryState, Ledger!ImportedDeliveryState
<1> HIDE DEF content, state
<1>7. Ledger!Record(S)
  BY <1>4, <1>5, <1>6, Zenon DEF Ledger!Record
<1>8. QED
  BY <1>7, Zenon

\* The producers of the PostgreSQL adapter implement the ledger: each identity is
\* recorded once, with its delivery row, and keeps its content.
THEOREM PgImplementsLedger == Spec => LedgerRefined
<1>1. Init => Ledger!Init
  BY Zenon DEF Init, TxInit, Ledger!Init, Absent, Ledger!Absent
<1>2. IInv /\ [Next]_vars => [Ledger!Next]_events
  <2> SUFFICES ASSUME IInv, [Next]_vars PROVE Ledger!Next \/ UNCHANGED events
    BY Zenon
  <2>1. ASSUME NEW s \in Sessions, Commit(s) PROVE Ledger!Next
    BY <2>1, CommitRecords, Zenon DEF Ledger!Next
  <2>2. ASSUME NEW i \in Ids, Work(i) PROVE Ledger!Next
    BY <2>2, Zenon DEF Work, Ledger!Next, Ledger!Deliver
  <2>3. ASSUME NEW s \in Sessions,
               Open(s) \/ Enqueue(s) \/ ImportForMigration(s) \/ Continue(s) \/ Rollback(s)
        PROVE  UNCHANGED events
    BY <2>3, Zenon DEF Open, OpenTx, Enqueue, BeginEnqueue, ImportForMigration, BeginImport,
                BeginCall, Continue, EnqueueInsert, ImportInsert, InsertEvent,
                EnqueueDelivery, ImportDelivery, InsertDelivery, EnqueueFind, ImportFind,
                Find, EnqueueCheck, ImportCompare, Rollback, RollbackTx
  <2>4. CASE UNCHANGED vars
    BY <2>4, Zenon DEF vars
  <2>5. QED
    BY <2>1, <2>2, <2>3, <2>4, Zenon DEF Next
<1>3. QED
  BY <1>1, <1>2, PgProducerInductive, PTL DEF Spec, LedgerRefined, Ledger!Spec

-------------------------------------------------------------------------------
(* The upgrade to the tenant schema.                                       *)

\* The type of what a connection knows of its run of the activation, and of the state.
Run == [pc : 0..18, seen : [Objects -> Definitions], undisturbed : BOOLEAN]

UpgradeTypeOK ==
  /\ adapter \in Adapters
  /\ catalog \in [Objects -> Definitions]
  /\ rows \in Seq(TenantRow)
  /\ run \in [Runs -> Run]

\* One of the two unique indexes is there, and the rows satisfy both and every other
\* constraint of the catalog.
Covered == catalog["source_event_id"] = "v1" \/ catalog["tenant_source_event_id"] = "v2"

\* A run that has passed the statement of the tenant index, or found the index in its
\* preflight, may drop the version 1 index: no statement takes the tenant index away.
RunsCovered ==
  \A s \in Runs : run[s].pc > 9 \/ run[s].seen["tenant_source_event_id"] = "v2"
                    => catalog["tenant_source_event_id"] = "v2"

\* What MySQL alone has, the other adapters never get.
OnlyMysql ==
  adapter # "mysql" => /\ \A o \in MysqlOnly : catalog[o] = "none"
                       /\ \A s \in Runs : run[s].pc = 0

\* The invariant behind IdentityHeld, inductive for any number of runs.
UpgradeInv ==
  UpgradeTypeOK /\ AdmitsAll(catalog, rows) /\ Covered /\ RunsCovered /\ OnlyMysql

-------------------------------------------------------------------------------
\* The definition the n-th statement changes from old to new, after k statements.
Set(k, n, old, new) == IF k < n THEN old ELSE new

\* The catalog of MySQL after the first k statements of the activation.
Staged(cat, k) ==
  /\ \A c \in TenantColumns : k = 0 => cat[c] \in {"none", "nullable"}
  /\ k > 0 => cat["events_tenant_id"] = "not_null"
  /\ k > 0 => cat["deliveries_tenant_id"] = Set(k, 2, "nullable", "not_null")
  /\ cat["events_tenant_size"] = Set(k, 3, "none", "v2")
  /\ cat["events_tenant_nonempty"] = Set(k, 4, "none", "v2")
  /\ cat["deliveries_tenant_size"] = Set(k, 5, "none", "v2")
  /\ cat["deliveries_tenant_nonempty"] = Set(k, 6, "none", "v2")
  /\ cat["tenant_row"] = Set(k, 7, "none", "v2")
  /\ cat["identity_key"] = Set(k, 8, "none", "v2")
  /\ cat["tenant_source_event_id"] = Set(k, 9, "none", "v2")
  /\ cat["source_event_id"] = Set(k, 10, "v1", "none")
  /\ cat["event_fk"] = Set(k, 11, "v1", Set(k, 12, "none", "v2"))
  /\ cat["event_fk_index"] = Set(k, 12, "none", "v2")
  /\ cat["claimable"] = Set(k, 13, "v1", Set(k, 14, "none", "v2"))
  /\ cat["expired_claims"] = Set(k, 15, "v1", Set(k, 16, "none", "v2"))
  /\ cat["schema_marker"] = Set(k, 17, "none", Set(k, 18, "empty", "v2"))
  /\ cat["rest"] = "v1"

\* A run stands where it repeats what an earlier run has done, or does the next
\* statement itself.
RunAt(s, k) ==
  /\ Prepared
  /\ \E j \in 0..18 :
       /\ Staged(run[s].seen, j) /\ \A c \in TenantColumns : run[s].seen[c] # "none"
       /\ j <= k /\ run[s].pc <= k + 1
       /\ k = j \/ k = run[s].pc - 1

\* The invariant behind SchemaExact, Resumable and NeverUndone.
StagedInv ==
  /\ adapter = "mysql" =>
       \E k \in 0..18 :
         /\ Staged(catalog, k)
         /\ \A s \in Runs : run[s].pc # 0 => RunAt(s, k)
  /\ adapter # "mysql" /\ catalog["schema_marker"] = "v2" => catalog = Baseline(adapter)
  /\ \A s \in Runs : run[s].pc # 0 /\ run[s].undisturbed => Backfilled(rows)

-------------------------------------------------------------------------------
\* The statements of the activation, one by one.
LEMMA StatementsAre ==
  /\ Len(Statements) = 18
  /\ Statements[1] = <<"events_tenant_id", "not_null">>
  /\ Statements[2] = <<"deliveries_tenant_id", "not_null">>
  /\ Statements[3] = <<"events_tenant_size", "v2">>
  /\ Statements[4] = <<"events_tenant_nonempty", "v2">>
  /\ Statements[5] = <<"deliveries_tenant_size", "v2">>
  /\ Statements[6] = <<"deliveries_tenant_nonempty", "v2">>
  /\ Statements[7] = <<"tenant_row", "v2">>
  /\ Statements[8] = <<"identity_key", "v2">>
  /\ Statements[9] = <<"tenant_source_event_id", "v2">>
  /\ Statements[10] = <<"source_event_id", "none">>
  /\ Statements[11] = <<"event_fk", "none">>
  /\ Statements[12] = <<"event_fk", "v2">>
  /\ Statements[13] = <<"claimable", "none">>
  /\ Statements[14] = <<"claimable", "v2">>
  /\ Statements[15] = <<"expired_claims", "none">>
  /\ Statements[16] = <<"expired_claims", "v2">>
  /\ Statements[17] = <<"schema_marker", "empty">>
  /\ Statements[18] = <<"schema_marker", "v2">>
BY Zenon DEF Statements

\* Each names an object and a definition of it; the tenth alone drops the version 1
\* index, and the ninth alone makes the tenant index.
LEMMA StatementFacts ==
  ASSUME NEW p \in 1..18
  PROVE  /\ Statements[p][1] \in Objects \ {"event_fk_index", "rest"}
         /\ Statements[p][2] \in Definitions
         /\ Statements[p][1] = "source_event_id" <=> p = 10
         /\ Statements[p][1] = "tenant_source_event_id" <=> p = 9
         /\ p = 9 => Statements[p][2] = "v2"
<1>1. CASE p = 1
  <2>1. Statements[p] = <<"events_tenant_id", "not_null">>
    BY <1>1, StatementsAre, Zenon
  <2> QED BY <1>1, <2>1 DEF Objects, TenantColumns, Rebuilt, Added, Checks, Definitions
<1>2. CASE p = 2
  <2>1. Statements[p] = <<"deliveries_tenant_id", "not_null">>
    BY <1>2, StatementsAre, Zenon
  <2> QED BY <1>2, <2>1 DEF Objects, TenantColumns, Rebuilt, Added, Checks, Definitions
<1>3. CASE p = 3
  <2>1. Statements[p] = <<"events_tenant_size", "v2">>
    BY <1>3, StatementsAre, Zenon
  <2> QED BY <1>3, <2>1 DEF Objects, TenantColumns, Rebuilt, Added, Checks, Definitions
<1>4. CASE p = 4
  <2>1. Statements[p] = <<"events_tenant_nonempty", "v2">>
    BY <1>4, StatementsAre, Zenon
  <2> QED BY <1>4, <2>1 DEF Objects, TenantColumns, Rebuilt, Added, Checks, Definitions
<1>5. CASE p = 5
  <2>1. Statements[p] = <<"deliveries_tenant_size", "v2">>
    BY <1>5, StatementsAre, Zenon
  <2> QED BY <1>5, <2>1 DEF Objects, TenantColumns, Rebuilt, Added, Checks, Definitions
<1>6. CASE p = 6
  <2>1. Statements[p] = <<"deliveries_tenant_nonempty", "v2">>
    BY <1>6, StatementsAre, Zenon
  <2> QED BY <1>6, <2>1 DEF Objects, TenantColumns, Rebuilt, Added, Checks, Definitions
<1>7. CASE p = 7
  <2>1. Statements[p] = <<"tenant_row", "v2">>
    BY <1>7, StatementsAre, Zenon
  <2> QED BY <1>7, <2>1 DEF Objects, TenantColumns, Rebuilt, Added, Checks, Definitions
<1>8. CASE p = 8
  <2>1. Statements[p] = <<"identity_key", "v2">>
    BY <1>8, StatementsAre, Zenon
  <2> QED BY <1>8, <2>1 DEF Objects, TenantColumns, Rebuilt, Added, Checks, Definitions
<1>9. CASE p = 9
  <2>1. Statements[p] = <<"tenant_source_event_id", "v2">>
    BY <1>9, StatementsAre, Zenon
  <2> QED BY <1>9, <2>1 DEF Objects, TenantColumns, Rebuilt, Added, Checks, Definitions
<1>10. CASE p = 10
  <2>1. Statements[p] = <<"source_event_id", "none">>
    BY <1>10, StatementsAre, Zenon
  <2> QED BY <1>10, <2>1 DEF Objects, TenantColumns, Rebuilt, Added, Checks, Definitions
<1>11. CASE p = 11
  <2>1. Statements[p] = <<"event_fk", "none">>
    BY <1>11, StatementsAre, Zenon
  <2> QED BY <1>11, <2>1 DEF Objects, TenantColumns, Rebuilt, Added, Checks, Definitions
<1>12. CASE p = 12
  <2>1. Statements[p] = <<"event_fk", "v2">>
    BY <1>12, StatementsAre, Zenon
  <2> QED BY <1>12, <2>1 DEF Objects, TenantColumns, Rebuilt, Added, Checks, Definitions
<1>13. CASE p = 13
  <2>1. Statements[p] = <<"claimable", "none">>
    BY <1>13, StatementsAre, Zenon
  <2> QED BY <1>13, <2>1 DEF Objects, TenantColumns, Rebuilt, Added, Checks, Definitions
<1>14. CASE p = 14
  <2>1. Statements[p] = <<"claimable", "v2">>
    BY <1>14, StatementsAre, Zenon
  <2> QED BY <1>14, <2>1 DEF Objects, TenantColumns, Rebuilt, Added, Checks, Definitions
<1>15. CASE p = 15
  <2>1. Statements[p] = <<"expired_claims", "none">>
    BY <1>15, StatementsAre, Zenon
  <2> QED BY <1>15, <2>1 DEF Objects, TenantColumns, Rebuilt, Added, Checks, Definitions
<1>16. CASE p = 16
  <2>1. Statements[p] = <<"expired_claims", "v2">>
    BY <1>16, StatementsAre, Zenon
  <2> QED BY <1>16, <2>1 DEF Objects, TenantColumns, Rebuilt, Added, Checks, Definitions
<1>17. CASE p = 17
  <2>1. Statements[p] = <<"schema_marker", "empty">>
    BY <1>17, StatementsAre, Zenon
  <2> QED BY <1>17, <2>1 DEF Objects, TenantColumns, Rebuilt, Added, Checks, Definitions
<1>18. CASE p = 18
  <2>1. Statements[p] = <<"schema_marker", "v2">>
    BY <1>18, StatementsAre, Zenon
  <2> QED BY <1>18, <2>1 DEF Objects, TenantColumns, Rebuilt, Added, Checks, Definitions
<1> QED BY <1>1, <1>2, <1>3, <1>4, <1>5, <1>6, <1>7, <1>8, <1>9, <1>10, <1>11, <1>12, <1>13,
           <1>14, <1>15, <1>16, <1>17, <1>18, SMTT(20)

-------------------------------------------------------------------------------
\* The identity of events, for any number of runs of the activation.

\* The catalogs of both versions give every object a definition.
LEMMA Version1Type == ASSUME NEW a PROVE Version1(a) \in [Objects -> Definitions]
BY Zenon DEF Version1, Definitions

\* The same of the version 2 schema.
LEMMA BaselineType == ASSUME NEW a PROVE Baseline(a) \in [Objects -> Definitions]
BY Zenon DEF Baseline, Definitions

\* The version 2 schema, object by object.
LEMMA BaselineIs ==
  ASSUME NEW a
  PROVE  /\ \A o \in TenantColumns : Baseline(a)[o] = "not_null"
         /\ \A o \in MysqlOnly : Baseline(a)[o] = IF a = "mysql" THEN "v2" ELSE "none"
         /\ \A o \in (Rebuilt \cup Added \cup {"schema_marker"}) \ MysqlOnly : Baseline(a)[o] = "v2"
         /\ Baseline(a)["rest"] = "v1"
         /\ Baseline(a)["source_event_id"] = "none"
<1> DEFINE All == Rebuilt \cup Added \cup {"schema_marker"}
<1>1. /\ All \subseteq Objects /\ TenantColumns \subseteq Objects /\ "rest" \in Objects
      /\ "source_event_id" \in Objects
  BY Zenon DEF Objects
<1>2. /\ All \cap TenantColumns = {} /\ MysqlOnly \subseteq All
      /\ "rest" \notin All /\ "source_event_id" \notin All
      /\ "rest" \notin TenantColumns /\ "source_event_id" \notin TenantColumns
  BY Zenon DEF TenantColumns, MysqlOnly, Rebuilt, Added, Checks
<1>3. Made(a) = IF a = "mysql" THEN All ELSE All \ MysqlOnly
  BY Zenon DEF Made
<1> HIDE DEF All
<1>4. \A o \in TenantColumns : Baseline(a)[o] = "not_null"
  BY <1>1, <1>2, <1>3, Zenon DEF Baseline
<1>5. \A o \in Made(a) : Baseline(a)[o] = "v2"
  BY <1>1, <1>2, <1>3, Zenon DEF Baseline
<1>6. \A o \in All \ Made(a) : Baseline(a)[o] = "none"
  BY <1>1, <1>2, <1>3, Zenon DEF Baseline
<1>7. Baseline(a)["rest"] = "v1"
  BY <1>1, <1>2, <1>3, Zenon DEF Baseline
<1>8. Baseline(a)["source_event_id"] = "none"
  BY <1>1, <1>2, <1>3, Zenon DEF Baseline
<1> QED BY <1>2, <1>3, <1>4, <1>5, <1>6, <1>7, <1>8, Zenon DEF All

\* A connection that runs no activation has a run, which has seen no tenant index.
LEMMA NoRunType == NoRun \in Run /\ NoRun.pc = 0 /\ NoRun.seen["tenant_source_event_id"] = "none"
<1>1. Version1("mysql") \in [Objects -> Definitions]
  BY Version1Type, Zenon
<1>2. Version1("mysql")["tenant_source_event_id"] = "none"
  BY Zenon DEF Version1, Objects, Added, Rebuilt, TenantColumns, Checks
<1> QED BY <1>1, <1>2 DEF NoRun, Run

\* The definitions that demand nothing of the rows.
LEMMA AdmitsEasily ==
  ASSUME NEW o, NEW d, NEW rs,
         \/ d \in {"none", "nullable", "empty"}
         \/ o \in {"event_fk_index", "schema_marker", "rest"}
  PROVE  Admits(o, d, rs)
BY Zenon DEF Admits

\* A version 1 database without rows satisfies the invariant.
LEMMA InitUpgrade == UpgradeInit => UpgradeInv
<1> SUFFICES ASSUME UpgradeInit PROVE UpgradeInv
  BY Zenon
<1>1. UpgradeTypeOK
  BY Version1Type, NoRunType DEF UpgradeInit, UpgradeTypeOK, TenantRow
<1>2. AdmitsAll(catalog, rows)
  <2>1. DOMAIN rows = {}
    BY DEF UpgradeInit
  <2> QED BY <2>1, Zenon DEF AdmitsAll, Admits
<1>3. Covered /\ OnlyMysql
  BY NoRunType, Zenon DEF UpgradeInit, Covered, OnlyMysql, MysqlOnly, Version1, Objects, Added,
     Rebuilt, TenantColumns, Checks
<1>4. RunsCovered
  BY NoRunType DEF UpgradeInit, RunsCovered
<1> QED BY <1>1, <1>2, <1>3, <1>4, Zenon DEF UpgradeInv

\* A commit of rows under the catalog as it is.
LEMMA CommitUpgrade ==
  ASSUME UpgradeInv, NEW rs \in Seq(TenantRow), CommitRows(rs), UNCHANGED <<adapter, catalog>>,
         Disturb \/ UNCHANGED run
  PROVE  UpgradeInv'
<1>1. /\ run' \in [Runs -> Run]
      /\ \A s \in Runs : run'[s].pc = run[s].pc /\ run'[s].seen = run[s].seen
  BY Zenon DEF UpgradeInv, UpgradeTypeOK, Disturb, Run
<1>2. UpgradeTypeOK'
  BY <1>1, Zenon DEF UpgradeInv, UpgradeTypeOK, CommitRows
<1>3. AdmitsAll(catalog, rows)'
  BY Zenon DEF CommitRows
<1>4. Covered' /\ RunsCovered' /\ OnlyMysql'
  BY <1>1, Zenon DEF UpgradeInv, Covered, RunsCovered, OnlyMysql
<1> QED BY <1>2, <1>3, <1>4, Zenon DEF UpgradeInv

\* An enqueue of either version commits its row under every constraint there is.
LEMMA EnqueueUpgrade ==
  ASSUME UpgradeInv, NEW id \in Identities, V1Enqueue(id) \/ \E t \in TenantIds : V2Enqueue(id, t)
  PROVE  UpgradeInv'
<1>1. CASE V1Enqueue(id)
  <2> DEFINE new == [id |-> id, event |-> NULL, delivery |-> NULL]
  <2>1. new \in TenantRow
    BY Zenon DEF TenantRow
  <2>2. Append(rows, new) \in Seq(TenantRow)
    BY <2>1 DEF UpgradeInv, UpgradeTypeOK
  <2> QED BY <1>1, <2>2, CommitUpgrade, Zenon DEF V1Enqueue
<1>2. CASE \E t \in TenantIds : V2Enqueue(id, t)
  <2> PICK t \in TenantIds : V2Enqueue(id, t)
    BY <1>2, Zenon
  <2> DEFINE new == [id |-> id, event |-> t, delivery |-> t]
  <2>1. new \in TenantRow
    BY Zenon DEF TenantRow
  <2>2. Append(rows, new) \in Seq(TenantRow)
    BY <2>1 DEF UpgradeInv, UpgradeTypeOK
  <2> QED BY <2>2, CommitUpgrade, Zenon DEF V2Enqueue
<1> QED BY <1>1, <1>2, Zenon

\* The operator's backfill of a row does too.
LEMMA AssignUpgrade ==
  ASSUME UpgradeInv, NEW i, NEW e \in TenantIds \cup {""}, NEW d \in TenantIds \cup {NULL, ""},
         Assign(i, e, d)
  PROVE  UpgradeInv'
<1> DEFINE rs == [rows EXCEPT ![i] = [id |-> rows[i].id, event |-> e, delivery |-> d]]
<1>0. rows \in Seq(TenantRow) /\ i \in DOMAIN rows
  BY Zenon DEF UpgradeInv, UpgradeTypeOK, Assign
<1>1. i \in 1..Len(rows) /\ rows \in Seq(TenantRow) /\ rows[i] \in TenantRow
  BY <1>0, LenProperties, Zenon
<1>3. [id |-> rows[i].id, event |-> e, delivery |-> d] \in TenantRow
  BY <1>1, Zenon DEF TenantRow
<1>4. rs \in Seq(TenantRow)
  <2> HIDE DEF rs
  <2> QED BY <1>1, <1>3, ExceptSeq, Zenon DEF rs
<1>5. CommitRows(rs) /\ Disturb /\ UNCHANGED <<adapter, catalog>>
  BY Zenon DEF Assign
<1> HIDE DEF rs
<1> QED BY <1>4, <1>5, CommitUpgrade, Zenon

\* A new nullable tenant column constrains no row.
LEMMA PrepareUpgrade ==
  ASSUME UpgradeInv, NEW c \in TenantColumns, Prepare(c)
  PROVE  UpgradeInv'
<1>1. UpgradeTypeOK'
  BY Zenon DEF UpgradeInv, UpgradeTypeOK, Prepare, Definitions, Objects
<1>2. \A o \in Objects : catalog'[o] = IF o = c THEN "nullable" ELSE catalog[o]
  BY Zenon DEF UpgradeInv, UpgradeTypeOK, Prepare
<1>3. AdmitsAll(catalog, rows)'
  BY <1>2, AdmitsEasily, Zenon DEF UpgradeInv, AdmitsAll, Prepare
<1>4. Covered' /\ RunsCovered' /\ OnlyMysql'
  BY <1>2, Zenon DEF UpgradeInv, Covered, RunsCovered, OnlyMysql, Prepare, TenantColumns, MysqlOnly,
     Objects, Added
<1> QED BY <1>1, <1>3, <1>4, Zenon DEF UpgradeInv

\* The activations of PostgreSQL and SQLite end with the tenant index.
LEMMA ActivateUpgrade ==
  ASSUME UpgradeInv, PgActivate \/ SqliteActivate
  PROVE  UpgradeInv'
<1>0. adapter # "mysql" /\ catalog' = Baseline(adapter) /\ AdmitsAll(Baseline(adapter), rows)
  BY Zenon DEF PgActivate, SqliteActivate
<1>1. UNCHANGED <<adapter, rows, run>>
  BY Zenon DEF PgActivate, SqliteActivate
<1>2. UpgradeTypeOK'
  BY <1>0, <1>1, BaselineType, Zenon DEF UpgradeInv, UpgradeTypeOK
<1>3. /\ Baseline(adapter)["tenant_source_event_id"] = "v2"
      /\ \A o \in MysqlOnly : Baseline(adapter)[o] = "none"
  <2>1. "tenant_source_event_id" \in Added \ MysqlOnly
    BY Zenon DEF Added, MysqlOnly
  <2> QED BY <1>0, <2>1, BaselineIs
<1>4. Covered' /\ RunsCovered' /\ OnlyMysql'
  BY <1>0, <1>1, <1>3, Zenon DEF UpgradeInv, Covered, RunsCovered, OnlyMysql
<1> QED BY <1>0, <1>1, <1>2, <1>4, Zenon DEF UpgradeInv

\* A preflight sees the tenant index only when it is there.
LEMMA BeginUpgrade ==
  ASSUME UpgradeInv, NEW s \in Runs, Begin(s)
  PROVE  UpgradeInv'
<1> DEFINE new == [pc |-> 1, seen |-> catalog, undisturbed |-> TRUE]
<1>1. new \in Run
  BY DEF UpgradeInv, UpgradeTypeOK, Run
<1>2. run' \in [Runs -> Run] /\ \A r \in Runs : run'[r] = IF r = s THEN new ELSE run[r]
  BY <1>1, Zenon DEF UpgradeInv, UpgradeTypeOK, Begin
<1>3. UpgradeTypeOK'
  BY <1>2, Zenon DEF UpgradeInv, UpgradeTypeOK, Begin
<1>4. RunsCovered'
  BY <1>2 DEF UpgradeInv, RunsCovered, Begin
<1>5. AdmitsAll(catalog, rows)' /\ Covered' /\ OnlyMysql'
  BY Zenon DEF UpgradeInv, AdmitsAll, Covered, OnlyMysql, Begin
<1> QED BY <1>3, <1>4, <1>5, Zenon DEF UpgradeInv

\* A run that is cut off leaves the catalog as it is.
LEMMA CrashUpgrade ==
  ASSUME UpgradeInv, NEW s \in Runs, Crash(s)
  PROVE  UpgradeInv'
<1>2. run' \in [Runs -> Run] /\ \A r \in Runs : run'[r] = IF r = s THEN NoRun ELSE run[r]
  BY NoRunType, Zenon DEF UpgradeInv, UpgradeTypeOK, Crash
<1>3. UpgradeTypeOK'
  BY <1>2, Zenon DEF UpgradeInv, UpgradeTypeOK, Crash
<1>4. RunsCovered' /\ OnlyMysql'
  BY <1>2, NoRunType DEF UpgradeInv, RunsCovered, OnlyMysql, Crash
<1>5. AdmitsAll(catalog, rows)' /\ Covered'
  BY Zenon DEF UpgradeInv, AdmitsAll, Covered, Crash
<1> QED BY <1>3, <1>4, <1>5, Zenon DEF UpgradeInv

\* Where a run stands after a statement.
LEMMA AfterIs ==
  ASSUME UpgradeTypeOK, NEW s \in Runs, run[s].pc \in 1..18
  PROVE  /\ After(s) \in Run
         /\ run[s].pc = 18 => After(s) = NoRun
         /\ run[s].pc # 18 => /\ After(s).pc = run[s].pc + 1
                              /\ After(s).seen = run[s].seen
                              /\ After(s).undisturbed = run[s].undisturbed
<1>1. run[s] \in Run
  BY Zenon DEF UpgradeTypeOK
<1>2. CASE run[s].pc = 18
  BY <1>2, StatementsAre, NoRunType, Zenon DEF After
<1>3. CASE run[s].pc # 18
  <2>1. After(s) = [run[s] EXCEPT !.pc = run[s].pc + 1]
    BY <1>3, StatementsAre, Zenon DEF After
  <2>2. run[s].pc + 1 \in 0..18
    BY <1>3
  <2> QED BY <1>1, <1>3, <2>1, <2>2, Zenon DEF Run
<1> QED BY <1>2, <1>3, Zenon

\* What a statement changes in the catalog.
LEMMA AlteredIs ==
  ASSUME UpgradeTypeOK, NEW o \in Objects \ {"event_fk_index"}, NEW d \in Definitions
  PROVE  /\ Altered(o, d) \in [Objects -> Definitions]
         /\ Altered(o, d)[o] = d
         /\ Altered(o, d)["event_fk_index"] =
               IF o = "event_fk" /\ d = "v2" THEN "v2" ELSE catalog["event_fk_index"]
         /\ \A q \in Objects \ {o, "event_fk_index"} : Altered(o, d)[q] = catalog[q]
<1>1. o \in Objects /\ o # "event_fk_index" /\ d \in Definitions
  BY Zenon
<1>2. "event_fk_index" \in Objects /\ "v2" \in Definitions
  BY Zenon DEF Objects, Added, Definitions
<1> DEFINE i == IF o = "event_fk" /\ d = "v2" THEN "v2" ELSE catalog["event_fk_index"]
           mid == [catalog EXCEPT ![o] = d]
<1>3. i \in Definitions
  BY <1>2, Zenon DEF UpgradeTypeOK
<1>4. /\ mid \in [Objects -> Definitions] /\ mid[o] = d
      /\ \A q \in Objects \ {o} : mid[q] = catalog[q]
  BY <1>1, Zenon DEF UpgradeTypeOK
<1>5. Altered(o, d) = [mid EXCEPT !["event_fk_index"] = i]
  <2>1. mid["event_fk_index"] = catalog["event_fk_index"]
    BY <1>1, <1>2, <1>4, Zenon
  <2> QED BY <2>1, Zenon DEF Altered
<1> HIDE DEF mid, i
<1>6. /\ Altered(o, d) \in [Objects -> Definitions] /\ Altered(o, d)["event_fk_index"] = i
      /\ \A q \in Objects \ {"event_fk_index"} : Altered(o, d)[q] = mid[q]
  BY <1>2, <1>3, <1>4, <1>5, Zenon
<1> QED BY <1>1, <1>4, <1>6, Zenon DEF i

\* A statement commits a definition the rows satisfy, and the version 1 index goes only
\* after the tenant index has come.
LEMMA StepUpgrade ==
  ASSUME UpgradeInv, NEW s \in Runs, Step(s)
  PROVE  UpgradeInv'
<1> DEFINE p == run[s].pc
           o == Statements[p][1]
           d == Statements[p][2]
           new == run'[s]
<1>1. p \in 1..18 /\ UNCHANGED <<adapter, rows, crashes>>
  BY StatementsAre, Zenon DEF Step
<1>2. /\ o \in Objects \ {"event_fk_index", "rest"} /\ d \in Definitions
      /\ o = "source_event_id" <=> p = 10
      /\ o = "tenant_source_event_id" <=> p = 9
      /\ p = 9 => d = "v2"
  BY <1>1, StatementFacts, Zenon
<1>3. \/ /\ Skips(s, o, d)
         /\ run' = [run EXCEPT ![s] = After(s)] /\ UNCHANGED catalog
      \/ /\ ~ Skips(s, o, d) /\ Refuses(o, d)
         /\ run' = [run EXCEPT ![s] = NoRun] /\ UNCHANGED catalog
      \/ /\ ~ Skips(s, o, d) /\ ~ Refuses(o, d)
         /\ run' = [run EXCEPT ![s] = After(s)] /\ catalog' = Altered(o, d)
  BY Zenon DEF Step
<1>4. UpgradeTypeOK /\ run \in [Runs -> Run]
  BY Zenon DEF UpgradeInv, UpgradeTypeOK
<1> HIDE DEF o, d
<1>5. /\ run' \in [Runs -> Run] /\ \A r \in Runs \ {s} : run'[r] = run[r]
      /\ new = NoRun \/ (run'[s] = After(s) /\ p # 18)
  <2>1. After(s) \in Run /\ (p = 18 => After(s) = NoRun)
    BY <1>1, <1>4, AfterIs, Zenon
  <2> HIDE DEF p
  <2> QED BY <1>3, <1>4, <2>1, NoRunType, Zenon
<1>6. /\ catalog' \in [Objects -> Definitions]
      /\ \A q \in Objects \ {o, "event_fk_index"} : catalog'[q] = catalog[q]
      /\ catalog' = catalog \/ (catalog'[o] = d /\ ~ Refuses(o, d))
  <2>1. /\ Altered(o, d) \in [Objects -> Definitions] /\ Altered(o, d)[o] = d
        /\ \A q \in Objects \ {o, "event_fk_index"} : Altered(o, d)[q] = catalog[q]
    BY <1>2, <1>4, AlteredIs
  <2>2. catalog \in [Objects -> Definitions]
    BY <1>4, Zenon DEF UpgradeTypeOK
  <2> QED BY <1>3, <2>1, <2>2, Zenon
<1>7. UpgradeTypeOK'
  BY <1>1, <1>4, <1>5, <1>6, Zenon DEF UpgradeTypeOK
<1>8. AdmitsAll(catalog, rows)'
  <2>1. \A q \in Objects : Admits(q, catalog[q], rows)
    BY Zenon DEF UpgradeInv, AdmitsAll
  <2>2. \A q \in Objects : Admits(q, catalog'[q], rows)
    BY <1>6, <2>1, AdmitsEasily, Zenon DEF Refuses
  <2> QED BY <1>1, <2>2, Zenon DEF AdmitsAll
<1>9. adapter = "mysql"
  BY <1>1 DEF UpgradeInv, OnlyMysql
<1>10. OnlyMysql'
  BY <1>1, <1>9, Zenon DEF OnlyMysql
<1>11. "source_event_id" \in Objects /\ "tenant_source_event_id" \in Objects
  BY Zenon DEF Objects, Added
<1>12. catalog["tenant_source_event_id"] = "v2" => catalog'["tenant_source_event_id"] = "v2"
  BY <1>2, <1>6, <1>11, Zenon
<1>13. RunsCovered'
  <2>1. \A r \in Runs \ {s} : run'[r].pc > 9 \/ run'[r].seen["tenant_source_event_id"] = "v2"
                                => catalog'["tenant_source_event_id"] = "v2"
    BY <1>5, <1>12, Zenon DEF UpgradeInv, RunsCovered
  <2>2. CASE new = NoRun
    BY <2>1, <2>2, NoRunType DEF RunsCovered
  <2>3. CASE new = After(s) /\ p # 18
    <3>1. new.pc = p + 1 /\ new.seen = run[s].seen
      BY <1>1, <1>4, <2>3, AfterIs, Zenon
    <3>2. p > 9 \/ run[s].seen["tenant_source_event_id"] = "v2" => catalog'["tenant_source_event_id"] = "v2"
      BY <1>12, Zenon DEF UpgradeInv, RunsCovered
    <3>3. p = 9 => catalog'["tenant_source_event_id"] = "v2"
      <4> SUFFICES ASSUME p = 9 PROVE catalog'["tenant_source_event_id"] = "v2"
        BY Zenon
      <4>1. o = "tenant_source_event_id" /\ d = "v2"
        BY <1>2, Zenon
      <4>2. Skips(s, o, d) <=> run[s].seen["tenant_source_event_id"] = "v2"
        BY <4>1, Zenon DEF Skips, Rebuilt, AskedAgain, TenantColumns
      <4>3. CASE Skips(s, o, d)
        BY <3>2, <4>2, <4>3, Zenon
      <4>4. CASE run' = [run EXCEPT ![s] = NoRun]
        BY <1>1, <1>4, <2>3, <3>1, <4>4, NoRunType
      <4>5. CASE catalog' = Altered(o, d)
        BY <1>2, <1>4, <4>1, <4>5, AlteredIs, Zenon
      <4> QED BY <1>3, <4>3, <4>4, <4>5, Zenon
    <3>4. new.pc > 9 => p = 9 \/ p > 9
      BY <1>1, <3>1
    <3> QED BY <2>1, <3>1, <3>2, <3>3, <3>4, Zenon DEF RunsCovered
  <2> QED BY <1>5, <2>2, <2>3, Zenon
<1>14. Covered'
  <2>1. CASE p = 10
    BY <1>12, <2>1 DEF UpgradeInv, RunsCovered, Covered
  <2>2. CASE p # 10
    BY <1>2, <1>6, <1>11, <1>12, <2>2, Zenon DEF UpgradeInv, Covered
  <2> QED BY <2>1, <2>2, Zenon
<1> QED BY <1>7, <1>8, <1>10, <1>13, <1>14, Zenon DEF UpgradeInv

\* Every step keeps the invariant.
LEMMA NextUpgrade == UpgradeInv /\ [UpgradeNext]_upgradevars => UpgradeInv'
<1> SUFFICES ASSUME UpgradeInv, [UpgradeNext]_upgradevars PROVE UpgradeInv'
  BY Zenon
<1>1. CASE \E id \in Identities : V1Enqueue(id)
  BY <1>1, EnqueueUpgrade, Zenon
<1>2. CASE \E id \in Identities, t \in TenantIds : V2Enqueue(id, t)
  BY <1>2, EnqueueUpgrade, Zenon
<1>3. CASE \E c \in TenantColumns : Prepare(c)
  BY <1>3, PrepareUpgrade, Zenon
<1>4. CASE Backfill \/ BackfillWrong
  BY <1>4, AssignUpgrade, Zenon DEF Backfill, BackfillWrong
<1>5. CASE PgActivate \/ SqliteActivate
  BY <1>5, ActivateUpgrade, Zenon
<1>6. CASE \E s \in Runs : Begin(s) \/ Step(s) \/ Crash(s)
  BY <1>6, BeginUpgrade, StepUpgrade, CrashUpgrade, Zenon
<1>7. CASE UNCHANGED upgradevars
  BY <1>7, Zenon DEF upgradevars, UpgradeInv, UpgradeTypeOK, Covered, RunsCovered, OnlyMysql, AdmitsAll
<1> QED BY <1>1, <1>2, <1>3, <1>4, <1>5, <1>6, <1>7 DEF UpgradeNext, Rejected, Done

\* It holds in every reachable state, for any number of runs.
LEMMA UpgradeKept == UpgradeSpec => []UpgradeInv
BY InitUpgrade, NextUpgrade, PTL DEF UpgradeSpec

\* IdentityHeld, for every set of adapters, tenants and identities and any number of
\* overlapping runs of the MySQL activation: one of the two unique indexes is always
\* there.
THEOREM IdentityAlwaysHeld == UpgradeSpec => []IdentityHeld
<1>1. UpgradeInv => IdentityHeld
  <2> SUFFICES ASSUME UpgradeInv, NEW i \in DOMAIN rows, NEW j \in DOMAIN rows,
                      rows[i].id = rows[j].id, rows[i].event = rows[j].event
               PROVE  i = j
    BY Zenon DEF IdentityHeld
  <2>1. CASE catalog["source_event_id"] = "v1"
    <3>1. Admits("source_event_id", "v1", rows)
      BY <2>1, Zenon DEF UpgradeInv, AdmitsAll, Objects
    <3> QED BY <3>1, Zenon DEF Admits
  <2>2. CASE catalog["tenant_source_event_id"] = "v2"
    <3>1. Admits("tenant_source_event_id", "v2", rows)
      BY <2>2, Zenon DEF UpgradeInv, AdmitsAll, Objects, Added
    <3> QED BY <3>1, Zenon DEF Admits, UniqueTenantIdentity
  <2> QED BY <2>1, <2>2, Zenon DEF UpgradeInv, Covered
<1> QED BY <1>1, UpgradeKept, PTL

-------------------------------------------------------------------------------
\* One run of the activation at a time: the catalog is always the one after the first
\* k statements.

\* The names of the objects, for a catalog given object by object.
LEMMA ObjectsAre ==
  Objects = {"events_tenant_id", "deliveries_tenant_id", "event_fk", "claimable", "expired_claims",
             "events_tenant_size", "events_tenant_nonempty", "deliveries_tenant_size",
             "deliveries_tenant_nonempty", "tenant_row", "identity_key", "tenant_source_event_id",
             "event_fk_index", "source_event_id", "schema_marker", "rest"}
BY Zenon DEF Objects, TenantColumns, Rebuilt, Added, Checks

\* Run s stands at statement p, and the catalog has k statements behind it.  The
\* statement is the next one, which finds its object as the one before left it, or it
\* finds its work done.
StandsAt(s, p, k) ==
  LET o == Statements[p][1]
      d == Statements[p][2]
  IN  /\ k = p - 1 => /\ ~ Skips(s, o, d)
                      /\ d = "v2" /\ o # "schema_marker" => catalog[o] = "none"
                      /\ Staged(Altered(o, d), p)
                      /\ d = "none" => catalog[o] = "v1"
                      /\ d = "empty" => catalog[o] = "none"
      /\ k # p - 1 => Skips(s, o, d)

\* A run that stands at statement p meets the catalog as StandsAt says.
LEMMA StagedStep ==
  ASSUME UpgradeTypeOK, NEW s \in Runs, NEW p \in 1..18, run[s].pc = p,
         NEW k \in 0..18, Staged(catalog, k), RunAt(s, k)
  PROVE  k >= p - 1 /\ StandsAt(s, p, k)
<1> PICK j \in 0..18 :
      /\ Staged(run[s].seen, j) /\ j <= k /\ p <= k + 1
      /\ k = j \/ k = p - 1
  BY Zenon DEF RunAt
<1>0. k # p - 1 => k = j /\ k >= p
  OBVIOUS
<1>a. Prepared
  BY Zenon DEF RunAt
<1>1. CASE p = 1
  <2>1. Statements[p][1] = "events_tenant_id" /\ Statements[p][2] = "not_null"
    BY <1>1, StatementsAre
  <2>2. Skips(s, "events_tenant_id", "not_null") <=> (catalog["events_tenant_id"] = "not_null")
    BY Zenon DEF Skips, Rebuilt, AskedAgain, TenantColumns
  <2>3. /\ k # p - 1 => catalog["events_tenant_id"] = "not_null"
        /\ k = p - 1 => ~ (catalog["events_tenant_id"] = "not_null")
    BY <1>0, <1>1, SMTT(20) DEF Staged, Set, TenantColumns
  <2>4. /\ Altered("events_tenant_id", "not_null")["events_tenant_id"] = "not_null"
        /\ Altered("events_tenant_id", "not_null")["event_fk_index"] = catalog["event_fk_index"]
        /\ \A q \in Objects \ {"events_tenant_id", "event_fk_index"} :
              Altered("events_tenant_id", "not_null")[q] = catalog[q]
    BY AlteredIs, ObjectsAre, SMTT(20) DEF Definitions
  <2>5. k = p - 1 => Staged(Altered("events_tenant_id", "not_null"), p)
    BY <1>1, <1>a, <2>4, ObjectsAre, SMTT(20) DEF Staged, Set, TenantColumns, Prepared
  <2> QED BY <2>1, <2>2, <2>3, <2>5 DEF StandsAt
<1>2. CASE p = 2
  <2>1. Statements[p][1] = "deliveries_tenant_id" /\ Statements[p][2] = "not_null"
    BY <1>2, StatementsAre
  <2>2. Skips(s, "deliveries_tenant_id", "not_null") <=> (catalog["deliveries_tenant_id"] = "not_null")
    BY Zenon DEF Skips, Rebuilt, AskedAgain, TenantColumns
  <2>3. /\ k # p - 1 => catalog["deliveries_tenant_id"] = "not_null"
        /\ k = p - 1 => ~ (catalog["deliveries_tenant_id"] = "not_null")
    BY <1>0, <1>2 DEF Staged, Set, TenantColumns
  <2>4. /\ Altered("deliveries_tenant_id", "not_null")["deliveries_tenant_id"] = "not_null"
        /\ Altered("deliveries_tenant_id", "not_null")["event_fk_index"] = catalog["event_fk_index"]
        /\ \A q \in Objects \ {"deliveries_tenant_id", "event_fk_index"} :
              Altered("deliveries_tenant_id", "not_null")[q] = catalog[q]
    BY AlteredIs, ObjectsAre, SMTT(20) DEF Definitions
  <2>5. k = p - 1 => Staged(Altered("deliveries_tenant_id", "not_null"), p)
    BY <1>2, <1>a, <2>4, ObjectsAre, SMTT(20) DEF Staged, Set, TenantColumns, Prepared
  <2> QED BY <2>1, <2>2, <2>3, <2>5 DEF StandsAt
<1>3. CASE p = 3
  <2>1. Statements[p][1] = "events_tenant_size" /\ Statements[p][2] = "v2"
    BY <1>3, StatementsAre
  <2>2. Skips(s, "events_tenant_size", "v2") <=> (run[s].seen["events_tenant_size"] = "v2")
    BY Zenon DEF Skips, Rebuilt, AskedAgain, TenantColumns
  <2>3. /\ k # p - 1 => run[s].seen["events_tenant_size"] = "v2"
        /\ k = p - 1 => ~ (run[s].seen["events_tenant_size"] = "v2")
        /\ k = p - 1 => catalog["events_tenant_size"] = "none"
    BY <1>0, <1>3 DEF Staged, Set
  <2>4. /\ Altered("events_tenant_size", "v2")["events_tenant_size"] = "v2"
        /\ Altered("events_tenant_size", "v2")["event_fk_index"] = catalog["event_fk_index"]
        /\ \A q \in Objects \ {"events_tenant_size", "event_fk_index"} :
              Altered("events_tenant_size", "v2")[q] = catalog[q]
    BY AlteredIs, ObjectsAre, SMTT(20) DEF Definitions
  <2>5. k = p - 1 => Staged(Altered("events_tenant_size", "v2"), p)
    BY <1>3, <1>a, <2>4, ObjectsAre DEF Staged, Set
  <2> QED BY <2>1, <2>2, <2>3, <2>5 DEF StandsAt
<1>4. CASE p = 4
  <2>1. Statements[p][1] = "events_tenant_nonempty" /\ Statements[p][2] = "v2"
    BY <1>4, StatementsAre
  <2>2. Skips(s, "events_tenant_nonempty", "v2") <=> (run[s].seen["events_tenant_nonempty"] = "v2")
    BY Zenon DEF Skips, Rebuilt, AskedAgain, TenantColumns
  <2>3. /\ k # p - 1 => run[s].seen["events_tenant_nonempty"] = "v2"
        /\ k = p - 1 => ~ (run[s].seen["events_tenant_nonempty"] = "v2")
        /\ k = p - 1 => catalog["events_tenant_nonempty"] = "none"
    BY <1>0, <1>4 DEF Staged, Set
  <2>4. /\ Altered("events_tenant_nonempty", "v2")["events_tenant_nonempty"] = "v2"
        /\ Altered("events_tenant_nonempty", "v2")["event_fk_index"] = catalog["event_fk_index"]
        /\ \A q \in Objects \ {"events_tenant_nonempty", "event_fk_index"} :
              Altered("events_tenant_nonempty", "v2")[q] = catalog[q]
    BY AlteredIs, ObjectsAre, SMTT(20) DEF Definitions
  <2>5. k = p - 1 => Staged(Altered("events_tenant_nonempty", "v2"), p)
    BY <1>4, <1>a, <2>4, ObjectsAre, SMTT(20) DEF Staged, Set
  <2> QED BY <2>1, <2>2, <2>3, <2>5 DEF StandsAt
<1>5. CASE p = 5
  <2>1. Statements[p][1] = "deliveries_tenant_size" /\ Statements[p][2] = "v2"
    BY <1>5, StatementsAre
  <2>2. Skips(s, "deliveries_tenant_size", "v2") <=> (run[s].seen["deliveries_tenant_size"] = "v2")
    BY Zenon DEF Skips, Rebuilt, AskedAgain, TenantColumns
  <2>3. /\ k # p - 1 => run[s].seen["deliveries_tenant_size"] = "v2"
        /\ k = p - 1 => ~ (run[s].seen["deliveries_tenant_size"] = "v2")
        /\ k = p - 1 => catalog["deliveries_tenant_size"] = "none"
    BY <1>0, <1>5 DEF Staged, Set
  <2>4. /\ Altered("deliveries_tenant_size", "v2")["deliveries_tenant_size"] = "v2"
        /\ Altered("deliveries_tenant_size", "v2")["event_fk_index"] = catalog["event_fk_index"]
        /\ \A q \in Objects \ {"deliveries_tenant_size", "event_fk_index"} :
              Altered("deliveries_tenant_size", "v2")[q] = catalog[q]
    BY AlteredIs, ObjectsAre, SMTT(20) DEF Definitions
  <2>5. k = p - 1 => Staged(Altered("deliveries_tenant_size", "v2"), p)
    BY <1>5, <1>a, <2>4, ObjectsAre, SMTT(20) DEF Staged, Set
  <2> QED BY <2>1, <2>2, <2>3, <2>5 DEF StandsAt
<1>6. CASE p = 6
  <2>1. Statements[p][1] = "deliveries_tenant_nonempty" /\ Statements[p][2] = "v2"
    BY <1>6, StatementsAre
  <2>2. Skips(s, "deliveries_tenant_nonempty", "v2") <=> (run[s].seen["deliveries_tenant_nonempty"] = "v2")
    BY Zenon DEF Skips, Rebuilt, AskedAgain, TenantColumns
  <2>3. /\ k # p - 1 => run[s].seen["deliveries_tenant_nonempty"] = "v2"
        /\ k = p - 1 => ~ (run[s].seen["deliveries_tenant_nonempty"] = "v2")
        /\ k = p - 1 => catalog["deliveries_tenant_nonempty"] = "none"
    BY <1>0, <1>6 DEF Staged, Set
  <2>4. /\ Altered("deliveries_tenant_nonempty", "v2")["deliveries_tenant_nonempty"] = "v2"
        /\ Altered("deliveries_tenant_nonempty", "v2")["event_fk_index"] = catalog["event_fk_index"]
        /\ \A q \in Objects \ {"deliveries_tenant_nonempty", "event_fk_index"} :
              Altered("deliveries_tenant_nonempty", "v2")[q] = catalog[q]
    BY AlteredIs, ObjectsAre, SMTT(20) DEF Definitions
  <2>5. k = p - 1 => Staged(Altered("deliveries_tenant_nonempty", "v2"), p)
    BY <1>6, <1>a, <2>4, ObjectsAre, SMTT(20) DEF Staged, Set
  <2> QED BY <2>1, <2>2, <2>3, <2>5 DEF StandsAt
<1>7. CASE p = 7
  <2>1. Statements[p][1] = "tenant_row" /\ Statements[p][2] = "v2"
    BY <1>7, StatementsAre
  <2>2. Skips(s, "tenant_row", "v2") <=> (run[s].seen["tenant_row"] = "v2")
    BY Zenon DEF Skips, Rebuilt, AskedAgain, TenantColumns
  <2>3. /\ k # p - 1 => run[s].seen["tenant_row"] = "v2"
        /\ k = p - 1 => ~ (run[s].seen["tenant_row"] = "v2")
        /\ k = p - 1 => catalog["tenant_row"] = "none"
    BY <1>0, <1>7, SMTT(20) DEF Staged, Set
  <2>4. /\ Altered("tenant_row", "v2")["tenant_row"] = "v2"
        /\ Altered("tenant_row", "v2")["event_fk_index"] = catalog["event_fk_index"]
        /\ \A q \in Objects \ {"tenant_row", "event_fk_index"} :
              Altered("tenant_row", "v2")[q] = catalog[q]
    BY AlteredIs, ObjectsAre, SMTT(20) DEF Definitions
  <2>5. k = p - 1 => Staged(Altered("tenant_row", "v2"), p)
    BY <1>7, <1>a, <2>4, ObjectsAre, SMTT(20) DEF Staged, Set
  <2> QED BY <2>1, <2>2, <2>3, <2>5 DEF StandsAt
<1>8. CASE p = 8
  <2>1. Statements[p][1] = "identity_key" /\ Statements[p][2] = "v2"
    BY <1>8, StatementsAre
  <2>2. Skips(s, "identity_key", "v2") <=> (run[s].seen["identity_key"] = "v2")
    BY Zenon DEF Skips, Rebuilt, AskedAgain, TenantColumns
  <2>3. /\ k # p - 1 => run[s].seen["identity_key"] = "v2"
        /\ k = p - 1 => ~ (run[s].seen["identity_key"] = "v2")
        /\ k = p - 1 => catalog["identity_key"] = "none"
    BY <1>0, <1>8 DEF Staged, Set
  <2>4. /\ Altered("identity_key", "v2")["identity_key"] = "v2"
        /\ Altered("identity_key", "v2")["event_fk_index"] = catalog["event_fk_index"]
        /\ \A q \in Objects \ {"identity_key", "event_fk_index"} :
              Altered("identity_key", "v2")[q] = catalog[q]
    BY AlteredIs, ObjectsAre, SMTT(20) DEF Definitions
  <2>5. k = p - 1 => Staged(Altered("identity_key", "v2"), p)
    BY <1>8, <1>a, <2>4, ObjectsAre, SMTT(20) DEF Staged, Set
  <2> QED BY <2>1, <2>2, <2>3, <2>5 DEF StandsAt
<1>9. CASE p = 9
  <2>1. Statements[p][1] = "tenant_source_event_id" /\ Statements[p][2] = "v2"
    BY <1>9, StatementsAre
  <2>2. Skips(s, "tenant_source_event_id", "v2") <=> (run[s].seen["tenant_source_event_id"] = "v2")
    BY Zenon DEF Skips, Rebuilt, AskedAgain, TenantColumns
  <2>3. /\ k # p - 1 => run[s].seen["tenant_source_event_id"] = "v2"
        /\ k = p - 1 => ~ (run[s].seen["tenant_source_event_id"] = "v2")
        /\ k = p - 1 => catalog["tenant_source_event_id"] = "none"
    BY <1>0, <1>9 DEF Staged, Set
  <2>4. /\ Altered("tenant_source_event_id", "v2")["tenant_source_event_id"] = "v2"
        /\ Altered("tenant_source_event_id", "v2")["event_fk_index"] = catalog["event_fk_index"]
        /\ \A q \in Objects \ {"tenant_source_event_id", "event_fk_index"} :
              Altered("tenant_source_event_id", "v2")[q] = catalog[q]
    BY AlteredIs, ObjectsAre, SMTT(20) DEF Definitions
  <2>5. k = p - 1 => Staged(Altered("tenant_source_event_id", "v2"), p)
    BY <1>9, <1>a, <2>4, ObjectsAre DEF Staged, Set
  <2> QED BY <2>1, <2>2, <2>3, <2>5 DEF StandsAt
<1>10. CASE p = 10
  <2>1. Statements[p][1] = "source_event_id" /\ Statements[p][2] = "none"
    BY <1>10, StatementsAre
  <2>2. Skips(s, "source_event_id", "none") <=> (catalog["source_event_id"] = "none")
    BY Zenon DEF Skips, Rebuilt, AskedAgain, TenantColumns
  <2>3. /\ k # p - 1 => catalog["source_event_id"] = "none"
        /\ k = p - 1 => ~ (catalog["source_event_id"] = "none")
        /\ k = p - 1 => catalog["source_event_id"] = "v1"
    BY <1>0, <1>10 DEF Staged, Set
  <2>4. /\ Altered("source_event_id", "none")["source_event_id"] = "none"
        /\ Altered("source_event_id", "none")["event_fk_index"] = catalog["event_fk_index"]
        /\ \A q \in Objects \ {"source_event_id", "event_fk_index"} :
              Altered("source_event_id", "none")[q] = catalog[q]
    BY AlteredIs, ObjectsAre, SMTT(20) DEF Definitions
  <2>5. k = p - 1 => Staged(Altered("source_event_id", "none"), p)
    BY <1>10, <1>a, <2>4, ObjectsAre, SMTT(20) DEF Staged, Set
  <2> QED BY <2>1, <2>2, <2>3, <2>5 DEF StandsAt
<1>11. CASE p = 11
  <2>1. Statements[p][1] = "event_fk" /\ Statements[p][2] = "none"
    BY <1>11, StatementsAre
  <2>2. Skips(s, "event_fk", "none") <=>
          (run[s].seen["event_fk"] = "v2" \/ catalog["event_fk"] = "none")
    BY Zenon DEF Skips, Rebuilt, AskedAgain, TenantColumns
  <2>3. /\ k # p - 1 => (run[s].seen["event_fk"] = "v2" \/ catalog["event_fk"] = "none")
        /\ k = p - 1 => ~ (run[s].seen["event_fk"] = "v2" \/ catalog["event_fk"] = "none")
        /\ k = p - 1 => catalog["event_fk"] = "v1"
    BY <1>0, <1>11 DEF Staged, Set
  <2>4. /\ Altered("event_fk", "none")["event_fk"] = "none"
        /\ Altered("event_fk", "none")["event_fk_index"] = catalog["event_fk_index"]
        /\ \A q \in Objects \ {"event_fk", "event_fk_index"} :
              Altered("event_fk", "none")[q] = catalog[q]
    BY AlteredIs, ObjectsAre, SMTT(20) DEF Definitions
  <2>5. k = p - 1 => Staged(Altered("event_fk", "none"), p)
    BY <1>11, <1>a, <2>4, ObjectsAre DEF Staged, Set
  <2> QED BY <2>1, <2>2, <2>3, <2>5 DEF StandsAt
<1>12. CASE p = 12
  <2>1. Statements[p][1] = "event_fk" /\ Statements[p][2] = "v2"
    BY <1>12, StatementsAre
  <2>2. Skips(s, "event_fk", "v2") <=> (run[s].seen["event_fk"] = "v2")
    BY Zenon DEF Skips, Rebuilt, AskedAgain, TenantColumns
  <2>3. /\ k # p - 1 => run[s].seen["event_fk"] = "v2"
        /\ k = p - 1 => ~ (run[s].seen["event_fk"] = "v2")
        /\ k = p - 1 => catalog["event_fk"] = "none"
    BY <1>0, <1>12 DEF Staged, Set
  <2>4. /\ Altered("event_fk", "v2")["event_fk"] = "v2"
        /\ Altered("event_fk", "v2")["event_fk_index"] = "v2"
        /\ \A q \in Objects \ {"event_fk", "event_fk_index"} :
              Altered("event_fk", "v2")[q] = catalog[q]
    BY AlteredIs, ObjectsAre, Zenon DEF Definitions
  <2>5. k = p - 1 => Staged(Altered("event_fk", "v2"), p)
    BY <1>12, <1>a, <2>4, ObjectsAre DEF Staged, Set
  <2> QED BY <2>1, <2>2, <2>3, <2>5 DEF StandsAt
<1>13. CASE p = 13
  <2>1. Statements[p][1] = "claimable" /\ Statements[p][2] = "none"
    BY <1>13, StatementsAre
  <2>2. Skips(s, "claimable", "none") <=>
          (run[s].seen["claimable"] = "v2" \/ catalog["claimable"] = "none")
    BY Zenon DEF Skips, Rebuilt, AskedAgain, TenantColumns
  <2>3. /\ k # p - 1 => (run[s].seen["claimable"] = "v2" \/ catalog["claimable"] = "none")
        /\ k = p - 1 => ~ (run[s].seen["claimable"] = "v2" \/ catalog["claimable"] = "none")
        /\ k = p - 1 => catalog["claimable"] = "v1"
    BY <1>0, <1>13 DEF Staged, Set
  <2>4. /\ Altered("claimable", "none")["claimable"] = "none"
        /\ Altered("claimable", "none")["event_fk_index"] = catalog["event_fk_index"]
        /\ \A q \in Objects \ {"claimable", "event_fk_index"} :
              Altered("claimable", "none")[q] = catalog[q]
    BY AlteredIs, ObjectsAre, SMTT(20) DEF Definitions
  <2>5. k = p - 1 => Staged(Altered("claimable", "none"), p)
    BY <1>13, <1>a, <2>4, ObjectsAre, SMTT(20) DEF Staged, Set
  <2> QED BY <2>1, <2>2, <2>3, <2>5 DEF StandsAt
<1>14. CASE p = 14
  <2>1. Statements[p][1] = "claimable" /\ Statements[p][2] = "v2"
    BY <1>14, StatementsAre
  <2>2. Skips(s, "claimable", "v2") <=> (run[s].seen["claimable"] = "v2")
    BY Zenon DEF Skips, Rebuilt, AskedAgain, TenantColumns
  <2>3. /\ k # p - 1 => run[s].seen["claimable"] = "v2"
        /\ k = p - 1 => ~ (run[s].seen["claimable"] = "v2")
        /\ k = p - 1 => catalog["claimable"] = "none"
    BY <1>0, <1>14 DEF Staged, Set
  <2>4. /\ Altered("claimable", "v2")["claimable"] = "v2"
        /\ Altered("claimable", "v2")["event_fk_index"] = catalog["event_fk_index"]
        /\ \A q \in Objects \ {"claimable", "event_fk_index"} :
              Altered("claimable", "v2")[q] = catalog[q]
    BY AlteredIs, ObjectsAre, SMTT(20) DEF Definitions
  <2>5. k = p - 1 => Staged(Altered("claimable", "v2"), p)
    BY <1>14, <1>a, <2>4, ObjectsAre DEF Staged, Set
  <2> QED BY <2>1, <2>2, <2>3, <2>5 DEF StandsAt
<1>15. CASE p = 15
  <2>1. Statements[p][1] = "expired_claims" /\ Statements[p][2] = "none"
    BY <1>15, StatementsAre
  <2>2. Skips(s, "expired_claims", "none") <=>
          (run[s].seen["expired_claims"] = "v2" \/ catalog["expired_claims"] = "none")
    BY Zenon DEF Skips, Rebuilt, AskedAgain, TenantColumns
  <2>3. /\ k # p - 1 => (run[s].seen["expired_claims"] = "v2" \/ catalog["expired_claims"] = "none")
        /\ k = p - 1 => ~ (run[s].seen["expired_claims"] = "v2" \/ catalog["expired_claims"] = "none")
        /\ k = p - 1 => catalog["expired_claims"] = "v1"
    BY <1>0, <1>15 DEF Staged, Set
  <2>4. /\ Altered("expired_claims", "none")["expired_claims"] = "none"
        /\ Altered("expired_claims", "none")["event_fk_index"] = catalog["event_fk_index"]
        /\ \A q \in Objects \ {"expired_claims", "event_fk_index"} :
              Altered("expired_claims", "none")[q] = catalog[q]
    BY AlteredIs, ObjectsAre, SMTT(20) DEF Definitions
  <2>5. k = p - 1 => Staged(Altered("expired_claims", "none"), p)
    BY <1>15, <1>a, <2>4, ObjectsAre, SMTT(20) DEF Staged, Set
  <2> QED BY <2>1, <2>2, <2>3, <2>5 DEF StandsAt
<1>16. CASE p = 16
  <2>1. Statements[p][1] = "expired_claims" /\ Statements[p][2] = "v2"
    BY <1>16, StatementsAre
  <2>2. Skips(s, "expired_claims", "v2") <=> (run[s].seen["expired_claims"] = "v2")
    BY Zenon DEF Skips, Rebuilt, AskedAgain, TenantColumns
  <2>3. /\ k # p - 1 => run[s].seen["expired_claims"] = "v2"
        /\ k = p - 1 => ~ (run[s].seen["expired_claims"] = "v2")
        /\ k = p - 1 => catalog["expired_claims"] = "none"
    BY <1>0, <1>16 DEF Staged, Set
  <2>4. /\ Altered("expired_claims", "v2")["expired_claims"] = "v2"
        /\ Altered("expired_claims", "v2")["event_fk_index"] = catalog["event_fk_index"]
        /\ \A q \in Objects \ {"expired_claims", "event_fk_index"} :
              Altered("expired_claims", "v2")[q] = catalog[q]
    BY AlteredIs, ObjectsAre, SMTT(20) DEF Definitions
  <2>5. k = p - 1 => Staged(Altered("expired_claims", "v2"), p)
    BY <1>16, <1>a, <2>4, ObjectsAre DEF Staged, Set
  <2> QED BY <2>1, <2>2, <2>3, <2>5 DEF StandsAt
<1>17. CASE p = 17
  <2>1. Statements[p][1] = "schema_marker" /\ Statements[p][2] = "empty"
    BY <1>17, StatementsAre
  <2>2. Skips(s, "schema_marker", "empty") <=> (catalog["schema_marker"] \in {"empty", "v2"})
    BY Zenon DEF Skips, Rebuilt, AskedAgain, TenantColumns
  <2>3. /\ k # p - 1 => catalog["schema_marker"] \in {"empty", "v2"}
        /\ k = p - 1 => ~ (catalog["schema_marker"] \in {"empty", "v2"})
        /\ k = p - 1 => catalog["schema_marker"] = "none"
    BY <1>0, <1>17 DEF Staged, Set
  <2>4. /\ Altered("schema_marker", "empty")["schema_marker"] = "empty"
        /\ Altered("schema_marker", "empty")["event_fk_index"] = catalog["event_fk_index"]
        /\ \A q \in Objects \ {"schema_marker", "event_fk_index"} :
              Altered("schema_marker", "empty")[q] = catalog[q]
    BY AlteredIs, ObjectsAre, SMTT(20) DEF Definitions
  <2>5. k = p - 1 => Staged(Altered("schema_marker", "empty"), p)
    BY <1>17, <1>a, <2>4, ObjectsAre, SMTT(20) DEF Staged, Set
  <2> QED BY <2>1, <2>2, <2>3, <2>5 DEF StandsAt
<1>18. CASE p = 18
  <2>1. Statements[p][1] = "schema_marker" /\ Statements[p][2] = "v2"
    BY <1>18, StatementsAre
  <2>2. Skips(s, "schema_marker", "v2") <=> (catalog["schema_marker"] \in {"v2", "v2"})
    BY Zenon DEF Skips, Rebuilt, AskedAgain, TenantColumns
  <2>3. /\ k # p - 1 => catalog["schema_marker"] \in {"v2", "v2"}
        /\ k = p - 1 => ~ (catalog["schema_marker"] \in {"v2", "v2"})
    BY <1>0, <1>18 DEF Staged, Set
  <2>4. /\ Altered("schema_marker", "v2")["schema_marker"] = "v2"
        /\ Altered("schema_marker", "v2")["event_fk_index"] = catalog["event_fk_index"]
        /\ \A q \in Objects \ {"schema_marker", "event_fk_index"} :
              Altered("schema_marker", "v2")[q] = catalog[q]
    BY AlteredIs, ObjectsAre, SMTT(20) DEF Definitions
  <2>5. k = p - 1 => Staged(Altered("schema_marker", "v2"), p)
    BY <1>18, <1>a, <2>4, ObjectsAre, SMTT(20) DEF Staged, Set
  <2> QED BY <2>1, <2>2, <2>3, <2>5 DEF StandsAt
<1> QED BY <1>1, <1>2, <1>3, <1>4, <1>5, <1>6, <1>7, <1>8, <1>9,
          <1>10, <1>11, <1>12, <1>13, <1>14, <1>15, <1>16, <1>17, <1>18, SMTT(20)

\* The version 1 catalog has no statement behind it.
LEMMA InitStaged == UpgradeInit => StagedInv
<1> SUFFICES ASSUME UpgradeInit PROVE StagedInv
  BY Zenon
<1>1. \A s \in Runs : run[s].pc = 0
  BY NoRunType, Zenon DEF UpgradeInit
<1>2. Staged(Version1("mysql"), 0)
  BY ObjectsAre DEF Staged, Set, Version1, Rebuilt, TenantColumns
<1>3. catalog["schema_marker"] # "v2"
  BY ObjectsAre, Zenon DEF UpgradeInit, Version1, Rebuilt
<1>4. adapter = "mysql" => Staged(catalog, 0)
  BY <1>2, Zenon DEF UpgradeInit
<1> QED BY <1>1, <1>3, <1>4 DEF StagedInv

\* An enqueue of version 2 and the operator's statements leave the catalog alone.
LEMMA RowsStaged ==
  ASSUME UpgradeInv, StagedInv, UNCHANGED <<adapter, catalog>>,
         \A s \in Runs : run'[s].pc = run[s].pc /\ run'[s].seen = run[s].seen,
         \A s \in Runs : run'[s].undisturbed => run[s].undisturbed /\ (Backfilled(rows) => Backfilled(rows'))
  PROVE  StagedInv'
<1>1. Prepared' = Prepared
  BY Zenon DEF Prepared
<1>2. \A s \in Runs, k \in 0..18 : RunAt(s, k) => RunAt(s, k)'
  BY <1>1, Zenon DEF RunAt
<1>3. \A s \in Runs : run'[s].pc # 0 /\ run'[s].undisturbed => Backfilled(rows')
  BY Zenon DEF StagedInv
<1>4. adapter # "mysql" /\ catalog["schema_marker"] = "v2" => catalog = Baseline(adapter)
  BY Zenon DEF StagedInv
<1>5. adapter = "mysql" => \E k \in 0..18 : /\ Staged(catalog, k)
                                             /\ \A s \in Runs : run'[s].pc # 0 => RunAt(s, k)'
  BY <1>2, Zenon DEF StagedInv
<1>6. (adapter = "mysql")' => (\E k \in 0..18 : /\ Staged(catalog, k)
                                                 /\ \A s \in Runs : run[s].pc # 0 => RunAt(s, k))'
  BY <1>5, Zenon
<1> QED BY <1>3, <1>4, <1>6, Zenon DEF StagedInv

\* A row a version 2 adapter writes has a valid tenant in both tables, and the index
\* that is there keeps its identity apart.
LEMMA AppendBackfilled ==
  ASSUME UpgradeInv, Backfilled(rows), NEW id \in Identities, NEW t \in TenantIds,
         CommitRows(Append(rows, [id |-> id, event |-> t, delivery |-> t]))
  PROVE  Backfilled(rows')
<1> DEFINE new == [id |-> id, event |-> t, delivery |-> t]
<1>1. rows \in Seq(TenantRow) /\ rows' = Append(rows, new) /\ AdmitsAll(catalog, rows')
  BY Zenon DEF UpgradeInv, UpgradeTypeOK, CommitRows
<1>2. /\ DOMAIN rows = 1..Len(rows) /\ DOMAIN rows' = 1..Len(rows) + 1 /\ Len(rows) \in Nat
      /\ \A i \in 1..Len(rows) : rows'[i] = rows[i]
      /\ rows'[Len(rows) + 1] = new
  <2>1. new \in TenantRow
    BY Zenon DEF TenantRow
  <2> HIDE DEF new
  <2> QED BY <1>1, <2>1, AppendProperties, LenProperties
<1>3. \A i \in DOMAIN rows' : rows'[i].event \in TenantIds /\ rows'[i].delivery = rows'[i].event
  <2>1. new.event \in TenantIds /\ new.delivery = new.event
    BY Zenon
  <2> HIDE DEF new
  <2>2. \A i \in 1..Len(rows) : rows[i].event \in TenantIds /\ rows[i].delivery = rows[i].event
    BY <1>2, Zenon DEF Backfilled
  <2>3. \A i \in DOMAIN rows' : i \in 1..Len(rows) \/ i = Len(rows) + 1
    BY <1>2
  <2> QED BY <1>2, <2>1, <2>2, <2>3, Zenon
<1>4. UniqueTenantIdentity(rows')
  <2>1. CASE catalog["source_event_id"] = "v1"
    <3>1. Admits("source_event_id", "v1", rows')
      BY <1>1, <2>1, Zenon DEF AdmitsAll, Objects
    <3> QED BY <3>1, Zenon DEF Admits, UniqueTenantIdentity
  <2>2. CASE catalog["tenant_source_event_id"] = "v2"
    <3>1. Admits("tenant_source_event_id", "v2", rows')
      BY <1>1, <2>2, Zenon DEF AdmitsAll, Objects, Added
    <3> QED BY <3>1, Zenon DEF Admits, UniqueTenantIdentity
  <2> QED BY <2>1, <2>2, Zenon DEF UpgradeInv, Covered
<1> QED BY <1>3, <1>4, Zenon DEF Backfilled

\* The prepare artifact works on the version 1 catalog only, and under no run.
LEMMA PrepareStaged ==
  ASSUME UpgradeInv, StagedInv, NEW c \in TenantColumns, Prepare(c)
  PROVE  StagedInv'
<1>1. /\ c \in Objects /\ catalog \in [Objects -> Definitions] /\ catalog[c] = "none"
      /\ c \in {"events_tenant_id", "deliveries_tenant_id"}
      /\ \A o \in Objects : catalog'[o] = IF o = c THEN "nullable" ELSE catalog[o]
  BY Zenon DEF UpgradeInv, UpgradeTypeOK, Prepare, Objects, TenantColumns
<1>2. ~ Prepared /\ UNCHANGED <<adapter, rows, run>>
  BY <1>1, Zenon DEF Prepared, Prepare
<1>3. CASE adapter = "mysql"
  <2>1. PICK k \in 0..18 : Staged(catalog, k) /\ \A s \in Runs : run[s].pc # 0 => RunAt(s, k)
    BY <1>3, Zenon DEF StagedInv
  <2>2. k = 0
    BY <1>1, <2>1 DEF Staged, Set
  <2>3. Staged(catalog', 0)
    BY <1>1, <2>1, <2>2, ObjectsAre DEF Staged, TenantColumns
  <2>4. \A s \in Runs : run'[s].pc = 0
    BY <1>2, <2>1, Zenon DEF RunAt
  <2> QED BY <1>2, <1>3, <2>3, <2>4 DEF StagedInv
<1>4. CASE adapter # "mysql"
  <2>1. \A s \in Runs : run'[s].pc = 0
    BY <1>2, <1>4, Zenon DEF UpgradeInv, OnlyMysql
  <2>2. catalog["schema_marker"] # "v2"
    BY <1>1, <1>4, BaselineIs, Zenon DEF StagedInv
  <2>3. catalog'["schema_marker"] # "v2"
    BY <1>1, <2>2, ObjectsAre, Zenon
  <2> QED BY <1>2, <1>4, <2>1, <2>3, Zenon DEF StagedInv
<1> QED BY <1>3, <1>4, Zenon

\* The activations of PostgreSQL and SQLite write the complete schema.
LEMMA ActivateStaged ==
  ASSUME UpgradeInv, PgActivate \/ SqliteActivate
  PROVE  StagedInv'
<1>1. /\ adapter # "mysql" /\ catalog' = Baseline(adapter) /\ UNCHANGED <<adapter, rows, run>>
      /\ \A s \in Runs : run[s].pc = 0
  BY Zenon DEF PgActivate, SqliteActivate, UpgradeInv, OnlyMysql
<1> QED BY <1>1, Zenon DEF StagedInv

\* A preflight sees the stage the catalog is at.
LEMMA BeginStaged ==
  ASSUME UpgradeInv, StagedInv, NEW s \in Runs, Begin(s)
  PROVE  StagedInv'
<1> DEFINE new == [pc |-> 1, seen |-> catalog, undisturbed |-> TRUE]
<1>1. /\ adapter = "mysql" /\ UNCHANGED <<adapter, catalog, rows>>
      /\ Backfilled(rows) /\ Prepared
  BY Zenon DEF Begin, Preflight, PreflightCatalog, Prepared
<1>2. run'[s] = new /\ \A r \in Runs \ {s} : run'[r] = run[r]
  BY Zenon DEF UpgradeInv, UpgradeTypeOK, Begin
<1>3. PICK k \in 0..18 : Staged(catalog, k) /\ \A r \in Runs : run[r].pc # 0 => RunAt(r, k)
  BY <1>1, Zenon DEF StagedInv
<1>4. \A r \in Runs \ {s} : run'[r].pc # 0 => RunAt(r, k)'
  <2>1. Prepared' = Prepared
    BY <1>1, Zenon DEF Prepared
  <2> QED BY <1>2, <1>3, <2>1, Zenon DEF RunAt
<1>5. RunAt(s, k)'
  <2>1. Prepared'
    BY <1>1, Zenon DEF Prepared
  <2>2. run'[s].pc = 1 /\ run'[s].seen = catalog
    BY <1>2
  <2>3. \A c \in TenantColumns : catalog[c] # "none"
    BY <1>1, Zenon DEF Prepared
  <2> QED BY <1>3, <2>1, <2>2, <2>3 DEF RunAt
<1>6. \A r \in Runs : run'[r].pc # 0 => RunAt(r, k)'
  BY <1>4, <1>5, Zenon
<1> QED BY <1>1, <1>3, <1>6, Zenon DEF StagedInv

\* A run that ends leaves the catalog to the next one.
LEMMA EndStaged ==
  ASSUME UpgradeInv, StagedInv, NEW s \in Runs, UNCHANGED <<adapter, catalog, rows>>,
         run' = [run EXCEPT ![s] = NoRun]
  PROVE  StagedInv'
<1>1. run'[s].pc = 0 /\ \A r \in Runs \ {s} : run'[r] = run[r]
  BY NoRunType, Zenon DEF UpgradeInv, UpgradeTypeOK
<1>2. Prepared' = Prepared
  BY Zenon DEF Prepared
<1>3. \A r \in Runs, k \in 0..18 : run'[r].pc # 0 /\ RunAt(r, k) => RunAt(r, k)'
  BY <1>1, <1>2 DEF RunAt
<1>4. \A r \in Runs : run'[r].pc # 0 => run[r].pc # 0 /\ run'[r] = run[r]
  BY <1>1, Zenon
<1>5. adapter = "mysql" => \E k \in 0..18 : /\ Staged(catalog, k)
                                             /\ \A r \in Runs : run'[r].pc # 0 => RunAt(r, k)'
  BY <1>3, <1>4, Zenon DEF StagedInv
<1>6. (adapter = "mysql")' => (\E k \in 0..18 : /\ Staged(catalog, k)
                                                 /\ \A r \in Runs : run[r].pc # 0 => RunAt(r, k))'
  BY <1>5, Zenon
<1>7. adapter # "mysql" /\ catalog["schema_marker"] = "v2" => catalog = Baseline(adapter)
  BY Zenon DEF StagedInv
<1>8. \A r \in Runs : run'[r].pc # 0 /\ run'[r].undisturbed => Backfilled(rows)
  BY <1>4, Zenon DEF StagedInv
<1> QED BY <1>6, <1>7, <1>8, Zenon DEF StagedInv

\* A statement advances the catalog by one stage or repeats a stage behind it.
LEMMA StepStaged ==
  ASSUME UpgradeInv, StagedInv, \A r, t \in Runs : r = t, NEW s \in Runs, Step(s)
  PROVE  StagedInv'
<1> DEFINE p == run[s].pc
           o == Statements[p][1]
           d == Statements[p][2]
<1>1. p \in 1..18 /\ UNCHANGED <<adapter, rows, crashes>>
  BY StatementsAre, Zenon DEF Step
<1>2. adapter = "mysql" /\ UpgradeTypeOK /\ run \in [Runs -> Run]
  BY <1>1, SMTT(20) DEF UpgradeInv, UpgradeTypeOK, OnlyMysql
<1>3. PICK k \in 0..18 : Staged(catalog, k) /\ RunAt(s, k)
  BY <1>1, <1>2 DEF StagedInv
<1>4. k >= p - 1 /\ StandsAt(s, p, k)
  BY <1>1, <1>2, <1>3, StagedStep, Zenon
<1>5. /\ Skips(s, o, d) => k >= p
      /\ ~ Skips(s, o, d) => k = p - 1 /\ Staged(Altered(o, d), p)
  BY <1>1, <1>4 DEF StandsAt
<1>6. \/ /\ Skips(s, o, d)
         /\ run' = [run EXCEPT ![s] = After(s)] /\ UNCHANGED catalog
      \/ run' = [run EXCEPT ![s] = NoRun] /\ UNCHANGED catalog
      \/ /\ ~ Skips(s, o, d)
         /\ run' = [run EXCEPT ![s] = After(s)] /\ catalog' = Altered(o, d)
  BY Zenon DEF Step
<1>7. PICK j \in 0..18 :
        /\ Staged(run[s].seen, j) /\ \A c \in TenantColumns : run[s].seen[c] # "none"
        /\ k = j \/ k = p - 1
        /\ j <= k
  BY <1>3, Zenon DEF RunAt
<1> HIDE DEF o, d
<1>8. CASE run' = [run EXCEPT ![s] = NoRun] /\ UNCHANGED catalog
  BY <1>1, <1>8, EndStaged, Zenon
<1>9. ASSUME run' = [run EXCEPT ![s] = After(s)], NEW n \in 0..18, Staged(catalog', n), n >= p, n >= j,
             n = j \/ n = p
      PROVE  StagedInv'
  <2>1. run'[s] = After(s) /\ \A r \in Runs : r = s
    BY <1>2, <1>9, Zenon
  <2>2. CASE p = 18
    <3>1. run'[s].pc = 0
      BY <1>1, <1>2, <2>1, <2>2, AfterIs, NoRunType, SMTT(20)
    <3> QED BY <1>1, <1>2, <1>9, <2>1, <3>1, SMTT(20) DEF StagedInv
  <2>3. CASE p # 18
    <3>1. /\ run'[s].pc = p + 1 /\ run'[s].seen = run[s].seen
          /\ run'[s].undisturbed = run[s].undisturbed
      BY <1>1, <1>2, <2>1, <2>3, AfterIs, SMTT(20)
    <3>2. \A c \in TenantColumns : catalog'[c] # "none"
      BY <1>1, <1>9 DEF Staged, Set, TenantColumns
    <3>3. Prepared'
      BY <3>2, Zenon DEF Prepared
    <3>4. /\ j <= n /\ run'[s].pc <= n + 1
          /\ n = j \/ n = run'[s].pc - 1
      BY <1>1, <1>9, <3>1
    <3>5. RunAt(s, n)'
      BY <1>7, <3>1, <3>3, <3>4, Zenon DEF RunAt
    <3>6. run[s].undisturbed => Backfilled(rows)
      BY <1>1 DEF StagedInv
    <3>7. \A r \in Runs : RunAt(r, n)' /\ (run'[r].undisturbed => Backfilled(rows))
      BY <2>1, <3>1, <3>5, <3>6, Zenon
    <3> QED BY <1>1, <1>2, <1>9, <3>7, SMTT(20) DEF StagedInv
  <2> QED BY <2>2, <2>3, Zenon
<1>10. CASE Skips(s, o, d) /\ run' = [run EXCEPT ![s] = After(s)] /\ UNCHANGED catalog
  <2>1. k >= p /\ k >= j /\ (k = j \/ k = p)
    BY <1>1, <1>5, <1>7, <1>10
  <2> QED BY <1>3, <1>9, <1>10, <2>1, Zenon
<1>11. CASE /\ ~ Skips(s, o, d) /\ run' = [run EXCEPT ![s] = After(s)]
            /\ catalog' = Altered(o, d)
  <2>1. p \in 0..18 /\ p >= p /\ p >= j /\ Staged(catalog', p)
    BY <1>1, <1>5, <1>7, <1>11, SMTT(20)
  <2> QED BY <1>9, <1>11, <2>1, Zenon
<1> QED BY <1>6, <1>8, <1>10, <1>11

\* With one run at a time every step keeps the stage.
LEMMA NextStaged ==
  ASSUME \A r, s \in Runs : r = s
  PROVE  UpgradeInv /\ StagedInv /\ [UpgradeNext]_upgradevars => StagedInv'
<1> SUFFICES ASSUME UpgradeInv, StagedInv, [UpgradeNext]_upgradevars PROVE StagedInv'
  BY Zenon
<1>0. ASSUME Disturb, UNCHANGED <<adapter, catalog>> PROVE StagedInv'
  <2>1. \A s \in Runs : /\ run'[s].pc = run[s].pc /\ run'[s].seen = run[s].seen
                        /\ ~ run'[s].undisturbed
    BY <1>0, Zenon DEF UpgradeInv, UpgradeTypeOK, Disturb, Run
  <2> QED BY <1>0, <2>1, RowsStaged, Zenon
<1>1. CASE \E id \in Identities : V1Enqueue(id)
  BY <1>0, <1>1, Zenon DEF V1Enqueue
<1>2. CASE \E id \in Identities, t \in TenantIds : V2Enqueue(id, t)
  <2> PICK id \in Identities, t \in TenantIds : V2Enqueue(id, t)
    BY <1>2, Zenon
  <2>1. UNCHANGED <<adapter, catalog, run>>
    BY Zenon DEF V2Enqueue
  <2>2. Backfilled(rows) => Backfilled(rows')
    BY AppendBackfilled, Zenon DEF V2Enqueue
  <2> QED BY <2>1, <2>2, RowsStaged, Zenon
<1>3. CASE \E c \in TenantColumns : Prepare(c)
  BY <1>3, PrepareStaged, Zenon
<1>4. CASE Backfill \/ BackfillWrong
  BY <1>0, <1>4, Zenon DEF Backfill, BackfillWrong, Assign
<1>5. CASE PgActivate \/ SqliteActivate
  BY <1>5, ActivateStaged, Zenon
<1>6. CASE \E s \in Runs : Begin(s)
  BY <1>6, BeginStaged, Zenon
<1>7. CASE \E s \in Runs : Step(s)
  BY <1>7, StepStaged, Zenon
<1>8. CASE \E s \in Runs : Crash(s)
  BY <1>8, EndStaged, Zenon DEF Crash
<1>9. CASE UNCHANGED upgradevars
  BY <1>9, RowsStaged, Zenon DEF upgradevars
<1> QED BY <1>1, <1>2, <1>3, <1>4, <1>5, <1>6, <1>7, <1>8, <1>9, SMTT(20) DEF UpgradeNext, Rejected, Done

\* It holds in every reachable state.
LEMMA StagedKept ==
  ASSUME \A r, s \in Runs : r = s
  PROVE  UpgradeSpec => [](UpgradeInv /\ StagedInv)
BY InitUpgrade, NextUpgrade, InitStaged, NextStaged, PTL DEF UpgradeSpec

-------------------------------------------------------------------------------
\* check_schema of every adapter accepts exactly the version 2 schema, among all
\* catalogs without what only MySQL has.
THEOREM CheckSchemaExact ==
  ASSUME NEW a \in {"postgres", "mysql", "sqlite"}, NEW cat \in [Objects -> Definitions],
         a # "mysql" => \A o \in MysqlOnly : cat[o] = "none"
  PROVE  check_schema(a, cat) <=> cat = Baseline(a)
<1> DEFINE All == Rebuilt \cup Added \cup {"schema_marker"}
           V2 == /\ \A o \in TenantColumns : cat[o] = "not_null"
                 /\ \A o \in All \ MysqlOnly : cat[o] = "v2"
                 /\ cat["rest"] = "v1" /\ cat["source_event_id"] = "none"
                 /\ a = "mysql" => \A o \in MysqlOnly : cat[o] = "v2"
<1>1. /\ \A o \in TenantColumns : Baseline(a)[o] = "not_null"
      /\ \A o \in MysqlOnly : Baseline(a)[o] = IF a = "mysql" THEN "v2" ELSE "none"
      /\ \A o \in All \ MysqlOnly : Baseline(a)[o] = "v2"
      /\ Baseline(a)["rest"] = "v1" /\ Baseline(a)["source_event_id"] = "none"
  BY BaselineIs, Zenon
<1>2. cat = Baseline(a) <=> V2
  <2>1. cat = Baseline(a) => V2
    BY <1>1, Zenon
  <2>2. ASSUME V2 PROVE cat = Baseline(a)
    <3>1. \A o \in MysqlOnly : cat[o] = Baseline(a)[o]
      BY <1>1, <2>2, Zenon
    <3>2. \A o \in Objects : \/ o \in TenantColumns \/ o \in All \ MysqlOnly \/ o \in MysqlOnly
                             \/ o \in {"rest", "source_event_id"}
      BY Zenon DEF Objects
    <3>3. \A o \in Objects : cat[o] = Baseline(a)[o]
      BY <1>1, <2>2, <3>1, <3>2
    <3>4. Baseline(a) \in [Objects -> Definitions]
      BY BaselineType, Zenon
    <3> HIDE DEF All, V2
    <3> QED BY <3>3, <3>4
  <2> QED BY <2>1, <2>2, Zenon
<1>3. All \ MysqlOnly = Checks \cup {"tenant_row", "tenant_source_event_id", "event_fk", "claimable",
                                     "expired_claims", "schema_marker"}
  BY Zenon DEF Rebuilt, Added, Checks, MysqlOnly
<1>4. Checks \cup {"tenant_row", "tenant_source_event_id", "event_fk", "claimable", "expired_claims"}
        \subseteq All \ MysqlOnly
  BY <1>3, Zenon
<1> HIDE DEF All
<1>5. CASE a = "postgres"
  <2>1. check_schema(a, cat) <=> pg_check_schema(cat)
    BY <1>5, Zenon DEF check_schema
  <2>2. pg_check_columns(cat) <=> \A o \in TenantColumns : cat[o] = "not_null"
    BY <1>1, <1>5, Zenon DEF pg_check_columns, Exact
  <2>3. pg_expected_constraints(cat) <=>
          \A o \in Checks \cup {"tenant_row", "event_fk"} : cat[o] = "v2"
    <3>1. Constraints \ {"tenant_source_event_id"} = Checks \cup {"tenant_row", "event_fk"}
      BY Zenon DEF Constraints, Checks
    <3> QED BY <1>1, <1>4, <1>5, <3>1 DEF pg_expected_constraints, Exact
  <2>4. pg_expected_indexes(cat) <=>
          /\ \A o \in {"tenant_source_event_id", "claimable", "expired_claims"} : cat[o] = "v2"
          /\ cat["source_event_id"] = "none"
    BY <1>1, <1>4, <1>5 DEF pg_expected_indexes, Exact
  <2>5. pg_check_schema(cat) <=> V2
    BY <1>3, <1>5, <2>2, <2>3, <2>4, Zenon DEF pg_check_schema, pg_marker_matches
  <2> QED BY <1>2, <2>1, <2>5, Zenon
<1>6. CASE a = "mysql"
  <2>1. check_schema(a, cat) <=> mysql_check_schema(cat)
    BY <1>6, Zenon DEF check_schema
  <2>2. mysql_check_columns(cat) <=>
          (\A o \in TenantColumns : cat[o] = "not_null") /\ cat["identity_key"] = "v2"
    BY <1>1, <1>6 DEF mysql_check_columns, Exact, Columns, MysqlOnly
  <2>3. mysql_check_constraints(cat) <=>
          \A o \in Checks \cup {"tenant_row", "tenant_source_event_id", "event_fk"} : cat[o] = "v2"
    BY <1>1, <1>4, <1>6 DEF mysql_check_constraints, Exact, Constraints
  <2>4. mysql_check_indexes(cat) <=>
          /\ \A o \in {"tenant_source_event_id", "tenant_row", "claimable", "expired_claims"} :
                cat[o] = "v2"
          /\ cat["event_fk_index"] = "v2" /\ cat["source_event_id"] = "none"
    BY <1>1, <1>4, <1>6 DEF mysql_check_indexes, Exact, Indexes, MysqlOnly
  <2>5. mysql_check_schema(cat) <=> V2
    BY <1>3, <1>6, <2>2, <2>3, <2>4, SMTT(20)
       DEF mysql_check_schema, mysql_check_schema_marker, mysql_check_marker_table,
           mysql_check_triggers, MysqlOnly
  <2> QED BY <1>2, <2>1, <2>5, Zenon
<1>7. CASE a = "sqlite"
  <2>1. check_schema(a, cat) <=> sqlite_check_schema(cat)
    BY <1>7, Zenon DEF check_schema
  <2>2. sqlite_check_columns(cat) <=> \A o \in TenantColumns : cat[o] = "not_null"
    BY <1>1, <1>7, Zenon DEF sqlite_check_columns, Exact
  <2>3. sqlite_table_source(cat) <=> (\A o \in Checks : cat[o] = "v2") /\ cat["rest"] = "v1"
    BY <1>1, <1>4, <1>7 DEF sqlite_table_source, Exact
  <2>5. sqlite_check_schema(cat) <=> V2
    BY <1>3, <1>7, <2>2, <2>3, Zenon
       DEF sqlite_check_schema, sqlite_check_schema_marker, sqlite_check_index,
           sqlite_no_extra_objects, sqlite_check_foreign_key
  <2> QED BY <1>2, <2>1, <2>5, Zenon
<1> QED BY <1>5, <1>6, <1>7, Zenon

\* SchemaExact, when one connection at a time runs the MySQL activation: check_schema
\* accepts the version 2 schema only, and the marker is written after everything else.
THEOREM SchemaAlwaysExact ==
  ASSUME \A r, s \in Runs : r = s
  PROVE  UpgradeSpec => []SchemaExact
<1>1. ASSUME UpgradeInv PROVE CheckExact
  <2> SUFFICES ASSUME NEW o \in Objects, NEW d \in {catalog[o], "none", "v1", "v2"},
                      o \notin MysqlOnly \/ adapter = "mysql"
               PROVE  check_schema(adapter, [catalog EXCEPT ![o] = d])
                        <=> [catalog EXCEPT ![o] = d] = Baseline(adapter)
    BY Zenon DEF CheckExact
  <2> DEFINE cat == [catalog EXCEPT ![o] = d]
  <2>1. catalog \in [Objects -> Definitions] /\ adapter \in {"postgres", "mysql", "sqlite"}
    BY <1>1, UpgradeAssumption, Zenon DEF UpgradeInv, UpgradeTypeOK
  <2>2. d \in Definitions
    BY <2>1, Zenon DEF Definitions
  <2>3. cat \in [Objects -> Definitions] /\ \A q \in Objects \ {o} : cat[q] = catalog[q]
    BY <2>1, <2>2, Zenon
  <2>4. adapter # "mysql" => \A q \in MysqlOnly : cat[q] = "none"
    <3>1. MysqlOnly \subseteq Objects
      BY ObjectsAre, Zenon DEF MysqlOnly
    <3> QED BY <1>1, <2>3, <3>1, Zenon DEF UpgradeInv, OnlyMysql
  <2> HIDE DEF cat
  <2>5. check_schema(adapter, cat) <=> cat = Baseline(adapter)
    BY <2>1, <2>3, <2>4, CheckSchemaExact, Zenon
  <2> QED BY <2>5, Zenon DEF cat
<1>2. ASSUME UpgradeInv, StagedInv PROVE MarkerMeansComplete
  <2> SUFFICES ASSUME catalog["schema_marker"] = "v2" PROVE check_schema(adapter, catalog)
    BY Zenon DEF MarkerMeansComplete
  <2>1. catalog \in [Objects -> Definitions] /\ adapter \in {"postgres", "mysql", "sqlite"}
    BY <1>2, UpgradeAssumption, Zenon DEF UpgradeInv, UpgradeTypeOK
  <2>2. CASE adapter = "mysql"
    <3>1. PICK k \in 0..18 : Staged(catalog, k)
      BY <1>2, <2>2, Zenon DEF StagedInv
    <3>2. k = 18
      BY <3>1 DEF Staged, Set
    <3>3. \A o \in Objects : catalog[o] = CASE o \in TenantColumns -> "not_null"
                                            [] o = "rest" -> "v1"
                                            [] o = "source_event_id" -> "none"
                                            [] OTHER -> "v2"
      BY <3>1, <3>2, ObjectsAre DEF Staged, Set, TenantColumns
    <3>4. \A o \in Objects : Baseline("mysql")[o] = CASE o \in TenantColumns -> "not_null"
                                                      [] o = "rest" -> "v1"
                                                      [] o = "source_event_id" -> "none"
                                                      [] OTHER -> "v2"
      BY BaselineIs DEF Objects, TenantColumns
    <3>5. catalog = Baseline("mysql")
      BY <2>1, <3>3, <3>4, BaselineType
    <3> QED BY <2>1, <2>2, <3>5, CheckSchemaExact, Zenon
  <2>3. CASE adapter # "mysql"
    <3>1. catalog = Baseline(adapter)
      BY <1>2, <2>3, Zenon DEF StagedInv
    <3>2. \A o \in MysqlOnly : catalog[o] = "none"
      BY <1>2, <2>3, Zenon DEF UpgradeInv, OnlyMysql
    <3> QED BY <2>1, <3>1, <3>2, CheckSchemaExact, Zenon
  <2> QED BY <2>2, <2>3, Zenon
<1>3. UpgradeInv /\ StagedInv => SchemaExact
  BY <1>1, <1>2, Zenon DEF SchemaExact
<1> QED BY <1>3, StagedKept, PTL

\* Every stage whose tenant columns are prepared is one the preflight accepts.
LEMMA StagedPreflight ==
  ASSUME NEW cat, NEW k \in 0..18, Staged(cat, k), \A c \in TenantColumns : cat[c] # "none"
  PROVE  PreflightCatalog(cat)
<1>1. /\ k >= 2 => \A c \in TenantColumns : cat[c] = "not_null"
      /\ k >= 7 => \A o \in Checks \cup {"tenant_row"} : cat[o] = "v2"
  BY DEF Staged, Set, TenantColumns, Checks
<1>2. k >= 9 => IdentityReady(cat)
  BY <1>1 DEF IdentityReady, Staged, Set
<1>3. /\ cat["source_event_id"] = "v1" \/ cat["tenant_source_event_id"] = "v2"
      /\ cat["identity_key"] = "v2" => k >= 8
      /\ cat["tenant_source_event_id"] = "v2" => cat["identity_key"] = "v2"
      /\ k < 11 => cat["event_fk"] = "v1" /\ cat["event_fk_index"] = "none"
      /\ k = 11 => cat["event_fk"] = "none" /\ cat["event_fk_index"] = "none"
      /\ k >= 12 => /\ cat["event_fk"] = "v2" /\ cat["event_fk_index"] = "v2"
                    /\ cat["source_event_id"] = "none"
      /\ cat["claimable"] # "v1" => k >= 13
      /\ cat["expired_claims"] # "v1" => k >= 15 /\ cat["claimable"] = "v2"
      /\ cat["schema_marker"] # "none" =>
           k >= 17 /\ cat["claimable"] = "v2" /\ cat["expired_claims"] = "v2"
  BY DEF Staged, Set
<1> QED BY <1>1, <1>2, <1>3, SMTT(20) DEF PreflightCatalog

\* Over rows that are backfilled the server takes every definition of version 2.
LEMMA BackfilledAdmits ==
  ASSUME NEW rs, Backfilled(rs), NEW o, NEW d,
         o = "source_event_id" => d = "none"
  PROVE  Admits(o, d, rs)
<1>1. \A i \in DOMAIN rs : rs[i].event # NULL /\ rs[i].event # "" /\ rs[i].delivery = rs[i].event
  BY UpgradeAssumption, Zenon DEF Backfilled
<1>2. UniqueTenantIdentity(rs)
  BY Zenon DEF Backfilled
<1> QED BY <1>1, <1>2, Zenon DEF Admits

\* Resumable, when one connection at a time runs the MySQL activation: the preflight
\* accepts every catalog an interrupted run leaves, and after it no statement fails
\* unless rows changed under the run.
THEOREM AlwaysResumable ==
  ASSUME \A r, s \in Runs : r = s
  PROVE  UpgradeSpec => []Resumable
<1>1. ASSUME UpgradeInv, StagedInv PROVE Restartable
  <2> SUFFICES ASSUME adapter = "mysql", Prepared, Backfilled(rows) PROVE Preflight(catalog, rows)
    BY Zenon DEF Restartable
  <2>1. PICK k \in 0..18 : Staged(catalog, k)
    BY <1>1, Zenon DEF StagedInv
  <2> QED BY <2>1, StagedPreflight, Zenon DEF Preflight, Prepared
<1>2. ASSUME UpgradeInv, StagedInv PROVE PreflightSuffices
  <2> SUFFICES ASSUME NEW s \in Runs, run[s].pc # 0, run[s].undisturbed
               PROVE  LET o == Statements[run[s].pc][1]
                          d == Statements[run[s].pc][2]
                      IN  Skips(s, o, d) \/ ~ Refuses(o, d)
    BY Zenon DEF PreflightSuffices
  <2> DEFINE p == run[s].pc
             o == Statements[p][1]
             d == Statements[p][2]
  <2>1. p \in 1..18 /\ UpgradeTypeOK
    BY <1>2 DEF UpgradeInv, UpgradeTypeOK, Run
  <2>2. adapter = "mysql" /\ Backfilled(rows)
    BY <1>2, Zenon DEF UpgradeInv, OnlyMysql, StagedInv
  <2>3. PICK k \in 0..18 : Staged(catalog, k) /\ RunAt(s, k)
    BY <1>2, <2>2, Zenon DEF StagedInv
  <2>4. StandsAt(s, p, k)
    BY <2>1, <2>3, StagedStep, Zenon
  <2>5. Skips(s, o, d) \/ (d = "v2" /\ o # "schema_marker" => catalog[o] = "none")
    BY <2>4, Zenon DEF StandsAt
  <2>6. o = "source_event_id" => d = "none"
    <3>1. o = "source_event_id" => p = 10
      BY <2>1, StatementFacts, Zenon
    <3> QED BY <3>1, StatementsAre
  <2> HIDE DEF o, d
  <2>7. Admits(o, d, rows)
    BY <2>2, <2>6, BackfilledAdmits, Zenon
  <2>8. Skips(s, o, d) \/ ~ Refuses(o, d)
    BY <2>5, <2>7, Zenon DEF Refuses
  <2> QED BY <2>8, Zenon DEF o, d
<1>3. UpgradeInv /\ StagedInv => Resumable
  BY <1>1, <1>2, Zenon DEF Resumable
<1> QED BY <1>3, StagedKept, PTL

\* A statement that is executed finds its object unfinished or finishes it.
LEMMA StepKeepsFinished ==
  ASSUME UpgradeInv, StagedInv, NEW s \in Runs, Step(s), NEW q \in Objects,
         catalog[q] = Baseline(adapter)[q]
  PROVE  catalog'[q] = Baseline(adapter)[q]
<1> DEFINE p == run[s].pc
           o == Statements[p][1]
           d == Statements[p][2]
<1>1. p \in 1..18 /\ UpgradeTypeOK
  BY StatementsAre, Zenon DEF Step, UpgradeInv
<1>2. adapter = "mysql"
  BY <1>1 DEF UpgradeInv, OnlyMysql
<1>3. PICK k \in 0..18 : Staged(catalog, k) /\ RunAt(s, k)
  BY <1>1, <1>2 DEF StagedInv
<1>4. StandsAt(s, p, k)
  BY <1>1, <1>3, StagedStep, Zenon
<1>5. o \in Objects \ {"event_fk_index", "rest"} /\ d \in Definitions
  BY <1>1, StatementFacts, Zenon
<1>6. ~ Skips(s, o, d) => /\ d = "none" => catalog[o] = "v1"
                          /\ d = "empty" => catalog[o] = "none"
  BY <1>4, Zenon DEF StandsAt
<1>7. catalog' = catalog \/ (~ Skips(s, o, d) /\ catalog' = Altered(o, d))
  BY Zenon DEF Step
<1>8. d \in {"none", "empty"} \/ d = Baseline("mysql")[o]
  <2>1. p \in {1, 2} => o \in TenantColumns /\ d = "not_null"
    BY StatementsAre, SMTT(20) DEF TenantColumns
  <2>2. p \in {3, 4, 5, 6, 7, 8, 9, 12, 14, 16, 18} =>
          o \in Rebuilt \cup Added \cup {"schema_marker"} /\ d = "v2"
    BY StatementsAre DEF Rebuilt, Added, Checks
  <2>3. p \in {10, 11, 13, 15} => d = "none"
    BY StatementsAre
  <2>4. p = 17 => d = "empty"
    BY StatementsAre
  <2>5. p \in {1, 2} \/ p \in {3, 4, 5, 6, 7, 8, 9, 12, 14, 16, 18} \/ p \in {10, 11, 13, 15} \/ p = 17
    BY <1>1
  <2>6. /\ \A x \in TenantColumns : Baseline("mysql")[x] = "not_null"
        /\ \A x \in Rebuilt \cup Added \cup {"schema_marker"} : Baseline("mysql")[x] = "v2"
    BY BaselineIs
  <2> HIDE DEF o, d, p
  <2> QED BY <2>1, <2>2, <2>3, <2>4, <2>5, <2>6, SMTT(20)
<1>9. Baseline("mysql")["event_fk_index"] = "v2" /\ "event_fk_index" \in Objects
  BY BaselineIs, ObjectsAre, Zenon DEF MysqlOnly
<1>11. o = "source_event_id" => d = "none" /\ Baseline("mysql")[o] = "none"
  <2>1. o = "source_event_id" => p = 10
    BY <1>1, StatementFacts, Zenon
  <2> QED BY <2>1, StatementsAre, BaselineIs
<1>12. d \in {"none", "empty"} /\ o # "source_event_id" => Baseline("mysql")[o] \in {"v2", "not_null"}
  <2>1. o \in TenantColumns \/ o \in Rebuilt \cup Added \cup {"schema_marker"} \/ o = "source_event_id"
    BY <1>5, Zenon DEF Objects
  <2>2. o \in (Rebuilt \cup Added \cup {"schema_marker"}) =>
          o \in MysqlOnly \/ o \in (Rebuilt \cup Added \cup {"schema_marker"}) \ MysqlOnly
    BY Zenon
  <2> HIDE DEF o, d, p
  <2> QED BY <2>1, <2>2, BaselineIs, Zenon
<1> HIDE DEF o, d, p
<1>13. CASE ~ Skips(s, o, d) /\ catalog' = Altered(o, d)
  <2>1. /\ catalog'[o] = d
        /\ catalog'["event_fk_index"] = "v2" \/ catalog'["event_fk_index"] = catalog["event_fk_index"]
        /\ \A x \in Objects \ {o, "event_fk_index"} : catalog'[x] = catalog[x]
    BY <1>1, <1>5, <1>13, AlteredIs
  <2>2. catalog[o] = Baseline("mysql")[o] => d = Baseline("mysql")[o]
    BY <1>6, <1>8, <1>11, <1>12, <1>13, Zenon
  <2> QED BY <1>2, <1>9, <2>1, <2>2, Zenon
<1> QED BY <1>7, <1>13, Zenon

\* NeverUndone, when one connection at a time runs the MySQL activation: no statement of
\* a run started again drops or overwrites what an earlier run has finished.
THEOREM NeverUndoneHolds ==
  ASSUME \A r, s \in Runs : r = s
  PROVE  UpgradeSpec => NeverUndone
<1> DEFINE Stays == \A o \in Objects : catalog[o] = Baseline(adapter)[o]
                                        => catalog'[o] = Baseline(adapter)[o]
<1>1. ASSUME UpgradeInv, StagedInv, [UpgradeNext]_upgradevars PROVE [Stays]_upgradevars
  <2> SUFFICES ASSUME NEW o \in Objects, catalog[o] = Baseline(adapter)[o]
               PROVE  catalog'[o] = Baseline(adapter)[o]
    BY Zenon
  <2>1. CASE \E c \in TenantColumns : Prepare(c)
    <3> PICK c \in TenantColumns : Prepare(c)
      BY <2>1, Zenon
    <3>1. o # c
      BY BaselineIs DEF Prepare
    <3> QED BY <1>1, <3>1, Zenon DEF Prepare, UpgradeInv, UpgradeTypeOK
  <2>2. CASE PgActivate \/ SqliteActivate
    BY <2>2, Zenon DEF PgActivate, SqliteActivate
  <2>3. CASE \E s \in Runs : Step(s)
    BY <1>1, <2>3, StepKeepsFinished, Zenon
  <2>4. CASE catalog' = catalog
    BY <2>4, Zenon
  <2> QED BY <1>1, <2>1, <2>2, <2>3, <2>4, Zenon
         DEF UpgradeNext, upgradevars, V1Enqueue, V2Enqueue, Backfill, BackfillWrong, Assign,
         Begin, Crash,
             Rejected, Done
<1> HIDE DEF Stays
<1>2. UpgradeInv /\ StagedInv /\ [UpgradeNext]_upgradevars => [Stays]_upgradevars
  BY <1>1, Zenon
<1>3. UpgradeSpec => [][Stays]_upgradevars
  BY <1>2, StagedKept, PTL DEF UpgradeSpec
<1> QED BY <1>3, Zenon DEF Stays, NeverUndone
===============================================================================
