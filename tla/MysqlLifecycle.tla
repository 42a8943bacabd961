---------------------------- MODULE MysqlLifecycle ----------------------------
(***************************************************************************)
(* The delivery lifecycle of the MySQL and MariaDB adapter, statement by   *)
(* statement: claims, fenced mutations and migration finalisations as      *)
(* REPEATABLE READ transactions over one delivery table.                   *)
(*                                                                         *)
(* InnoDB itself is external and is modelled by what these statements rely *)
(* on.  The first plain SELECT of a transaction fixes its read view, and   *)
(* every later plain SELECT reads through it.  A locking read or an UPDATE *)
(* works on the latest committed version.  A record lock taken while       *)
(* looking a row up is kept until the transaction ends, whether or not the *)
(* row satisfied the rest of the predicate.  UTC_TIMESTAMP(6) is the       *)
(* instant its statement started, before any wait for a lock.              *)
(* A row is written only by the session that holds its lock, so a          *)
(* transaction's writes appear here when it commits.                       *)
(***************************************************************************)
EXTENDS Delivery

CONSTANTS
  Sessions,  \* database sessions of workers and operators
  Free,      \* an unlocked row
  Limits     \* batch limits of claim

ASSUME MysqlAssumption == Free \notin Sessions /\ Limits \subseteq Nat \ {0}

VARIABLES
  now, delivery, issued,  \* as in DeliveryFencing
  lock,    \* the session holding each delivery row's record lock
  elock,   \* the session holding each event row's record lock
  pc,      \* where each session's call stands
  call,    \* its arguments
  opTime,  \* the operation time of the statement or of the claim
  view,    \* the delivery rows in the read view of a claim
  due,     \* history: the rows its first window read found due
  after,   \* the last row id a claim has visited (after_row_id)
  cand,    \* ids of the current window not visited yet
  batch,   \* candidate rows its claim has locked
  reply    \* the outcome a call returned in the last step, if one did

tables == <<now, delivery, issued>>
claiming == <<view, due, after, cand, batch>>
vars == <<tables, lock, elock, pc, call, opTime, claiming, reply>>

Replies == {"none", "Claimed", "CounterOverflow", "Serialization", "Mutated",
            "NotFound", "IllegalTransition", "LostClaim", "MutationNoop",
            "Finalized", "AlreadyFinalized", "StateConflict", "Error"}

Steps == {"first", "window", "lock", "clock", "persist", "execute", "reexecute",
          "classify", "commit", "event", "delivery", "finalize", "refused"}

NoCall == [op |-> "none", scope |-> Admin, row |-> 0, token |-> NoToken,
           arg |-> 0, limit |-> 0]

NoView == [r \in Rows |-> AbsentRow]

Init ==
  /\ now = 0
  /\ delivery = [r \in Rows |-> AbsentRow]
  /\ issued = [r \in Rows |-> {}]
  /\ lock = [r \in Rows |-> Free]
  /\ elock = [r \in Rows |-> Free]
  /\ pc = [s \in Sessions |-> "idle"]
  /\ call = [s \in Sessions |-> NoCall]
  /\ opTime = [s \in Sessions |-> 0]
  /\ view = [s \in Sessions |-> NoView]
  /\ due = [s \in Sessions |-> {}]
  /\ after = [s \in Sessions |-> 0]
  /\ cand = [s \in Sessions |-> {}]
  /\ batch = [s \in Sessions |-> {}]
  /\ reply = "none"

Freed(locks, s) == [r \in Rows |-> IF locks[r] = s THEN Free ELSE locks[r]]

\* Mutation of End: a call that ends in error returns its connection without a
\* rollback.
EndWithoutRollback(s, outcome) ==
  /\ pc' = [pc EXCEPT ![s] = "idle"]
  /\ reply' = outcome
  /\ lock' = IF outcome \in {"Claimed", "Mutated", "Finalized"} THEN Freed(lock, s) ELSE lock
  /\ elock' = Freed(elock, s)
  /\ call' = [call EXCEPT ![s] = NoCall]
  /\ opTime' = [opTime EXCEPT ![s] = 0]
  /\ view' = [view EXCEPT ![s] = NoView]
  /\ due' = [due EXCEPT ![s] = {}]
  /\ after' = [after EXCEPT ![s] = 0]
  /\ cand' = [cand EXCEPT ![s] = {}]
  /\ batch' = [batch EXCEPT ![s] = {}]

\* The end of a transaction, committed or rolled back: its locks are freed.
End(s, outcome) ==
  /\ pc' = [pc EXCEPT ![s] = "idle"]
  /\ reply' = outcome
  /\ lock' = Freed(lock, s)
  /\ elock' = Freed(elock, s)
  /\ call' = [call EXCEPT ![s] = NoCall]
  /\ opTime' = [opTime EXCEPT ![s] = 0]
  /\ view' = [view EXCEPT ![s] = NoView]
  /\ due' = [due EXCEPT ![s] = {}]
  /\ after' = [after EXCEPT ![s] = 0]
  /\ cand' = [cand EXCEPT ![s] = {}]
  /\ batch' = [batch EXCEPT ![s] = {}]

-------------------------------------------------------------------------------
(* The clock and the producers.                                            *)

Tick ==
  /\ now < MaxTime
  /\ now' = now + 1
  /\ reply' = "none"
  /\ UNCHANGED <<delivery, issued, lock, elock, pc, call, opTime, claiming>>

\* A producer's transaction that enqueued or imported r commits; it read the
\* clock before.  An import may find the event delivered by the old publisher.
Insert(r) ==
  /\ delivery[r].state = "absent"
  /\ \E t \in 0..now : \E row \in {EnqueuedRow(t), ImportedDelivered(t)} :
       delivery' = [delivery EXCEPT ![r] = row]
  /\ reply' = "none"
  /\ UNCHANGED <<now, issued, lock, elock, pc, call, opTime, claiming>>

-------------------------------------------------------------------------------
(* claim_with_entropy_scoped                                               *)

BeginClaim(s, scope, lease, limit) ==
  /\ pc[s] = "idle"
  /\ pc' = [pc EXCEPT ![s] = "first"]
  /\ call' = [call EXCEPT ![s] = [NoCall EXCEPT !.op = "claim", !.scope = scope,
                                                !.arg = lease, !.limit = limit]]
  /\ reply' = "none"
  /\ UNCHANGED <<tables, lock, elock, opTime, claiming>>

\* The unlocked read of candidate ids looks at the read view of the transaction,
\* which its first execution creates, and at the clock of its own start.
Seen(s) == IF pc[s] = "first" THEN delivery ELSE view[s]

CandidateIds(s) ==
  {r \in Rows : r > after[s] /\ InScope(call[s].scope, r) /\ Eligible(Seen(s)[r], now)}

\* ORDER BY event_row_id ASC LIMIT n.
FirstN(S, n) == {r \in S : Cardinality({q \in S : q < r}) < n}

\* Mutation of NextWindow: the search ends with the first window.
OnlyWindow(s) == IF pc[s] = "first" THEN FirstN(CandidateIds(s), call[s].limit) ELSE {}

NextWindow(s) == FirstN(CandidateIds(s), call[s].limit)

\* One turn of the loop of lock_candidates.  An empty window ends the search,
\* and a search without candidates ends the call with an empty batch.
ReadWindow(s) ==
  /\ pc[s] \in {"first", "window"}
  /\ IF NextWindow(s) = {} /\ batch[s] = {}
       THEN End(s, "Claimed")
       ELSE /\ pc' = [pc EXCEPT ![s] = IF NextWindow(s) = {} THEN "clock" ELSE "lock"]
            /\ cand' = [cand EXCEPT ![s] = NextWindow(s)]
            /\ view' = [view EXCEPT ![s] = Seen(s)]
            /\ due' = [due EXCEPT ![s] = IF pc[s] = "first" THEN CandidateIds(s) ELSE @]
            /\ reply' = "none"
            /\ UNCHANGED <<lock, elock, call, opTime, after, batch>>
  /\ UNCHANGED tables

\* Mutations of Lockable: the locked version is not evaluated again; the lock of
\* another session is not respected.
LockableByView(s, r) == lock[r] = Free /\ elock[r] = Free
LockableIgnoringLocks(s, r) == Eligible(delivery[r], now)

\* FOR UPDATE SKIP LOCKED of one id: both records are free and the latest
\* version of the delivery satisfies the predicate.
Lockable(s, r) == lock[r] = Free /\ elock[r] = Free /\ Eligible(delivery[r], now)

\* lock_candidate and the rest of the loop body, for the first id of the window.
\* A free delivery record stays locked even if the row is not a candidate after all.
LockCandidate(s) ==
  /\ pc[s] = "lock"
  /\ \E r \in cand[s] :
       LET took == IF Lockable(s, r) THEN batch[s] \union {r} ELSE batch[s]
           full == Cardinality(took) = call[s].limit
           rest == IF full THEN {} ELSE cand[s] \ {r}
       IN  /\ \A q \in cand[s] : r <= q
           /\ after' = [after EXCEPT ![s] = r]
           /\ lock' = [lock EXCEPT ![r] = IF Lockable(s, r) \/ @ = Free THEN s ELSE @]
           /\ elock' = [elock EXCEPT ![r] = IF Lockable(s, r) THEN s ELSE @]
           /\ batch' = [batch EXCEPT ![s] = took]
           /\ cand' = [cand EXCEPT ![s] = rest]
           /\ pc' = [pc EXCEPT ![s] = IF full THEN "clock"
                                      ELSE IF rest = {} THEN "window" ELSE "lock"]
  /\ reply' = "none"
  /\ UNCHANGED <<tables, call, opTime, view, due>>

\* database_time, read once every candidate is locked.
ClaimClock(s) == now

\* prepare_batch validates every locked row at the operation time and counts its
\* attempt before anything is written.
PrepareClaim(s) ==
  /\ pc[s] = "clock"
  /\ IF \E r \in batch[s] : ~Eligible(delivery[r], ClaimClock(s))
       THEN End(s, "Serialization")
     ELSE IF \E r \in batch[s] : delivery[r].attempts = MaxAttempts
       THEN End(s, "CounterOverflow")
     ELSE /\ opTime' = [opTime EXCEPT ![s] = ClaimClock(s)]
          /\ pc' = [pc EXCEPT ![s] = "persist"]
          /\ reply' = "none"
          /\ UNCHANGED <<lock, elock, call, claiming>>
  /\ UNCHANGED tables

\* Tokens are drawn for the whole batch, persist_batch updates every row, and
\* the transaction commits.
CommitClaim(s) ==
  /\ pc[s] = "persist"
  /\ \E token \in [batch[s] -> Tokens] :
       /\ \A r \in batch[s] : token[r] \notin issued[r]
       /\ \A r1, r2 \in batch[s] : r1 # r2 => token[r1] # token[r2]
       /\ delivery' = [r \in Rows |->
            IF r \in batch[s]
              THEN ClaimedRow(delivery[r], token[r], opTime[s] + call[s].arg)
              ELSE delivery[r]]
       /\ issued' = [r \in Rows |-> IF r \in batch[s] THEN issued[r] \union {token[r]}
                                                      ELSE issued[r]]
  /\ End(s, "Claimed")
  /\ UNCHANGED now

-------------------------------------------------------------------------------
(* mutate                                                                  *)

\* The transaction begins and its conditional UPDATE starts.
BeginMutation(s, scope, kind, r, token, arg) ==
  /\ pc[s] = "idle"
  /\ pc' = [pc EXCEPT ![s] = "execute"]
  /\ call' = [call EXCEPT ![s] = [op |-> kind, scope |-> scope, row |-> r,
                                  token |-> token, arg |-> arg, limit |-> 0]]
  /\ opTime' = [opTime EXCEPT ![s] = now]
  /\ reply' = "none"
  /\ UNCHANGED <<tables, lock, elock, claiming>>

\* The repeated UPDATE starts under the lock.
StatementStart(s) == IF pc[s] = "execute" THEN opTime[s] ELSE now

\* Mutation of CanLock: the statement does not wait for the row.
CanLockAnyway(s, r) == TRUE

\* An UPDATE or a FOR UPDATE waits until no other transaction holds the record.
CanLock(s, r) == lock[r] \in {Free, s}

\* Mutation of Matches: the statement forgets its tenant filter.
MatchesAllTenants(s, t) == Fenced(delivery[call[s].row], call[s].token, t)

Matches(s, t) ==
  InScope(call[s].scope, call[s].row) /\ Fenced(delivery[call[s].row], call[s].token, t)

\* execute_mutation_fast: the record is locked, then the latest version meets
\* the predicate or not.  A second miss is an SQL protocol error.
ExecuteMutation(s) ==
  LET r == call[s].row
      t == StatementStart(s)
  IN  /\ pc[s] \in {"execute", "reexecute"}
      /\ CanLock(s, r)
      /\ IF pc[s] = "reexecute" /\ ~Matches(s, t)
           THEN End(s, "MutationNoop")
           ELSE /\ lock' = [lock EXCEPT ![r] = s]
                /\ opTime' = [opTime EXCEPT ![s] = t]
                /\ pc' = [pc EXCEPT ![s] = IF Matches(s, t) THEN "commit" ELSE "classify"]
                /\ reply' = "none"
                /\ UNCHANGED <<elock, call, claiming>>
      /\ UNCHANGED tables

\* The FOR UPDATE read, the clock read after it, and classify_delivery.
Verdict(s) ==
  LET d == delivery[call[s].row]
  IN  IF ~InScope(call[s].scope, call[s].row)    THEN "NotFound"
      ELSE IF d.state # "claimed"                THEN "IllegalTransition"
      ELSE IF Fenced(d, call[s].token, now)      THEN "Ok"
      ELSE "LostClaim"

\* Only a row that turns out to be fenced is updated once more.
ClassifyMutation(s) ==
  /\ pc[s] = "classify"
  /\ IF Verdict(s) = "Ok"
       THEN /\ pc' = [pc EXCEPT ![s] = "reexecute"]
            /\ reply' = "none"
            /\ UNCHANGED <<lock, elock, call, opTime, claiming>>
       ELSE End(s, Verdict(s))
  /\ UNCHANGED tables

CommitMutation(s) ==
  LET r == call[s].row
  IN  /\ pc[s] = "commit"
      /\ delivery' = [delivery EXCEPT ![r] =
                        MutatedRow(call[s].op, @, opTime[s], call[s].arg)]
      /\ End(s, "Mutated")
      /\ UNCHANGED <<now, issued>>

-------------------------------------------------------------------------------
(* finalize_for_scope, in a transaction its caller commits or rolls back.  *)

BeginFinalize(s, r) ==
  /\ pc[s] = "idle"
  /\ pc' = [pc EXCEPT ![s] = "event"]
  /\ call' = [call EXCEPT ![s] = [NoCall EXCEPT !.op = "finalize", !.row = r,
                                                !.scope = TenantOf[r]]]
  /\ reply' = "none"
  /\ UNCHANGED <<tables, lock, elock, opTime, claiming>>

\* The event row is locked first.
LockEvent(s) ==
  LET r == call[s].row
  IN  /\ pc[s] = "event"
      /\ IF delivery[r].state = "absent"
           THEN End(s, "NotFound")
           ELSE /\ elock[r] = Free
                /\ elock' = [elock EXCEPT ![r] = s]
                /\ pc' = [pc EXCEPT ![s] = "delivery"]
                /\ reply' = "none"
                /\ UNCHANGED <<lock, call, opTime, claiming>>
      /\ UNCHANGED tables

\* Then the delivery row, which is inspected under both locks.
LockDelivery(s) ==
  LET r == call[s].row
  IN  /\ pc[s] = "delivery"
      /\ CanLock(s, r)
      /\ lock' = [lock EXCEPT ![r] = s]
      /\ pc' = [pc EXCEPT ![s] = IF CanonicalPending(delivery[r]) THEN "finalize" ELSE "refused"]
      /\ reply' = "none"
      /\ UNCHANGED <<tables, elock, call, opTime, claiming>>

CommitFinalize(s) ==
  LET r == call[s].row
  IN  /\ pc[s] = "finalize"
      /\ delivery' = [delivery EXCEPT ![r] = FinalizedRow(@)]
      /\ End(s, "Finalized")
      /\ UNCHANGED <<now, issued>>

\* A canonical delivered row is AlreadyFinalized if the caller's delivered_at is
\* the stored one, which this model does not keep.
EndRefused(s) ==
  LET d == delivery[call[s].row]
  IN  /\ pc[s] = "refused"
      /\ \/ End(s, "StateConflict")
         \/ d.state = "delivered" /\ Canonical(d) /\ End(s, "AlreadyFinalized")
      /\ UNCHANGED tables

\* A statement fails (lock wait timeout, deadlock victim, lost connection), the
\* entropy source does, or the caller gives up: the transaction rolls back.
Abort(s) ==
  /\ pc[s] \in Steps
  /\ End(s, "Error")
  /\ UNCHANGED tables

-------------------------------------------------------------------------------
Begin(s) ==
  \/ \E scope \in Scopes, lease \in Leases, limit \in Limits :
       BeginClaim(s, scope, lease, limit)
  \/ \E scope \in Scopes, kind \in Kinds, r \in Rows :
       \E token \in issued[r], arg \in MutationArgs(kind) :
         BeginMutation(s, scope, kind, r, token, arg)
  \/ \E r \in Rows : BeginFinalize(s, r)

\* A started call runs on by itself.
Continue(s) ==
  \/ ReadWindow(s) \/ LockCandidate(s) \/ PrepareClaim(s) \/ CommitClaim(s)
  \/ ExecuteMutation(s) \/ ClassifyMutation(s) \/ CommitMutation(s)
  \/ LockEvent(s) \/ LockDelivery(s) \/ CommitFinalize(s) \/ EndRefused(s)

Next ==
  \/ Tick
  \/ \E r \in Rows : Insert(r)
  \/ \E s \in Sessions : Begin(s) \/ Continue(s) \/ Abort(s)

Spec == Init /\ [][Next]_vars

\* The runtime polls a started call until it ends, the database serves the
\* waiters of a record lock in turn, and a finalising caller ends its transaction.
Fairness ==
  \A s \in Sessions : /\ WF_vars(Continue(s))
                      /\ SF_vars(ExecuteMutation(s))
                      /\ SF_vars(LockEvent(s))
                      /\ SF_vars(LockDelivery(s))

FairSpec == Spec /\ Fairness

-------------------------------------------------------------------------------
(* Properties.                                                             *)

Call == [op : MutationKind \union {"none", "claim", "finalize"}, scope : Tenants \union {Admin},
         row : Rows \union {0}, token : Tokens \union {NoToken}, arg : Nat, limit : Nat]

\* Every variable keeps its type; the rows satisfy the columns' types.
TypeOK ==
  /\ now \in 0..MaxTime
  /\ delivery \in [Rows -> DeliveryRow]
  /\ issued \in [Rows -> SUBSET Tokens]
  /\ lock \in [Rows -> Sessions \union {Free}]
  /\ elock \in [Rows -> Sessions \union {Free}]
  /\ pc \in [Sessions -> Steps \union {"idle"}]
  /\ call \in [Sessions -> Call]
  /\ opTime \in [Sessions -> 0..MaxTime]
  /\ view \in [Sessions -> [Rows -> DeliveryRow]]
  /\ due \in [Sessions -> SUBSET Rows]
  /\ after \in [Sessions -> Rows \union {0}]
  /\ cand \in [Sessions -> SUBSET Rows]
  /\ batch \in [Sessions -> SUBSET Rows]
  /\ reply \in Replies

Fencing == INSTANCE DeliveryFencing
             WITH now <- now, delivery <- delivery, issued <- issued

\* Whatever the interleaving of read views, record locks and clock readings,
\* every committed claim, mutation and finalisation is one atomic step of
\* DeliveryFencing at its operation time.
FencingRefined == Fencing!Spec

\* What a caller gets from the fence: no live lease is taken over, no row is
\* claimed before its delay has passed, and terminal rows are final.
FencedChanges == Fencing!FencedChanges

ScopedWritesStep ==
  \A r \in Rows :
    delivery[r].state # "absent" /\ delivery'[r] # delivery[r]
      => /\ lock[r] \in Sessions
         /\ InScope(call[lock[r]].scope, r)
         /\ pc[lock[r]] \in {"persist", "commit", "finalize"}
         /\ pc'[lock[r]] = "idle"
         /\ reply' \in {"Claimed", "Mutated", "Finalized"}

\* An existing row changes only in the commit of the session that holds its
\* record lock, and only if that session's tenant scope covers the row.
ScopedWrites == [][ScopedWritesStep]_vars

\* A row locked as a candidate never fails its validation at the operation time,
\* and the protocol error of mutate ("locked claimed delivery did not satisfy
\* mutation") is never returned: its repeated UPDATE is not even reached.
NoSpuriousError ==
  /\ reply \notin {"Serialization", "MutationNoop"}
  /\ \A s \in Sessions : pc[s] # "reexecute"

WholeSearchStep ==
  \A s \in Sessions :
    /\ pc[s] \in {"window", "persist"} /\ pc'[s] = "idle" /\ reply' = "Claimed"
    /\ Cardinality(batch[s]) < call[s].limit
    => \A r \in due[s] : r <= after[s]

\* A claim returns fewer rows than its limit only after it has visited every row
\* that was due when it began: rows that others hold, or have taken in the
\* meantime, do not use up its window.
WholeSearch == [][WholeSearchStep]_vars

\* Every started call ends.  A finalisation locks the event before the delivery
\* and a claim the other way round, but a claim never waits.
CallsEnd == \A s \in Sessions : pc[s] \in Steps ~> pc[s] = "idle"

\* What a claim under way may rely on: its candidates are in scope, and the rows
\* it has locked stay eligible, at its operation time too once it has one.
ClaimInv(s) ==
  LET c == call[s]
  IN  /\ pc[s] \in {"first", "window", "lock", "clock", "persist"} =>
           c.scope \in Scopes /\ c.arg \in Leases /\ c.limit \in Limits
      /\ pc[s] = "lock" => cand[s] # {}
      /\ \A q \in cand[s] : pc[s] = "lock" /\ InScope(c.scope, q)
      /\ \A q \in batch[s] : /\ pc[s] \in {"lock", "window", "clock", "persist"}
                             /\ lock[q] = s
                             /\ InScope(c.scope, q)
                             /\ Eligible(delivery[q], now)
      /\ pc[s] \in {"clock", "persist"} => batch[s] # {}
      /\ pc[s] = "persist" =>
           \A q \in batch[s] : /\ Eligible(delivery[q], opTime[s])
                               /\ delivery[q].attempts < MaxAttempts

\* What a mutation under way may rely on: after its UPDATE it holds the row, which
\* matches or not as the UPDATE found it.
MutationInv(s) ==
  LET c == call[s]
      r == c.row
  IN  /\ pc[s] # "reexecute"
      /\ pc[s] \in {"execute", "classify", "commit"} =>
           /\ c.op \in Kinds /\ c.scope \in Scopes /\ r \in Rows
           /\ c.token \in issued[r] /\ c.arg \in MutationArgs(c.op)
      /\ pc[s] \in {"classify", "commit"} => lock[r] = s
      /\ pc[s] = "classify" => ~Matches(s, opTime[s])
      /\ pc[s] = "commit" => Matches(s, opTime[s])

\* What a finalisation under way may rely on.
FinalizeInv(s) ==
  LET c == call[s]
      r == c.row
  IN  /\ pc[s] \in {"event", "delivery", "finalize", "refused"} =>
           r \in Rows /\ InScope(c.scope, r)
      /\ pc[s] \in {"finalize", "refused"} => lock[r] = s
      /\ pc[s] = "finalize" => CanonicalPending(delivery[r])

SessionInv(s) ==
  opTime[s] <= now /\ ClaimInv(s) /\ MutationInv(s) /\ FinalizeInv(s)

\* The inductive invariant: rows satisfy RowInv and sessions SessionInv.  The
\* refinement rests on it.
IInv ==
  /\ TypeOK
  /\ reply \notin {"Serialization", "MutationNoop"}
  /\ \A r \in Rows : RowInv(delivery[r], issued[r], 0, now)
  /\ \A s \in Sessions : SessionInv(s)

Searched(s) ==
  /\ pc[s] \in {"window", "lock"} =>
       \A r \in due[s] : InScope(call[s].scope, r) /\ Eligible(view[s][r], now)
  /\ pc[s] = "lock" =>
       /\ \A q \in cand[s] : q > after[s]
       /\ \A r \in due[s] : r > after[s] => r \in cand[s] \/ \A q \in cand[s] : q < r
  /\ pc[s] \in {"clock", "persist"} =>
       \/ Cardinality(batch[s]) = call[s].limit
       \/ \A r \in due[s] : r <= after[s]

\* Where a search stands: the rows that were due when it began are still due in
\* its read view, those it has not visited come after the visited ones and are in
\* its window or behind it, and it stops only with a full batch or behind them all.
SearchInv == \A s \in Sessions : Searched(s)
===============================================================================
