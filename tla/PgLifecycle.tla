------------------------------ MODULE PgLifecycle ------------------------------
(***************************************************************************)
(* The delivery lifecycle of the PostgreSQL adapter, statement by          *)
(* statement.  Sessions run claims, fenced mutations and migration         *)
(* finalisations as READ COMMITTED transactions over one delivery table.   *)
(*                                                                         *)
(* PostgreSQL itself is external and is modelled by what these statements  *)
(* rely on: a statement sees a snapshot of the committed rows, FOR UPDATE  *)
(* waits for the row lock and SKIP LOCKED passes a locked row by, a row    *)
(* changed since the snapshot is re-evaluated in its latest version before *)
(* it is locked or updated, and locks live until the transaction ends.     *)
(* A row is written only by the session that holds its lock, so a          *)
(* transaction's writes appear here when it commits.                       *)
(***************************************************************************)
EXTENDS Delivery

CONSTANTS
  Sessions,  \* database sessions of workers and operators
  Free,      \* an unlocked row
  Limits     \* batch limits of claim

ASSUME PgAssumption == Free \notin Sessions /\ Limits \subseteq Nat \ {0}

VARIABLES
  now, delivery, issued, lastOp,  \* as in DeliveryLifecycle
  lock,    \* the session holding each row's lock
  pc,      \* where each session's call stands
  call,    \* its arguments
  opTime,  \* the last clock value its transaction read
  snap,    \* the row version its statement snapshot shows
  cand,    \* candidate rows its claim has not visited yet
  batch,   \* candidate rows its claim has locked
  reply    \* the outcome a call returned in the last step, if one did

tables == <<now, delivery, issued, lastOp>>
vars == <<tables, lock, pc, call, opTime, snap, cand, batch, reply>>

Replies == {"none", "Claimed", "CounterOverflow", "Mutated", "NotFound",
            "IllegalTransition", "LostClaim", "MutationNoop", "Finalized",
            "AlreadyFinalized", "StateConflict", "Error"}

Steps == {"select", "lock", "execute", "classify", "reexecute", "reclassify",
          "commit", "event", "delivery", "finalize", "refused"}

NoCall == [op |-> "none", scope |-> Admin, row |-> 0, token |-> NoToken,
           arg |-> 0, limit |-> 0]

Init ==
  /\ now = 0
  /\ delivery = [r \in Rows |-> AbsentRow]
  /\ issued = [r \in Rows |-> {}]
  /\ lastOp = [r \in Rows |-> 0]
  /\ lock = [r \in Rows |-> Free]
  /\ pc = [s \in Sessions |-> "idle"]
  /\ call = [s \in Sessions |-> NoCall]
  /\ opTime = [s \in Sessions |-> 0]
  /\ snap = [s \in Sessions |-> AbsentRow]
  /\ cand = [s \in Sessions |-> {}]
  /\ batch = [s \in Sessions |-> {}]
  /\ reply = "none"

\* Mutation of End: a refused call returns its connection without a rollback.
EndWithoutRollback(s, outcome) ==
  /\ pc' = [pc EXCEPT ![s] = "idle"]
  /\ reply' = outcome
  /\ call' = [call EXCEPT ![s] = NoCall]
  /\ opTime' = [opTime EXCEPT ![s] = 0]
  /\ snap' = [snap EXCEPT ![s] = AbsentRow]
  /\ cand' = [cand EXCEPT ![s] = {}]
  /\ batch' = [batch EXCEPT ![s] = {}]
  /\ UNCHANGED lock

\* The end of a transaction, committed or rolled back: its locks are freed.
End(s, outcome) ==
  /\ pc' = [pc EXCEPT ![s] = "idle"]
  /\ reply' = outcome
  /\ lock' = [r \in Rows |-> IF lock[r] = s THEN Free ELSE lock[r]]
  /\ call' = [call EXCEPT ![s] = NoCall]
  /\ opTime' = [opTime EXCEPT ![s] = 0]
  /\ snap' = [snap EXCEPT ![s] = AbsentRow]
  /\ cand' = [cand EXCEPT ![s] = {}]
  /\ batch' = [batch EXCEPT ![s] = {}]

-------------------------------------------------------------------------------
(* The clock and the producers.                                            *)

Tick ==
  /\ now < MaxTime
  /\ now' = now + 1
  /\ reply' = "none"
  /\ UNCHANGED <<delivery, issued, lastOp, lock, pc, call, opTime, snap, cand, batch>>

\* A producer's transaction that enqueued or imported r commits; CURRENT_TIMESTAMP
\* is its start and an import reads the clock during it, so t may be past.
Insert(r, t, row) ==
  /\ delivery[r].state = "absent"
  /\ delivery' = [delivery EXCEPT ![r] = row]
  /\ lastOp' = [lastOp EXCEPT ![r] = t]
  /\ reply' = "none"
  /\ UNCHANGED <<now, issued, lock, pc, call, opTime, snap, cand, batch>>

Enqueue(r) ==
  \E t \in 0..now : Insert(r, t, EnqueuedRow(t))

\* The event was pending, or already delivered, at the legacy publisher.
Import(r) ==
  \E t \in 0..now : \E row \in {EnqueuedRow(t), ImportedDelivered(t)} : Insert(r, t, row)

-------------------------------------------------------------------------------
(* claim_with_entropy                                                      *)

\* The transaction begins and reads clock_timestamp() in a statement of its own.
BeginClaim(s, scope, lease, limit) ==
  /\ pc[s] = "idle"
  /\ pc' = [pc EXCEPT ![s] = "select"]
  /\ call' = [call EXCEPT ![s] = [NoCall EXCEPT !.op = "claim", !.scope = scope,
                                                !.arg = lease, !.limit = limit]]
  /\ opTime' = [opTime EXCEPT ![s] = now]
  /\ reply' = "none"
  /\ UNCHANGED <<tables, lock, snap, cand, batch>>

Candidates(s) ==
  {r \in Rows : InScope(call[s].scope, r) /\ Eligible(delivery[r], opTime[s])}

\* The candidate SELECT takes its snapshot.
SelectCandidates(s) ==
  /\ pc[s] = "select"
  /\ pc' = [pc EXCEPT ![s] = "lock"]
  /\ cand' = [cand EXCEPT ![s] = Candidates(s)]
  /\ reply' = "none"
  /\ UNCHANGED <<tables, lock, call, opTime, snap, batch>>

Scanning(s) == cand[s] # {} /\ Cardinality(batch[s]) < call[s].limit

\* Mutations of Lockable: the locked version is not evaluated again, or the lock
\* of another session is not respected.
LockableBySnapshot(s, r) == lock[r] = Free
LockableIgnoringLocks(s, r) == Eligible(delivery[r], opTime[s])

\* FOR UPDATE SKIP LOCKED visits the next candidate: it takes the lock if it is
\* free and the latest version of the row still satisfies the predicate.
Lockable(s, r) == lock[r] = Free /\ Eligible(delivery[r], opTime[s])

\* ORDER BY event_row_id ASC.
Oldest(r, S) == \A q \in S : r <= q

LockCandidate(s) ==
  /\ pc[s] = "lock" /\ Scanning(s)
  /\ \E r \in cand[s] :
       /\ Oldest(r, cand[s])
       /\ cand' = [cand EXCEPT ![s] = @ \ {r}]
       /\ IF Lockable(s, r)
            THEN /\ lock' = [lock EXCEPT ![r] = s]
                 /\ batch' = [batch EXCEPT ![s] = @ \union {r}]
            ELSE UNCHANGED <<lock, batch>>
  /\ reply' = "none"
  /\ UNCHANGED <<tables, pc, call, opTime, snap>>

\* Tokens are drawn for the whole batch, every row is updated, and the
\* transaction commits.  The counter must have room in every row.
CommitClaim(s) ==
  /\ pc[s] = "lock" /\ ~Scanning(s)
  /\ \A r \in batch[s] : delivery[r].attempts < MaxAttempts
  /\ \E token \in [batch[s] -> Tokens] :
       /\ \A r \in batch[s] : token[r] \notin issued[r]
       /\ \A r1, r2 \in batch[s] : r1 # r2 => token[r1] # token[r2]
       /\ delivery' = [r \in Rows |->
            IF r \in batch[s]
              THEN ClaimedRow(delivery[r], token[r], opTime[s] + call[s].arg)
              ELSE delivery[r]]
       /\ issued' = [r \in Rows |-> IF r \in batch[s] THEN issued[r] \union {token[r]}
                                                      ELSE issued[r]]
  /\ lastOp' = [r \in Rows |-> IF r \in batch[s] THEN opTime[s] ELSE lastOp[r]]
  /\ End(s, "Claimed")
  /\ UNCHANGED now

\* One full counter fails the whole batch; nothing has been written yet.
OverflowClaim(s) ==
  /\ pc[s] = "lock" /\ ~Scanning(s)
  /\ \E r \in batch[s] : delivery[r].attempts = MaxAttempts
  /\ End(s, "CounterOverflow")
  /\ UNCHANGED tables

-------------------------------------------------------------------------------
(* mutate                                                                  *)

\* The transaction begins and its conditional UPDATE takes a snapshot.
BeginMutation(s, scope, kind, r, token, arg) ==
  /\ pc[s] = "idle"
  /\ pc' = [pc EXCEPT ![s] = "execute"]
  /\ call' = [call EXCEPT ![s] = [op |-> kind, scope |-> scope, row |-> r,
                                  token |-> token, arg |-> arg, limit |-> 0]]
  /\ snap' = [snap EXCEPT ![s] = delivery[r]]
  /\ reply' = "none"
  /\ UNCHANGED <<tables, lock, opTime, cand, batch>>

\* Mutation of Visible: the statement forgets its tenant filter.
VisibleToAllTenants(s, row) == row.state # "absent"

\* The row a statement of s can see and lock.
Visible(s, row) == row.state # "absent" /\ InScope(call[s].scope, call[s].row)

\* FOR UPDATE waits until no other transaction holds the row.
CanLock(s, r) == lock[r] \in {Free, s}

\* The operation CTE: clock_timestamp() is read once the row is locked.
MutationClock(s) == now

\* Mutation of Satisfied: the latest version of the row is not looked at.
SatisfiedBySnapshot(s, seen, t) == Fenced(seen, call[s].token, t)

\* The UPDATE finds the row in the version its statement snapshot has seen and,
\* where the row has changed since, evaluates its predicate again on the latest.
Satisfied(s, seen, t) ==
  /\ Fenced(seen, call[s].token, t)
  /\ Fenced(delivery[call[s].row], call[s].token, t)

ExecuteMutation(s) ==
  LET r == call[s].row
      t == MutationClock(s)
  IN  /\ pc[s] = "execute"
      /\ IF Visible(s, snap[s])
           THEN /\ CanLock(s, r)
                /\ lock' = [lock EXCEPT ![r] = s]
                /\ opTime' = [opTime EXCEPT ![s] = t]
                /\ pc' = [pc EXCEPT ![s] = IF Satisfied(s, snap[s], t) THEN "commit" ELSE "classify"]
           ELSE /\ pc' = [pc EXCEPT ![s] = "classify"]
                /\ UNCHANGED <<lock, opTime>>
      /\ reply' = "none"
      /\ UNCHANGED <<tables, call, snap, cand, batch>>

\* Mutation of Verdict: a missed UPDATE is classified by the version it has seen.
VerdictBySnapshot(s) ==
  LET d == snap[s]
  IN  IF ~Visible(s, d)                          THEN "NotFound"
      ELSE IF d.state # "claimed"                THEN "IllegalTransition"
      ELSE IF Fenced(d, call[s].token, now)      THEN "Ok"
      ELSE "LostClaim"

\* lock_delivery and classify_delivery: the latest version of the row at a fresh
\* clock reading.
Verdict(s) ==
  LET d == delivery[call[s].row]
  IN  IF ~Visible(s, d)                          THEN "NotFound"
      ELSE IF d.state # "claimed"                THEN "IllegalTransition"
      ELSE IF Fenced(d, call[s].token, now)      THEN "Ok"
      ELSE "LostClaim"

ClassifyMutation(s) ==
  LET r == call[s].row
  IN  /\ pc[s] = "classify"
      /\ Visible(s, delivery[r]) => CanLock(s, r)
      /\ IF Verdict(s) = "Ok"
           THEN /\ lock' = [lock EXCEPT ![r] = s]
                /\ pc' = [pc EXCEPT ![s] = "reexecute"]
                /\ reply' = "none"
                /\ UNCHANGED <<call, opTime, snap, cand, batch>>
           ELSE End(s, Verdict(s))
      /\ UNCHANGED tables

\* READ COMMITTED: every statement sees the rows committed before it began.
RetrySnapshot(s) == delivery[call[s].row]

\* The retry inside the lock: a new statement, snapshot and clock reading.
ReexecuteMutation(s) ==
  LET seen == RetrySnapshot(s)
      t    == MutationClock(s)
  IN  /\ pc[s] = "reexecute"
      /\ opTime' = [opTime EXCEPT ![s] = t]
      /\ snap' = [snap EXCEPT ![s] = seen]
      /\ pc' = [pc EXCEPT ![s] = IF Satisfied(s, seen, t) THEN "commit" ELSE "reclassify"]
      /\ reply' = "none"
      /\ UNCHANGED <<tables, lock, call, cand, batch>>

\* A row that still satisfies the fence makes the second failure an SQL error.
ReclassifyMutation(s) ==
  /\ pc[s] = "reclassify"
  /\ End(s, IF Verdict(s) = "Ok" THEN "MutationNoop" ELSE Verdict(s))
  /\ UNCHANGED tables

CommitMutation(s) ==
  LET r == call[s].row
  IN  /\ pc[s] = "commit"
      /\ delivery' = [delivery EXCEPT ![r] =
                        MutatedRow(call[s].op, @, opTime[s], call[s].arg)]
      /\ lastOp' = [lastOp EXCEPT ![r] = opTime[s]]
      /\ End(s, "Mutated")
      /\ UNCHANGED <<now, issued>>

-------------------------------------------------------------------------------
(* finalize_for_scope, in a transaction its caller commits or rolls back.  *)

BeginFinalize(s, r) ==
  /\ pc[s] = "idle"
  /\ pc' = [pc EXCEPT ![s] = "event"]
  /\ call' = [call EXCEPT ![s] = [NoCall EXCEPT !.op = "finalize", !.row = r,
                                                !.scope = TenantOf[r]]]
  /\ reply' = "none"
  /\ UNCHANGED <<tables, lock, opTime, snap, cand, batch>>

\* Only finalisers lock event rows.
HoldsEvent(s, r) ==
  /\ call[s].op = "finalize" /\ call[s].row = r
  /\ pc[s] \in {"delivery", "finalize"} \/ (pc[s] = "refused" /\ snap[s].state # "absent")

\* The event row is locked first; without it nothing is.
LockEvent(s) ==
  LET r == call[s].row
  IN  /\ pc[s] = "event"
      /\ \A u \in Sessions : ~HoldsEvent(u, r)
      /\ pc' = [pc EXCEPT ![s] = IF delivery[r].state = "absent" THEN "refused" ELSE "delivery"]
      /\ reply' = "none"
      /\ UNCHANGED <<tables, lock, call, opTime, snap, cand, batch>>

\* Then the delivery row, which is inspected under both locks.  Only the canonical
\* pending row is updated; a refusal, or the answer that the row was finalised
\* before, still holds the locks until the caller's transaction ends.
LockDelivery(s) ==
  LET r == call[s].row
  IN  /\ pc[s] = "delivery"
      /\ CanLock(s, r)
      /\ lock' = [lock EXCEPT ![r] = s]
      /\ snap' = [snap EXCEPT ![s] = delivery[r]]
      /\ pc' = [pc EXCEPT ![s] = IF CanonicalPending(delivery[r]) THEN "finalize" ELSE "refused"]
      /\ reply' = "none"
      /\ UNCHANGED <<tables, call, opTime, cand, batch>>

CommitFinalize(s) ==
  LET r == call[s].row
  IN  /\ pc[s] = "finalize"
      /\ delivery' = [delivery EXCEPT ![r] = FinalizedRow(@)]
      /\ End(s, "Finalized")
      /\ UNCHANGED <<now, issued, lastOp>>

\* A canonical delivered row is AlreadyFinalized if the caller's delivered_at is
\* the stored one, which this model does not keep.
EndRefused(s) ==
  /\ pc[s] = "refused"
  /\ \/ snap[s].state = "absent" /\ End(s, "NotFound")
     \/ snap[s].state # "absent" /\ End(s, "StateConflict")
     \/ /\ snap[s].state = "delivered" /\ Canonical(snap[s])
        /\ End(s, "AlreadyFinalized")
  /\ UNCHANGED tables

\* A statement, the entropy source, the connection or the caller fails and the
\* transaction rolls back.
Abort(s) ==
  /\ pc[s] \in Steps
  /\ End(s, "Error")
  /\ UNCHANGED tables

-------------------------------------------------------------------------------
Begin(s) ==
  \/ \E scope \in Scopes, lease \in Leases, limit \in Limits :
       BeginClaim(s, scope, lease, limit)
  \/ \E scope \in Scopes, kind \in Kinds, r \in Rows :
       \E token \in issued[r], arg \in MutationArgs(kind) :
         BeginMutation(s, scope, kind, r, token, arg)
  \/ \E r \in Rows : BeginFinalize(s, r)

\* A started call runs on by itself.
Continue(s) ==
  \/ SelectCandidates(s) \/ LockCandidate(s) \/ CommitClaim(s) \/ OverflowClaim(s)
  \/ ExecuteMutation(s) \/ ClassifyMutation(s) \/ ReexecuteMutation(s)
  \/ ReclassifyMutation(s) \/ CommitMutation(s)
  \/ LockEvent(s) \/ LockDelivery(s) \/ CommitFinalize(s) \/ EndRefused(s)

Next ==
  \/ Tick
  \/ \E r \in Rows : Enqueue(r) \/ Import(r)
  \/ \E s \in Sessions : Begin(s) \/ Continue(s) \/ Abort(s)

Spec == Init /\ [][Next]_vars

\* The statements that wait for a row lock.
AwaitLock(s) == ExecuteMutation(s) \/ ClassifyMutation(s) \/ LockEvent(s) \/ LockDelivery(s)

\* The runtime polls a started call until it ends, the database serves the
\* waiters of a row lock in turn, and a finalising caller ends its transaction.
Fairness == \A s \in Sessions : WF_vars(Continue(s)) /\ SF_vars(AwaitLock(s))

FairSpec == Spec /\ Fairness

-------------------------------------------------------------------------------
(* Properties.                                                             *)

Call == [op : MutationKind \union {"none", "claim", "finalize"}, scope : Tenants \union {Admin},
         row : Rows \union {0}, token : Tokens \union {NoToken}, arg : Nat, limit : Nat]

\* Every variable keeps its type; the rows satisfy the columns' types.
TypeOK ==
  /\ now \in 0..MaxTime
  /\ delivery \in [Rows -> DeliveryRow]
  /\ issued \in [Rows -> SUBSET Tokens]
  /\ lastOp \in [Rows -> Nat]
  /\ lock \in [Rows -> Sessions \union {Free}]
  /\ pc \in [Sessions -> Steps \union {"idle"}]
  /\ call \in [Sessions -> Call]
  /\ opTime \in [Sessions -> 0..MaxTime]
  /\ snap \in [Sessions -> DeliveryRow]
  /\ cand \in [Sessions -> SUBSET Rows]
  /\ batch \in [Sessions -> SUBSET Rows]
  /\ reply \in Replies

Lifecycle == INSTANCE DeliveryLifecycle

\* Whatever the interleaving of snapshots, locks and clock readings, every
\* committed claim, mutation and finalisation is one atomic step of
\* DeliveryLifecycle at its operation time.
LifecycleRefined == Lifecycle!Spec

ScopedWritesStep ==
  \A r \in Rows :
    delivery[r].state # "absent" /\ delivery'[r] # delivery[r]
      => /\ lock[r] \in Sessions
         /\ InScope(call[lock[r]].scope, r)
         /\ pc[lock[r]] \in {"lock", "commit", "finalize"}
         /\ pc'[lock[r]] = "idle"
         /\ reply' \in {"Claimed", "Mutated", "Finalized"}

\* An existing row changes only in the commit of the session that holds its
\* row lock, and only if that session's tenant scope covers the row.
ScopedWrites == [][ScopedWritesStep]_vars

HonestRefusalStep ==
  \A s \in Sessions :
    /\ pc[s] \in Steps \ {"refused"} /\ pc'[s] = "idle"
    /\ reply' \in {"LostClaim", "IllegalTransition", "NotFound"}
    => ~(/\ InScope(call[s].scope, call[s].row)
         /\ Fenced(delivery[call[s].row], call[s].token, now))

\* A caller is told LostClaim, IllegalTransition or NotFound only when its
\* token has no authority over the row at that moment: a conditional UPDATE that
\* missed because its snapshot was older than a concurrent renewal is no refusal.
HonestRefusal == [][HonestRefusalStep]_vars

\* The error of a locked row that satisfies the fence and yet was not updated
\* ("locked claimed delivery did not satisfy mutation") is never returned.
NoMutationNoop == reply # "MutationNoop"

\* Every started call ends: nobody waits for ever on a row lock.
CallsEnd == \A s \in Sessions : pc[s] \in Steps ~> pc[s] = "idle"

\* What a session in the middle of a call may rely on: the rows it has locked
\* are as it found them, and the operation time it read is not in the future.
SessionInv(s) ==
  LET c == call[s]
      r == c.row
  IN  /\ opTime[s] <= now
      /\ pc[s] \in {"select", "lock"} => c.scope \in Scopes /\ c.arg \in Leases
      /\ \A q \in cand[s] : pc[s] = "lock" /\ InScope(c.scope, q)
      /\ \A q \in batch[s] : /\ pc[s] = "lock"
                             /\ lock[q] = s
                             /\ InScope(c.scope, q)
                             /\ Eligible(delivery[q], opTime[s])
      /\ pc[s] \in {"execute", "classify", "reexecute", "reclassify", "commit"} =>
           /\ c.op \in Kinds /\ c.scope \in Scopes /\ r \in Rows
           /\ c.token \in issued[r] /\ c.arg \in MutationArgs(c.op)
      /\ pc[s] \in {"reexecute", "reclassify", "commit"} =>
           lock[r] = s /\ InScope(c.scope, r)
      /\ pc[s] = "reclassify" => ~Fenced(delivery[r], c.token, now)
      /\ pc[s] = "commit" => /\ Fenced(delivery[r], c.token, opTime[s])
                             /\ lastOp[r] <= opTime[s]
      /\ pc[s] \in {"event", "delivery", "finalize"} => r \in Rows /\ InScope(c.scope, r)
      /\ pc[s] = "finalize" => lock[r] = s /\ CanonicalPending(delivery[r])

\* The inductive invariant: rows satisfy RowInv and sessions SessionInv.  The
\* refinement rests on it.
IInv ==
  /\ TypeOK
  /\ \A r \in Rows : RowInv(delivery[r], issued[r], lastOp[r], now)
  /\ \A s \in Sessions : SessionInv(s)
================================================================================
