---------------------------- MODULE SqliteLifecycle ----------------------------
(***************************************************************************)
(* The delivery lifecycle of the SQLite adapter.  Every operation runs     *)
(* under SQLite's single writer reservation (BEGIN IMMEDIATE) and reads    *)
(* the clock once it has it.  Claims and mutations own their transaction   *)
(* and are retried whole when SQLite reports busy; enqueue, import and     *)
(* finalize run in a write transaction the caller began with begin_write   *)
(* and commits itself.                                                     *)
(*                                                                         *)
(* SQLite itself is external: one connection holds the reservation, the    *)
(* busy handler waits at most the configured timeout for it, and, with a   *)
(* rollback journal, COMMIT waits in the same way for the readers that     *)
(* hold a snapshot.  A transaction's writes appear when it commits.        *)
(***************************************************************************)
EXTENDS Delivery

CONSTANTS
  Sessions,  \* connections of workers, operators and producers
  Free,      \* nobody holds the writer reservation
  Readers,   \* snapshot pagers; none if the database is in WAL mode
  Limits,    \* batch limits of claim
  Timeout,   \* BusyConfig::timeout, in clock ticks
  Retries    \* BusyConfig::retries

ASSUME SqliteAssumption ==
  /\ Free \notin Sessions
  /\ Limits \subseteq Nat \ {0}
  /\ Timeout \in Nat
  /\ Retries \in Nat

VARIABLES
  now, delivery, issued, lastOp,  \* as in DeliveryLifecycle
  writer,   \* the session holding the writer reservation
  reading,  \* the pagers with an open snapshot
  pc,       \* where each session's call stands
  call,     \* its arguments
  opTime,   \* the clock value its transaction read
  batch,    \* the candidates its claim has selected
  tries,    \* busy retries its call has made
  left,     \* ticks until its busy handler gives up
  waited,   \* history: ticks its call has spent blocked
  reply     \* the outcome a call returned in the last step, if one did

tables == <<now, delivery, issued, lastOp>>
vars == <<tables, writer, reading, pc, call, opTime, batch, tries, left, waited, reply>>

CallerOps == {"enqueue", "import", "finalize"}

NoCall == [op |-> "none", scope |-> Admin, row |-> 0, token |-> NoToken,
           arg |-> 0, limit |-> 0]

Init ==
  /\ now = 0
  /\ delivery = [r \in Rows |-> AbsentRow]
  /\ issued = [r \in Rows |-> {}]
  /\ lastOp = [r \in Rows |-> 0]
  /\ writer = Free
  /\ reading = {}
  /\ pc = [s \in Sessions |-> "idle"]
  /\ call = [s \in Sessions |-> NoCall]
  /\ opTime = [s \in Sessions |-> 0]
  /\ batch = [s \in Sessions |-> {}]
  /\ tries = [s \in Sessions |-> 0]
  /\ left = [s \in Sessions |-> 0]
  /\ waited = [s \in Sessions |-> 0]
  /\ reply = "none"

\* The call returns; its transaction, if it has one, is over.
End(s, outcome) ==
  /\ pc' = [pc EXCEPT ![s] = "idle"]
  /\ writer' = IF writer = s THEN Free ELSE writer
  /\ call' = [call EXCEPT ![s] = NoCall]
  /\ opTime' = [opTime EXCEPT ![s] = 0]
  /\ batch' = [batch EXCEPT ![s] = {}]
  /\ tries' = [tries EXCEPT ![s] = 0]
  /\ left' = [left EXCEPT ![s] = 0]
  /\ waited' = [waited EXCEPT ![s] = 0]
  /\ reply' = outcome
  /\ UNCHANGED reading

-------------------------------------------------------------------------------
(* Waiting.                                                                *)

\* A COMMIT with changes needs the database to itself; a claim that found no
\* candidates has none.
CommitBlocked(s) == reading # {} /\ ~(call[s].op = "claim" /\ batch[s] = {})

\* Somebody else stands in the way of the lock s wants.
Blocked(s) ==
  \/ pc[s] = "begin" /\ writer # Free
  \/ pc[s] = "commit" /\ CommitBlocked(s)

Waiting(s) == pc[s] \in {"begin", "commit"}

\* Time passes for the clock, up to its bound, and for every busy handler.  A
\* handler whose time is up acts before more time passes.
Tick ==
  /\ now < MaxTime \/ \E s \in Sessions : Waiting(s)
  /\ \A s \in Sessions : Waiting(s) => left[s] > 0
  /\ now' = IF now < MaxTime THEN now + 1 ELSE now
  /\ left' = [s \in Sessions |-> IF Waiting(s) THEN left[s] - 1 ELSE left[s]]
  /\ waited' = [s \in Sessions |-> IF Blocked(s) THEN waited[s] + 1 ELSE waited[s]]
  /\ reply' = "none"
  /\ UNCHANGED <<delivery, issued, lastOp, writer, reading, pc, call, opTime, batch, tries>>

\* Mutation of BusyAgain: the retry is not counted.
BusyAgainUncounted(s) ==
  /\ pc' = [pc EXCEPT ![s] = "begin"]
  /\ writer' = IF writer = s THEN Free ELSE writer
  /\ left' = [left EXCEPT ![s] = Timeout]
  /\ opTime' = [opTime EXCEPT ![s] = 0]
  /\ batch' = [batch EXCEPT ![s] = {}]
  /\ reply' = "none"
  /\ UNCHANGED <<reading, call, tries, waited>>

\* The retry loops: the attempt has been rolled back; the whole operation starts
\* again, or busy exhaustion is returned.
BusyAgain(s) ==
  IF tries[s] < Retries
    THEN /\ tries' = [tries EXCEPT ![s] = @ + 1]
         /\ pc' = [pc EXCEPT ![s] = "begin"]
         /\ writer' = IF writer = s THEN Free ELSE writer
         /\ left' = [left EXCEPT ![s] = Timeout]
         /\ opTime' = [opTime EXCEPT ![s] = 0]
         /\ batch' = [batch EXCEPT ![s] = {}]
         /\ reply' = "none"
         /\ UNCHANGED <<reading, call, waited>>
    ELSE End(s, "BusyExhausted")

-------------------------------------------------------------------------------
(* Beginning a call.                                                       *)

Start(s, c) ==
  /\ pc[s] = "idle"
  /\ pc' = [pc EXCEPT ![s] = "begin"]
  /\ call' = [call EXCEPT ![s] = c]
  /\ left' = [left EXCEPT ![s] = Timeout]
  /\ reply' = "none"
  /\ UNCHANGED <<tables, writer, reading, opTime, batch, tries, waited>>

StartClaim(s) ==
  \E scope \in Scopes, lease \in Leases, limit \in Limits :
    Start(s, [NoCall EXCEPT !.op = "claim", !.scope = scope, !.arg = lease, !.limit = limit])

StartMutation(s) ==
  \E scope \in Scopes, kind \in Kinds, r \in Rows :
    \E token \in issued[r], arg \in MutationArgs(kind) :
      Start(s, [op |-> kind, scope |-> scope, row |-> r, token |-> token,
                arg |-> arg, limit |-> 0])

\* begin_write, for a caller that will enqueue, import or finalise row r.
StartWrite(s) ==
  \E op \in CallerOps, r \in Rows :
    Start(s, [NoCall EXCEPT !.op = op, !.row = r, !.scope = TenantOf[r]])

\* Mutation of BeginImmediate: a deferred BEGIN waits for nobody.
BeginDeferred(s) ==
  /\ pc[s] = "begin"
  /\ writer' = s
  /\ pc' = [pc EXCEPT ![s] = IF call[s].op \in CallerOps THEN "caller" ELSE "clock"]
  /\ reply' = "none"
  /\ UNCHANGED <<tables, reading, call, opTime, batch, tries, left, waited>>

BeginImmediate(s) ==
  /\ pc[s] = "begin" /\ writer = Free
  /\ writer' = s
  /\ pc' = [pc EXCEPT ![s] = IF call[s].op \in CallerOps THEN "caller" ELSE "clock"]
  /\ reply' = "none"
  /\ UNCHANGED <<tables, reading, call, opTime, batch, tries, left, waited>>

\* BEGIN IMMEDIATE returns SQLITE_BUSY.
BeginBusy(s) ==
  /\ pc[s] = "begin" /\ writer # Free /\ left[s] = 0
  /\ BusyAgain(s)
  /\ UNCHANGED tables

\* database_time, read once the reservation is held.
OperationTime(s) == now

ReadClock(s) ==
  /\ pc[s] = "clock"
  /\ opTime' = [opTime EXCEPT ![s] = OperationTime(s)]
  /\ pc' = [pc EXCEPT ![s] = "work"]
  /\ reply' = "none"
  /\ UNCHANGED <<tables, writer, reading, call, batch, tries, left, waited>>

\* The transaction has made its changes and goes on to COMMIT.
ToCommit(s) ==
  /\ pc' = [pc EXCEPT ![s] = "commit"]
  /\ left' = [left EXCEPT ![s] = Timeout]
  /\ reply' = "none"

-------------------------------------------------------------------------------
(* claim_once and mutate_once, under the reservation.                      *)

\* Mutation of Candidates: the tenant predicate is missing.
CandidatesOfAllTenants(s) ==
  LET E == {r \in Rows : Eligible(delivery[r], opTime[s])}
  IN  {r \in E : Cardinality({q \in E : q < r}) < call[s].limit}

\* Mutation of Candidates: no ORDER BY, the newest rows are returned.
CandidatesNewest(s) ==
  LET E == {r \in Rows : InScope(call[s].scope, r) /\ Eligible(delivery[r], opTime[s])}
  IN  {r \in E : Cardinality({q \in E : q > r}) < call[s].limit}

\* ORDER BY event_row_id ASC LIMIT ?.
Candidates(s) ==
  LET E == {r \in Rows : InScope(call[s].scope, r) /\ Eligible(delivery[r], opTime[s])}
  IN  {r \in E : Cardinality({q \in E : q < r}) < call[s].limit}

\* One full counter fails the whole batch.
ExecuteClaim(s) ==
  /\ pc[s] = "work" /\ call[s].op = "claim"
  /\ IF \E r \in Candidates(s) : delivery[r].attempts = MaxAttempts
       THEN End(s, "CounterOverflow")
       ELSE /\ batch' = [batch EXCEPT ![s] = Candidates(s)]
            /\ ToCommit(s)
            /\ UNCHANGED <<writer, reading, call, opTime, tries, waited>>
  /\ UNCHANGED tables

\* The classification sees the row the conditional UPDATE saw, at the same time.
Verdict(s) ==
  LET r == call[s].row
  IN  IF delivery[r].state = "absent" \/ ~InScope(call[s].scope, r) THEN "NotFound"
      ELSE IF delivery[r].state # "claimed"                       THEN "IllegalTransition"
      ELSE IF Fenced(delivery[r], call[s].token, opTime[s])       THEN "Ok"
      ELSE "LostClaim"

ExecuteMutation(s) ==
  /\ pc[s] = "work" /\ call[s].op \in Kinds
  /\ IF Verdict(s) = "Ok"
       THEN ToCommit(s) /\ UNCHANGED <<writer, reading, call, opTime, batch, tries, waited>>
       ELSE End(s, Verdict(s))
  /\ UNCHANGED tables

-------------------------------------------------------------------------------
(* enqueue, import and finalize in the caller's write transaction.         *)

\* What a caller is told whose row cannot be written as asked.  A canonical
\* delivered row is AlreadyFinalized if the caller's delivered_at is the stored
\* one, which this model does not keep.
Refusals(op, d) ==
  IF op # "finalize"         THEN {"AlreadyStored"}
  ELSE IF d.state = "absent" THEN {"NotFound"}
  ELSE {"StateConflict"} \union
       {a \in {"AlreadyFinalized"} : d.state = "delivered" /\ Canonical(d)}

\* The caller invokes the operation some time after begin_write.  Refused, it
\* rolls back; otherwise the change is made and its transaction stays open.
CallerWork(s) ==
  LET d == delivery[call[s].row]
      writes == IF call[s].op = "finalize" THEN CanonicalPending(d) ELSE d.state = "absent"
  IN  /\ pc[s] = "caller"
      /\ \/ /\ writes
            /\ opTime' = [opTime EXCEPT ![s] = OperationTime(s)]
            /\ pc' = [pc EXCEPT ![s] = "written"]
            /\ reply' = "none"
            /\ UNCHANGED <<writer, reading, call, batch, tries, left, waited>>
         \/ ~writes /\ \E a \in Refusals(call[s].op, d) : End(s, a)
      /\ UNCHANGED tables

CallerCommit(s) ==
  /\ pc[s] = "written"
  /\ ToCommit(s)
  /\ UNCHANGED <<tables, writer, reading, call, opTime, batch, tries, waited>>

-------------------------------------------------------------------------------
(* COMMIT.                                                                 *)

CommitClaim(s) ==
  /\ pc[s] = "commit" /\ call[s].op = "claim" /\ ~CommitBlocked(s)
  /\ \E token \in [batch[s] -> Tokens] :
       /\ \A r \in batch[s] : token[r] \notin issued[r]
       /\ \A r1, r2 \in batch[s] : r1 # r2 => token[r1] # token[r2]
       /\ delivery' = [r \in Rows |->
            IF r \in batch[s]
              THEN ClaimedRow(delivery[r], token[r], opTime[s] + call[s].arg)
              ELSE delivery[r]]
       /\ issued' = [r \in Rows |-> IF r \in batch[s] THEN issued[r] \union {token[r]}
                                                      ELSE issued[r]]
  /\ lastOp' = [r \in Rows |-> IF r \in batch[s] THEN opTime[s] ELSE lastOp[r]]
  /\ End(s, "Claimed")
  /\ UNCHANGED now

CommitMutation(s) ==
  LET r == call[s].row
  IN  /\ pc[s] = "commit" /\ call[s].op \in Kinds /\ ~CommitBlocked(s)
      /\ delivery' = [delivery EXCEPT ![r] =
                        MutatedRow(call[s].op, @, opTime[s], call[s].arg)]
      /\ lastOp' = [lastOp EXCEPT ![r] = opTime[s]]
      /\ End(s, "Mutated")
      /\ UNCHANGED <<now, issued>>

\* An import is of a pending or of a delivered event.  It writes its time in RFC
\* 3339 without trailing zeros, a text that the comparison with a later time in
\* the column's own format can still find greater.
CommitWrite(s) ==
  LET r == call[s].row
      t == opTime[s]
  IN  /\ pc[s] = "commit" /\ call[s].op \in CallerOps /\ ~CommitBlocked(s)
      /\ CASE call[s].op = "finalize" ->
                /\ delivery' = [delivery EXCEPT ![r] = FinalizedRow(@)]
                /\ UNCHANGED lastOp
           [] call[s].op = "enqueue" ->
                /\ delivery' = [delivery EXCEPT ![r] = EnqueuedRow(t)]
                /\ lastOp' = [lastOp EXCEPT ![r] = t]
           [] call[s].op = "import" ->
                /\ \E skew \in 0..ImportSkew :
                     \E row \in {EnqueuedRow(t + skew), ImportedDelivered(t + skew)} :
                       delivery' = [delivery EXCEPT ![r] = row]
                /\ lastOp' = [lastOp EXCEPT ![r] = t]
      /\ End(s, "Written")
      /\ UNCHANGED <<now, issued>>

\* COMMIT returns SQLITE_BUSY and commit_transaction rolls back.  The adapter
\* repeats its own operations; a caller's transaction is the caller's to repeat.
CommitBusy(s) ==
  /\ pc[s] = "commit" /\ CommitBlocked(s) /\ left[s] = 0
  /\ IF call[s].op \in CallerOps THEN End(s, "Error") ELSE BusyAgain(s)
  /\ UNCHANGED tables

\* Any other failure, or a caller that changes its mind: the transaction rolls back.
Abort(s) ==
  /\ pc[s] # "idle"
  /\ End(s, "Error")
  /\ UNCHANGED tables

-------------------------------------------------------------------------------
(* Snapshot pagers.                                                        *)

\* A COMMIT that is waiting lets no new reader in.
OpenSnapshot(p) ==
  /\ p \notin reading
  /\ \A s \in Sessions : ~(pc[s] = "commit" /\ left[s] < Timeout)
  /\ reading' = reading \union {p}
  /\ reply' = "none"
  /\ UNCHANGED <<tables, writer, pc, call, opTime, batch, tries, left, waited>>

CloseSnapshot(p) ==
  /\ p \in reading
  /\ reading' = reading \ {p}
  /\ reply' = "none"
  /\ UNCHANGED <<tables, writer, pc, call, opTime, batch, tries, left, waited>>

-------------------------------------------------------------------------------
\* The adapter's own steps, which need nobody's consent.
Continue(s) ==
  \/ BeginImmediate(s) \/ BeginBusy(s) \/ ReadClock(s)
  \/ ExecuteClaim(s) \/ ExecuteMutation(s)
  \/ CommitClaim(s) \/ CommitMutation(s) \/ CommitWrite(s) \/ CommitBusy(s)

Next ==
  \/ Tick
  \/ \E s \in Sessions : StartClaim(s) \/ StartMutation(s) \/ StartWrite(s)
  \/ \E s \in Sessions : Continue(s) \/ CallerWork(s) \/ CallerCommit(s) \/ Abort(s)
  \/ \E p \in Readers : OpenSnapshot(p) \/ CloseSnapshot(p)

Spec == Init /\ [][Next]_vars

\* Time passes and the runtime polls the adapter's calls.  Nothing is assumed of
\* callers, who may keep the reservation, or of pagers, who may stay open.
Fairness ==
  /\ WF_vars(Tick)
  /\ \A s \in Sessions : WF_vars(Continue(s))

FairSpec == Spec /\ Fairness

-------------------------------------------------------------------------------
(* Properties.                                                             *)

Calls == [op : {"none", "claim"} \union CallerOps \union MutationKind,
          scope : Tenants \union {Admin}, row : Rows \union {0},
          token : Tokens \union {NoToken}, arg : Nat, limit : Nat]

\* Each variable has its type: rows satisfy the delivery table's CHECK
\* constraints, and the reservation is held exactly by the session whose
\* transaction is past BEGIN IMMEDIATE.
TypeOK ==
  /\ now \in 0..MaxTime
  /\ delivery \in [Rows -> DeliveryRow]
  /\ issued \in [Rows -> SUBSET Tokens]
  /\ lastOp \in [Rows -> 0..MaxTime]
  /\ writer \in Sessions \union {Free}
  /\ reading \subseteq Readers
  /\ pc \in [Sessions -> {"idle", "begin", "clock", "work", "caller", "written", "commit"}]
  /\ call \in [Sessions -> Calls]
  /\ opTime \in [Sessions -> 0..MaxTime]
  /\ batch \in [Sessions -> SUBSET Rows]
  /\ tries \in [Sessions -> 0..Retries]
  /\ left \in [Sessions -> 0..Timeout]
  /\ waited \in [Sessions -> Nat]
  /\ \A s \in Sessions : (writer = s) <=> (pc[s] \notin {"idle", "begin"})

Lifecycle == INSTANCE DeliveryLifecycle

\* The adapter implements the abstract lifecycle: what its transactions commit are
\* the atomic, fenced, once-claimed operations DeliveryLifecycle allows, whatever
\* the busy retries, aborted attempts and open readers around them.
LifecycleRefined == Lifecycle!Spec

ScopedWritesStep ==
  \A s \in Sessions : pc[s] # "idle" /\ pc'[s] = "idle" =>
    \A r \in Rows : delivery'[r] # delivery[r] => InScope(call[s].scope, r)

\* A tenant's call changes rows of that tenant only, whatever batch it selected.
ScopedWrites == [][ScopedWritesStep]_vars

OldestFirstStep ==
  \A s \in Sessions : pc[s] = "commit" /\ call[s].op = "claim" =>
    \A r, q \in Rows :
      /\ InScope(call[s].scope, q) /\ Eligible(delivery[q], opTime[s])
      /\ q < r /\ delivery'[r].attempts > delivery[r].attempts
      => delivery'[q].attempts > delivery[q].attempts

\* A committed claim leaves no older eligible row of its scope behind: what was the
\* head of the queue when the candidates were selected still is at the commit.
OldestFirst == [][OldestFirstStep]_vars

\* The time a transaction works with is never older than an operation already
\* committed: database_time is read under the reservation, so waiting for the
\* reservation cannot leave a stale time behind.
OpTimeFresh ==
  \A s \in Sessions : pc[s] \in {"work", "written", "commit"} =>
    \A r \in Rows : lastOp[r] <= opTime[s]

\* A call blocks at most one timeout per BEGIN IMMEDIATE and one per COMMIT, and
\* only the adapter's own operations repeat their COMMIT.
WaitBound ==
  \A s \in Sessions :
    waited[s] <= IF call[s].op \in CallerOps THEN (Retries + 2) * Timeout
                                             ELSE 2 * (Retries + 1) * Timeout

\* BusyConfig::new: "The total lock-wait budget is at most `(retries + 1) * timeout`
\* per operation."
BusyBudget ==
  \A s \in Sessions :
    call[s].op \notin CallerOps => waited[s] <= (Retries + 1) * Timeout

\* The arguments a call was started with.
CallInv(s) ==
  LET c == call[s]
  IN  \/ c.op = "claim" /\ c.scope \in Scopes /\ c.arg \in Leases
      \/ /\ c.op \in Kinds /\ c.scope \in Scopes /\ c.row \in Rows
         /\ c.token \in issued[c.row] /\ c.arg \in MutationArgs(c.op)
      \/ c.op \in CallerOps /\ c.row \in Rows /\ c.scope = TenantOf[c.row]

\* What a transaction has found stays true until its COMMIT: the candidates of a
\* claim, the fence of a mutation, the row a caller writes.
WorkInv(s) ==
  LET c == call[s]
      d == delivery[c.row]
  IN  /\ pc[s] \in {"clock", "work"} => c.op \notin CallerOps
      /\ pc[s] \in {"caller", "written"} => c.op \in CallerOps
      /\ pc[s] = "commit" /\ c.op = "claim" =>
           /\ batch[s] = Candidates(s)
           /\ \A r \in batch[s] : delivery[r].attempts < MaxAttempts
      /\ pc[s] = "commit" /\ c.op \in Kinds =>
           InScope(c.scope, c.row) /\ Fenced(d, c.token, opTime[s])
      /\ pc[s] \in {"written", "commit"} /\ c.op \in CallerOps =>
           IF c.op = "finalize" THEN CanonicalPending(d) ELSE d.state = "absent"

\* The invariant behind the refinement: rows are well formed, no working time is
\* older than a committed change, and what the one session past BEGIN IMMEDIATE
\* has read is still so.
IInv ==
  /\ TypeOK
  /\ OpTimeFresh
  /\ \A r \in Rows : RowInv(delivery[r], issued[r], lastOp[r], now)
  /\ \A s \in Sessions :
       opTime[s] <= now /\ (pc[s] # "idle" => CallInv(s) /\ WorkInv(s))

\* A claim or a mutation returns, and begin_write does, although callers may keep
\* the reservation and pagers their snapshots for ever.
CallsEnd ==
  \A s \in Sessions :
    /\ (pc[s] # "idle" /\ call[s].op \notin CallerOps) ~> pc[s] = "idle"
    /\ pc[s] = "begin" ~> pc[s] # "begin"
================================================================================
