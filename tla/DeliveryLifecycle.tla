--------------------------- MODULE DeliveryLifecycle ---------------------------
(***************************************************************************)
(* What every adapter promises about the delivery table, one atomic step   *)
(* per committed operation.                                                *)
(*                                                                         *)
(* An operation carries its operation time t: the database instant at      *)
(* which it evaluated its predicate.  A transaction commits later than it  *)
(* reads the clock, so t is at most the clock at the step.  A fenced       *)
(* mutation reads the clock after it holds the row, so its t is no earlier *)
(* than the operation time of the row's last change.  A claim promises no  *)
(* such thing, because PostgreSQL reads the clock before it locks a        *)
(* candidate; that operation times still never run backwards is a theorem. *)
(*                                                                         *)
(* issued and lastOp are history variables.  issued[r] are the tokens ever *)
(* stored on row r.  Randomness is the external assumption that a drawn    *)
(* token was never stored on that row before (fresh_token itself compares  *)
(* only with the stored token and with the batch).  Any caller may present *)
(* any token ever issued, current or stale: a claimant that crashed, or    *)
(* whose reply was lost, is one that never presents its token.             *)
(***************************************************************************)
EXTENDS Delivery

VARIABLES
  now,       \* the database clock
  delivery,  \* the committed delivery rows
  issued,    \* history: tokens ever stored on each row
  lastOp     \* history: operation time of the last change of each row

vars == <<now, delivery, issued, lastOp>>

Init ==
  /\ now = 0
  /\ delivery = [r \in Rows |-> AbsentRow]
  /\ issued = [r \in Rows |-> {}]
  /\ lastOp = [r \in Rows |-> 0]

Tick ==
  /\ now < MaxTime
  /\ now' = now + 1
  /\ UNCHANGED <<delivery, issued, lastOp>>

\* A committed enqueue or import made at t.
Insert(r, t, row) ==
  /\ delivery[r].state = "absent"
  /\ delivery' = [delivery EXCEPT ![r] = row]
  /\ lastOp' = [lastOp EXCEPT ![r] = t]
  /\ UNCHANGED <<now, issued>>

Enqueue(r) ==
  \E t \in 0..now : Insert(r, t, EnqueuedRow(t))

Import(r) ==
  \E t \in 0..now, skew \in 0..ImportSkew :
    \E row \in {EnqueuedRow(t + skew), ImportedDelivered(t + skew)} : Insert(r, t, row)

\* A committed claim of the non-empty batch S, all at one operation time.
Claim(scope, S, token, t, lease) ==
  /\ \A r \in S : /\ InScope(scope, r)
                  /\ Eligible(delivery[r], t)
                  /\ delivery[r].attempts < MaxAttempts
                  /\ token[r] \notin issued[r]
  /\ \A r1, r2 \in S : r1 # r2 => token[r1] # token[r2]
  /\ delivery' = [r \in Rows |-> IF r \in S
                                   THEN ClaimedRow(delivery[r], token[r], t + lease)
                                   ELSE delivery[r]]
  /\ issued' = [r \in Rows |-> IF r \in S THEN issued[r] \union {token[r]}
                                          ELSE issued[r]]
  /\ lastOp' = [r \in Rows |-> IF r \in S THEN t ELSE lastOp[r]]
  /\ UNCHANGED now

ClaimSome ==
  \E scope \in Scopes, S \in (SUBSET Rows) \ {{}}, t \in 0..now, lease \in Leases :
    \E token \in [S -> Tokens] : Claim(scope, S, token, t, lease)

\* Mutation of Mutate: the token is compared, the expiry is not.
MutateExpired(scope, kind, r, token, t, arg) ==
  /\ InScope(scope, r)
  /\ lastOp[r] <= t
  /\ delivery[r].state = "claimed" /\ delivery[r].claim_token = token
  /\ delivery' = [delivery EXCEPT ![r] = MutatedRow(kind, @, t, arg)]
  /\ lastOp' = [lastOp EXCEPT ![r] = t]
  /\ UNCHANGED <<now, issued>>

\* A committed renew, ack, retry, release or quarantine.
Mutate(scope, kind, r, token, t, arg) ==
  /\ InScope(scope, r)
  /\ lastOp[r] <= t
  /\ Fenced(delivery[r], token, t)
  /\ delivery' = [delivery EXCEPT ![r] = MutatedRow(kind, @, t, arg)]
  /\ lastOp' = [lastOp EXCEPT ![r] = t]
  /\ UNCHANGED <<now, issued>>

MutateSome ==
  \E scope \in Scopes, kind \in Kinds, r \in Rows, t \in 0..now :
    \E token \in issued[r], arg \in MutationArgs(kind) :
      Mutate(scope, kind, r, token, t, arg)

\* A committed migration finalisation; it evaluates no clock.
Finalize(r) ==
  /\ CanonicalPending(delivery[r])
  /\ delivery' = [delivery EXCEPT ![r] = FinalizedRow(@)]
  /\ UNCHANGED <<now, issued, lastOp>>

Next ==
  \/ Tick
  \/ \E r \in Rows : Enqueue(r)
  \/ \E r \in Rows : Import(r)
  \/ ClaimSome
  \/ MutateSome
  \/ \E r \in Rows : Finalize(r)

Spec == Init /\ [][Next]_vars

--------------------------------------------------------------------------------
(* Properties.                                                             *)

\* Every column keeps its type and every committed row satisfies the shape
\* constraint of the table; a claimed row carries a token issued for it.
TypeOK ==
  /\ now \in 0..MaxTime
  /\ delivery \in [Rows -> DeliveryRow]
  /\ issued \in [Rows -> SUBSET Tokens]
  /\ lastOp \in [Rows -> Nat]
  /\ \A r \in Rows : StateShape(delivery[r])

\* The attempts counter of a row is exactly the number of claims committed on
\* it: no claim is lost, none is counted twice and nothing else touches the
\* counter (claim increments it; retry, release and renew leave it alone).
AttemptsCountClaims ==
  \A r \in Rows : /\ IsFiniteSet(issued[r])
                  /\ delivery[r].attempts = Cardinality(issued[r])

\* The operation times of the committed changes of one row never run backwards,
\* although a claim evaluates its clock before it holds the row.
OpTimesMonotone ==
  [][\A r \in Rows : lastOp[r] <= lastOp'[r]]_vars

LeaseHonouredStep ==
  \A r \in Rows :
    /\ delivery[r].state = "claimed"
    /\ delivery'[r].claim_token \notin {NoToken, delivery[r].claim_token}
    => delivery[r].claim_expires_at <= now

\* A claim token is replaced by another one only after the lease it was given
\* has run out by the database clock: no two claimants hold one row at once.
LeaseHonoured == [][LeaseHonouredStep]_vars

DelayHonouredStep ==
  \A r \in Rows :
    delivery[r].state = "pending" /\ delivery'[r].state = "claimed"
      => delivery[r].available_at <= now

\* A row is claimed only once its back-off or release delay has passed.
DelayHonoured == [][DelayHonouredStep]_vars

TerminalStableStep ==
  \A r \in Rows : Terminal(delivery[r]) => delivery'[r] = delivery[r]

\* Delivered and quarantined rows are final: no claim, late mutation or
\* finalisation changes anything in them.
TerminalStable == [][TerminalStableStep]_vars

\* What a worker may rely on: its live lease is its own, a delay it asked for is
\* kept, and what is delivered or quarantined stays so.
PromisesKept == LeaseHonoured /\ DelayHonoured /\ TerminalStable

\* The strengthening that makes the properties above inductive: every row
\* satisfies RowInv, by which the time from which a row can next be claimed is
\* never earlier than its last change.
IInv ==
  /\ TypeOK
  /\ \A r \in Rows : RowInv(delivery[r], issued[r], lastOp[r], now)

Fencing == INSTANCE DeliveryFencing

\* The contract of the PostgreSQL and SQLite adapters includes the weaker one of
\* the MySQL adapter: what a caller may rely on with every adapter is what
\* DeliveryFencing says.
FencingRefined == Fencing!Spec
================================================================================
