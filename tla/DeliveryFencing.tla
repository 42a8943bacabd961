---------------------------- MODULE DeliveryFencing ----------------------------
(***************************************************************************)
(* The part of the delivery contract that rests on the fence alone.        *)
(*                                                                         *)
(* It differs from DeliveryLifecycle in one thing: a mutation is made at   *)
(* any instant t, no later than the clock, at which the stored claim was   *)
(* still fenced.  Nothing says that the clock was read after the row was   *)
(* held, so a mutation that waited for the row may count from before the   *)
(* wait.  MySQL keeps only this contract; it is enough for exclusive       *)
(* leases, honoured delays, final terminal states and exact attempt        *)
(* counts, and not enough for operation times that never run backwards.    *)
(***************************************************************************)
EXTENDS Delivery

VARIABLES
  now,       \* the database clock
  delivery,  \* the committed delivery rows
  issued     \* history: tokens ever stored on each row

vars == <<now, delivery, issued>>

Init ==
  /\ now = 0
  /\ delivery = [r \in Rows |-> AbsentRow]
  /\ issued = [r \in Rows |-> {}]

Tick ==
  /\ now < MaxTime
  /\ now' = now + 1
  /\ UNCHANGED <<delivery, issued>>

\* A committed enqueue or import.
Insert(r, row) ==
  /\ delivery[r].state = "absent"
  /\ delivery' = [delivery EXCEPT ![r] = row]
  /\ UNCHANGED <<now, issued>>

InsertSome ==
  \E r \in Rows, t \in 0..now, skew \in 0..ImportSkew :
    \E row \in {EnqueuedRow(t + skew), ImportedDelivered(t + skew)} : Insert(r, row)

\* A committed claim of the batch S at t.
Claim(scope, S, token, t, lease) ==
  /\ \A r \in S : /\ InScope(scope, r)
                  /\ Eligible(delivery[r], t)
                  /\ delivery[r].attempts < MaxAttempts
                  /\ token[r] \notin issued[r]
  /\ \A r1, r2 \in S : r1 # r2 => token[r1] # token[r2]
  /\ delivery' = [r \in Rows |-> IF r \in S
                                   THEN ClaimedRow(delivery[r], token[r], t + lease)
                                   ELSE delivery[r]]
  /\ issued' = [r \in Rows |-> IF r \in S THEN issued[r] \union {token[r]}
                                          ELSE issued[r]]
  /\ UNCHANGED now

ClaimSome ==
  \E scope \in Scopes, S \in (SUBSET Rows) \ {{}}, t \in 0..now, lease \in Leases :
    \E token \in [S -> Tokens] : Claim(scope, S, token, t, lease)

\* A committed renew, ack, retry, release or quarantine.
Mutate(scope, kind, r, token, t, arg) ==
  /\ InScope(scope, r)
  /\ Fenced(delivery[r], token, t)
  /\ delivery' = [delivery EXCEPT ![r] = MutatedRow(kind, @, t, arg)]
  /\ UNCHANGED <<now, issued>>

MutateSome ==
  \E scope \in Scopes, kind \in Kinds, r \in Rows, t \in 0..now :
    \E token \in issued[r], arg \in MutationArgs(kind) :
      Mutate(scope, kind, r, token, t, arg)

\* A committed migration finalisation.
Finalize(r) ==
  /\ CanonicalPending(delivery[r])
  /\ delivery' = [delivery EXCEPT ![r] = FinalizedRow(@)]
  /\ UNCHANGED <<now, issued>>

Next ==
  \/ Tick
  \/ InsertSome
  \/ ClaimSome
  \/ MutateSome
  \/ \E r \in Rows : Finalize(r)

Spec == Init /\ [][Next]_vars

--------------------------------------------------------------------------------
(* Properties.                                                             *)

\* Every row satisfies the shape constraint of the table, its attempts counter
\* is the number of claims ever committed on it, and a claimed row carries a
\* token issued for it.
FencingInv ==
  /\ now \in 0..MaxTime
  /\ delivery = [r \in Rows |-> delivery[r]]
  /\ issued = [r \in Rows |-> issued[r]]
  /\ \A r \in Rows : RowInv(delivery[r], issued[r], 0, now)

FencedChangesStep ==
  \A r \in Rows :
    /\ Terminal(delivery[r]) => delivery'[r] = delivery[r]
    /\ delivery[r].state = "pending" /\ delivery'[r].state = "claimed"
         => delivery[r].available_at <= now
    /\ /\ delivery[r].state = "claimed"
       /\ delivery'[r].claim_token \notin {NoToken, delivery[r].claim_token}
       => delivery[r].claim_expires_at <= now

\* What the fence alone guarantees: a token is replaced only after its lease has
\* run out, a pending row is claimed only after its delay, and terminal rows are
\* final, even if a mutation is judged by a clock read before it held the row.
FencedChanges == [][FencedChangesStep]_vars
================================================================================
