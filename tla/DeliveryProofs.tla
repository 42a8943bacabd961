---------------------------- MODULE DeliveryProofs ----------------------------
(***************************************************************************)
(* What the operators of Delivery return: the lemmas the proofs about the  *)
(* lifecycle modules rest on.  RowInv, the part of every inductive         *)
(* invariant that speaks of a single row, is preserved by each of them.    *)
(***************************************************************************)
EXTENDS Delivery, FiniteSetTheorems, TLAPS

\* A row that was never inserted satisfies the row invariant at every clock.
LEMMA AbsentRowInv ==
  ASSUME NEW clock \in Nat
  PROVE  RowInv(AbsentRow, {}, 0, clock)
<1>1. AbsentRow \in DeliveryRow
  BY DeliveryAssumption DEF AbsentRow, DeliveryRow, DeliveryState, NullTime
<1>2. StateShape(AbsentRow) /\ AbsentRow.attempts = 0 /\ AbsentRow.state = "absent"
  BY DEF AbsentRow, StateShape
<1>3. QED
  BY <1>1, <1>2, FS_EmptySet DEF RowInv

\* The clock moving on disturbs no row.
LEMMA RowInvTick ==
  ASSUME NEW d, NEW toks, NEW last, NEW clock \in Nat, NEW later \in Nat,
         clock <= later, RowInv(d, toks, last, clock)
  PROVE  RowInv(d, toks, last, later)
BY DEF RowInv

\* A row written by enqueue or by an import satisfies the row invariant.
LEMMA InsertedRowInv ==
  ASSUME NEW clock \in Nat, NEW t \in 0..clock, NEW a \in Nat, t <= a,
         NEW d \in {EnqueuedRow(a), ImportedDelivered(a)}
  PROVE  RowInv(d, {}, t, clock)
<1>1. AbsentRow \in DeliveryRow
  BY AbsentRowInv DEF RowInv
<1>2. EnqueuedRow(a) \in DeliveryRow /\ ImportedDelivered(a) \in DeliveryRow
  <2>1. EnqueuedRow(a) \in DeliveryRow
    BY <1>1 DEF EnqueuedRow, DeliveryRow, DeliveryState, NullTime
  <2>2. ImportedDelivered(a) \in DeliveryRow
    BY <1>1 DEF ImportedDelivered, DeliveryRow, DeliveryState, NullTime
  <2>3. QED
    BY <2>1, <2>2
<1>3. /\ d.state \in {"pending", "delivered"} /\ d.attempts = 0
      /\ d.enqueued_at = a /\ d.available_at = a
      /\ d.claim_token = NoToken /\ d.claim_expires_at = NullTime
  BY DEF EnqueuedRow, ImportedDelivered, AbsentRow
<1>4. QED
  BY <1>2, <1>3, FS_EmptySet DEF RowInv, StateShape, NullTime

\* A claim of an eligible row under a token never stored on it keeps the row
\* invariant, and its operation time is no earlier than the last change.
LEMMA ClaimedRowInv ==
  ASSUME NEW clock \in Nat, NEW d, NEW toks, NEW last, RowInv(d, toks, last, clock),
         NEW t \in 0..clock, NEW lease \in Leases, NEW token \in Tokens,
         Eligible(d, t), d.attempts < MaxAttempts, token \notin toks
  PROVE  /\ RowInv(ClaimedRow(d, token, t + lease), toks \union {token}, t, clock)
         /\ last <= t
<1> DEFINE e == ClaimedRow(d, token, t + lease)
<1>1. /\ IsFiniteSet(toks \union {token})
      /\ Cardinality(toks \union {token}) = Cardinality(toks) + 1
  BY FS_AddElement DEF RowInv
<1>2. last <= t
  BY DEF RowInv, Eligible, DeliveryRow, NullTime
<1>3. t + lease \in Nat /\ t < t + lease
  BY DeliveryAssumption
<1>4. /\ e.state = "claimed" /\ e.attempts = d.attempts + 1
      /\ e.enqueued_at = d.enqueued_at /\ e.available_at = d.available_at
      /\ e.claim_token = token /\ e.claim_expires_at = t + lease
  BY DEF RowInv, ClaimedRow, DeliveryRow
<1>5. d.attempts + 1 \in 0..MaxAttempts
  BY DeliveryAssumption DEF RowInv, DeliveryRow
<1>6. e \in DeliveryRow
  BY <1>3, <1>5 DEF RowInv, ClaimedRow, DeliveryRow, DeliveryState
<1>7. StateShape(e)
  BY <1>3, <1>4, DeliveryAssumption DEF RowInv, StateShape, Eligible, NullTime
<1>8. QED
  BY <1>1, <1>2, <1>3, <1>4, <1>6, <1>7 DEF RowInv

\* A fenced mutation whose operation time is no earlier than the last change
\* keeps the row invariant.
LEMMA MutatedRowInv ==
  ASSUME NEW clock \in Nat, NEW d, NEW toks, NEW last, RowInv(d, toks, last, clock),
         NEW t \in 0..clock, last <= t, NEW token, Fenced(d, token, t),
         NEW kind \in MutationKind, NEW arg \in MutationArgs(kind)
  PROVE  RowInv(MutatedRow(kind, d, t, arg), toks, t, clock)
<1> DEFINE e == MutatedRow(kind, d, t, arg)
<1>1. d \in DeliveryRow /\ d.state = "claimed"
  BY DEF RowInv, Fenced
<1>2. CASE kind = "renew"
  <2>1. t + arg \in Nat /\ t < t + arg
    BY <1>2, DeliveryAssumption DEF MutationArgs
  <2>2. e = [d EXCEPT !.claim_expires_at = t + arg]
    BY <1>2 DEF MutatedRow
  <2>3. e \in DeliveryRow
    BY <1>1, <2>1, <2>2 DEF DeliveryRow
  <2>4. /\ e.state = d.state /\ e.attempts = d.attempts
        /\ e.claim_token = d.claim_token /\ e.claim_expires_at = t + arg
        /\ e.enqueued_at = d.enqueued_at /\ e.available_at = d.available_at
    BY <1>1, <2>2 DEF DeliveryRow
  <2>5. QED
    BY <1>1, <2>1, <2>3, <2>4 DEF RowInv, StateShape, NullTime
<1>3. CASE kind \in {"ack", "quarantine"}
  <2>1. PICK s \in {"delivered", "quarantined"} : e = Unclaimed(d, s)
    BY <1>3 DEF MutatedRow
  <2>2. e \in DeliveryRow
    BY <1>1, <2>1 DEF Unclaimed, DeliveryRow, DeliveryState
  <2>3. /\ e.state = s /\ e.attempts = d.attempts
        /\ e.claim_token = NoToken /\ e.claim_expires_at = NullTime
        /\ e.enqueued_at = d.enqueued_at /\ e.available_at = d.available_at
    BY <1>1, <2>1 DEF Unclaimed, DeliveryRow
  <2>4. QED
    BY <1>1, <2>2, <2>3 DEF RowInv, StateShape
<1>4. CASE kind \in {"retry", "release"}
  <2>1. t + arg \in Nat /\ t <= t + arg
    BY <1>4, DeliveryAssumption DEF MutationArgs
  <2> DEFINE u == Unclaimed(d, "pending")
  <2>2. u \in DeliveryRow
    BY <1>1 DEF Unclaimed, DeliveryRow, DeliveryState
  <2>3. /\ u.state = "pending" /\ u.attempts = d.attempts
        /\ u.claim_token = NoToken /\ u.claim_expires_at = NullTime
        /\ u.enqueued_at = d.enqueued_at
    BY <1>1 DEF Unclaimed, DeliveryRow
  <2> HIDE DEF u
  <2>4. \/ e = [u EXCEPT !.available_at = t + arg]
        \/ e = [u EXCEPT !.available_at = t + arg, !.last_failure = "recorded"]
    BY <1>4 DEF MutatedRow, u
  <2>5. /\ e.state = u.state /\ e.attempts = u.attempts
        /\ e.claim_token = u.claim_token /\ e.claim_expires_at = u.claim_expires_at
        /\ e.enqueued_at = u.enqueued_at /\ e.available_at = t + arg
    BY <2>2, <2>4 DEF DeliveryRow
  <2>6. e \in DeliveryRow
    BY <2>1, <2>2, <2>4 DEF DeliveryRow
  <2>7. QED
    BY <1>1, <2>1, <2>3, <2>5, <2>6 DEF RowInv, StateShape, NullTime
<1>5. QED
  BY <1>2, <1>3, <1>4 DEF MutationKind

\* Finalising a canonical pending row keeps the row invariant.
LEMMA FinalizedRowInv ==
  ASSUME NEW clock \in Nat, NEW d, NEW toks, NEW last, RowInv(d, toks, last, clock),
         CanonicalPending(d)
  PROVE  RowInv(FinalizedRow(d), toks, last, clock)
<1> DEFINE e == FinalizedRow(d)
<1>1. e \in DeliveryRow
  BY DEF RowInv, FinalizedRow, DeliveryRow, DeliveryState
<1>2. /\ e.state = "delivered" /\ e.attempts = d.attempts
      /\ e.claim_token = d.claim_token /\ e.claim_expires_at = d.claim_expires_at
      /\ e.enqueued_at = d.enqueued_at /\ e.available_at = d.available_at
  BY DEF RowInv, FinalizedRow, DeliveryRow
<1>3. QED
  BY <1>1, <1>2 DEF RowInv, StateShape, CanonicalPending

\* No operation but a claim puts a token on a row: inserted rows have none, a
\* mutation keeps or clears the stored one, a finalisation keeps it.
LEMMA TokensOfWrittenRows ==
  ASSUME NEW d \in DeliveryRow, NEW t \in Nat, NEW arg, NEW kind \in MutationKind
  PROVE  /\ MutatedRow(kind, d, t, arg).claim_token \in {NoToken, d.claim_token}
         /\ FinalizedRow(d).claim_token = d.claim_token
         /\ FinalizedRow(d).state = "delivered"
         /\ EnqueuedRow(t).claim_token = NoToken
         /\ ImportedDelivered(t).claim_token = NoToken
         /\ EnqueuedRow(t).state = "pending"
         /\ ImportedDelivered(t).state = "delivered"
<1>1. MutatedRow(kind, d, t, arg).claim_token \in {NoToken, d.claim_token}
  <2>1. CASE kind = "renew"
    BY <2>1 DEF MutatedRow, DeliveryRow
  <2>2. CASE kind \in {"ack", "quarantine"}
    BY <2>2 DEF MutatedRow, Unclaimed, DeliveryRow
  <2>3. CASE kind \in {"retry", "release"}
    BY <2>3 DEF MutatedRow, Unclaimed, DeliveryRow
  <2>4. QED
    BY <2>1, <2>2, <2>3 DEF MutationKind
<1>2. FinalizedRow(d).claim_token = d.claim_token /\ FinalizedRow(d).state = "delivered"
  BY DEF FinalizedRow, DeliveryRow
<1>3. /\ EnqueuedRow(t).claim_token = NoToken
      /\ ImportedDelivered(t).claim_token = NoToken
      /\ EnqueuedRow(t).state = "pending"
      /\ ImportedDelivered(t).state = "delivered"
  BY DEF EnqueuedRow, ImportedDelivered, AbsentRow
<1>4. QED
  BY <1>1, <1>2, <1>3
===============================================================================
