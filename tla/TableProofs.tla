------------------------------ MODULE TableProofs ------------------------------
(***************************************************************************)
(* Proofs about the two tables as their users see them, for every set of   *)
(* rows, tenants and values and every bound.                               *)
(*                                                                         *)
(* First the delivery table as DeliveryLifecycle promises it.  Its         *)
(* inductive invariant is IInv.                                            *)
(*                                                                         *)
(* Then the event table as live readers and snapshot pagers page through   *)
(* it (Pagers).  The inductive invariant is PagersInv: what a pager        *)
(* returned lists its snapshot up to its cursor, and what a live reader    *)
(* returned lists the committed rows up to its cursor but for those that   *)
(* committed behind it.  That ORDER BY has a result at all, and that       *)
(* increasing lists of the same rows agree, are arguments by a least       *)
(* counterexample.                                                         *)
(***************************************************************************)
EXTENDS DeliveryLifecycle, DeliveryProofs, Pagers, SequenceTheorems, WellFoundedInduction

\* IInv says that every row satisfies the row invariant of DeliveryProofs.
LEMMA IInvByRow ==
  IInv <=> /\ now \in 0..MaxTime
           /\ delivery = [r \in Rows |-> delivery[r]]
           /\ issued = [r \in Rows |-> issued[r]]
           /\ lastOp = [r \in Rows |-> lastOp[r]]
           /\ \A r \in Rows : RowInv(delivery[r], issued[r], lastOp[r], now)
BY Zenon DEF IInv, TypeOK, RowInv

\* The same, of the next state.
LEMMA IInvByRowPrime ==
  IInv' <=> /\ now' \in 0..MaxTime
            /\ delivery' = [r \in Rows |-> delivery'[r]]
            /\ issued' = [r \in Rows |-> issued'[r]]
            /\ lastOp' = [r \in Rows |-> lastOp'[r]]
            /\ \A r \in Rows : RowInv(delivery'[r], issued'[r], lastOp'[r], now')
BY Zenon DEF IInv, TypeOK, RowInv

\* An empty table satisfies the invariant.
LEMMA InitIInv == Init => IInv
<1> SUFFICES ASSUME Init PROVE IInv
  BY Zenon
<1>1. \A r \in Rows : RowInv(delivery[r], issued[r], lastOp[r], now)
  BY AbsentRowInv, Zenon DEF Init
<1>2. QED
  BY <1>1, IInvByRow, DeliveryAssumption DEF Init

\* Inserting a row, claiming a batch, mutating or finalising a row, and the
\* clock, each preserve the invariant and never set an operation time back.
LEMMA NextIInv == IInv /\ [Next]_vars => IInv' /\ (\A r \in Rows : lastOp[r] <= lastOp'[r])
<1> SUFFICES ASSUME IInv, [Next]_vars
             PROVE  IInv' /\ (\A r \in Rows : lastOp[r] <= lastOp'[r])
  BY Zenon
<1> DEFINE RI(r) == RowInv(delivery[r], issued[r], lastOp[r], now)
<1>a. /\ now \in 0..MaxTime /\ now \in Nat
      /\ delivery = [r \in Rows |-> delivery[r]]
      /\ issued = [r \in Rows |-> issued[r]]
      /\ lastOp = [r \in Rows |-> lastOp[r]]
      /\ \A r \in Rows : RI(r) /\ lastOp[r] \in Nat
  BY IInvByRow, DeliveryAssumption DEF RowInv
<1> HIDE DEF RI
<1>1. CASE Tick
  <2>1. now' \in 0..MaxTime /\ now' \in Nat /\ now <= now'
    BY <1>1, <1>a, DeliveryAssumption DEF Tick
  <2>2. \A r \in Rows : RowInv(delivery[r], issued[r], lastOp[r], now')
    BY <1>a, <2>1, RowInvTick, Zenon DEF RI
  <2>3. QED
    BY <1>1, <1>a, <2>1, <2>2, IInvByRowPrime DEF Tick
<1>2. ASSUME NEW r \in Rows, NEW t \in 0..now, NEW a \in Nat, t <= a,
             NEW d \in {EnqueuedRow(a), ImportedDelivered(a)}, Insert(r, t, d)
      PROVE  IInv' /\ (\A s \in Rows : lastOp[s] <= lastOp'[s])
  <2>1. RowInv(d, {}, t, now)
    BY <1>2, <1>a, InsertedRowInv, Zenon
  <2>2. issued[r] = {} /\ lastOp[r] = 0
    BY <1>2, <1>a, FS_EmptySet, Zenon DEF RI, RowInv, Insert
  <2>3. ASSUME NEW s \in Rows
        PROVE  RowInv(delivery'[s], issued'[s], lastOp'[s], now') /\ lastOp[s] <= lastOp'[s]
    <3>1. CASE s = r
      BY <1>2, <1>a, <2>1, <2>2, <3>1 DEF Insert
    <3>2. CASE s # r
      BY <1>2, <1>a, <3>2 DEF Insert, RI
    <3>3. QED
      BY <3>1, <3>2
  <2>4. QED
    BY <1>2, <1>a, <2>3, IInvByRowPrime, Zenon DEF Insert
<1>3. ASSUME NEW scope \in Scopes, NEW S \in SUBSET Rows, NEW t \in 0..now,
             NEW lease \in Leases, NEW token \in [S -> Tokens],
             Claim(scope, S, token, t, lease)
      PROVE  IInv' /\ (\A r \in Rows : lastOp[r] <= lastOp'[r])
  <2>1. ASSUME NEW r \in Rows
        PROVE  RowInv(delivery'[r], issued'[r], lastOp'[r], now') /\ lastOp[r] <= lastOp'[r]
    <3>1. CASE r \in S
      <4>1. /\ Eligible(delivery[r], t)
            /\ delivery[r].attempts < MaxAttempts
            /\ token[r] \in Tokens /\ token[r] \notin issued[r]
        BY <1>3, <3>1, Zenon DEF Claim
      <4>2. /\ delivery'[r] = ClaimedRow(delivery[r], token[r], t + lease)
            /\ issued'[r] = issued[r] \union {token[r]}
            /\ lastOp'[r] = t /\ now' = now
        BY <1>3, <3>1, Zenon DEF Claim
      <4>3. /\ RowInv(ClaimedRow(delivery[r], token[r], t + lease),
                      issued[r] \union {token[r]}, t, now)
            /\ lastOp[r] <= t
        BY <1>a, <4>1, ClaimedRowInv DEF RI
      <4>4. QED
        BY <4>2, <4>3, Zenon
    <3>2. CASE r \notin S
      BY <1>3, <1>a, <3>2 DEF Claim, RI
    <3>3. QED
      BY <3>1, <3>2, Zenon
  <2>2. QED
    BY <1>3, <1>a, <2>1, IInvByRowPrime, Zenon DEF Claim
<1>4. ASSUME NEW scope \in Scopes, NEW kind \in Kinds, NEW r \in Rows,
             NEW t \in 0..now, NEW token \in issued[r], NEW arg \in MutationArgs(kind),
             Mutate(scope, kind, r, token, t, arg)
      PROVE  IInv' /\ (\A s \in Rows : lastOp[s] <= lastOp'[s])
  <2>1. RowInv(MutatedRow(kind, delivery[r], t, arg), issued[r], t, now)
    BY <1>4, <1>a, MutatedRowInv, DeliveryAssumption, Zenon DEF Mutate, RI
  <2>2. ASSUME NEW s \in Rows
        PROVE  RowInv(delivery'[s], issued'[s], lastOp'[s], now') /\ lastOp[s] <= lastOp'[s]
    <3>1. CASE s = r
      BY <1>4, <1>a, <2>1, <3>1, Zenon DEF Mutate
    <3>2. CASE s # r
      BY <1>4, <1>a, <3>2 DEF Mutate, RI
    <3>3. QED
      BY <3>1, <3>2, Zenon
  <2>3. QED
    BY <1>4, <1>a, <2>2, IInvByRowPrime, Zenon DEF Mutate
<1>5. ASSUME NEW r \in Rows, Finalize(r)
      PROVE  IInv' /\ (\A s \in Rows : lastOp[s] <= lastOp'[s])
  <2>1. RowInv(FinalizedRow(delivery[r]), issued[r], lastOp[r], now)
    BY <1>5, <1>a, FinalizedRowInv DEF Finalize, RI
  <2>2. QED
    BY <1>5, <1>a, <2>1, IInvByRowPrime DEF Finalize, RI
<1>6. CASE UNCHANGED vars
  BY <1>6, <1>a, IInvByRowPrime DEF vars, RI
<1>7. CASE \E r \in Rows : Enqueue(r) \/ Import(r)
  <2>1. PICK r \in Rows : Enqueue(r) \/ Import(r)
    BY <1>7, Zenon
  <2>2. CASE Enqueue(r)
    <3>1. PICK t \in 0..now : Insert(r, t, EnqueuedRow(t))
      BY <2>2, Zenon DEF Enqueue
    <3>2. t \in Nat /\ t <= t
      BY <1>a
    <3>3. QED
      BY <1>2, <3>1, <3>2, Zenon
  <2>3. CASE Import(r)
    <3>1. PICK t \in 0..now, skew \in 0..ImportSkew :
            \E row \in {EnqueuedRow(t + skew), ImportedDelivered(t + skew)} : Insert(r, t, row)
      BY <2>3, Zenon DEF Import
    <3>2. t + skew \in Nat /\ t <= t + skew
      BY <1>a, DeliveryAssumption
    <3>3. QED
      BY <1>2, <3>1, <3>2, Zenon
  <2>4. QED
    BY <2>1, <2>2, <2>3
<1>8. QED
  BY <1>1, <1>3, <1>4, <1>5, <1>6, <1>7, Zenon DEF Next, ClaimSome, MutateSome

\* The row invariant holds in every reachable state.
THEOREM Inductive == Spec => []IInv
<1>1. Init => IInv
  BY InitIInv, Zenon
<1>2. IInv /\ [Next]_vars => IInv'
  BY NextIInv, Zenon
<1>3. QED
  BY <1>1, <1>2, PTL DEF Spec

\* Every reachable delivery table is well typed and satisfies the table's state
\* shape constraint.
THEOREM TypeCorrect == Spec => []TypeOK
<1>1. IInv => TypeOK
  BY Zenon DEF IInv
<1>2. QED
  BY <1>1, Inductive, PTL

\* The attempts counter of a row counts the claims committed on it.
THEOREM AttemptsAreClaims == Spec => []AttemptsCountClaims
<1>1. IInv => AttemptsCountClaims
  BY Zenon DEF IInv, RowInv, AttemptsCountClaims
<1>2. QED
  BY <1>1, Inductive, PTL

\* The operation times of a row's committed changes never run backwards, even
\* though a claim does not promise to read the clock while it holds the row.
THEOREM OperationTimesMonotone == Spec => OpTimesMonotone
<1>1. IInv /\ [Next]_vars => [\A r \in Rows : lastOp[r] <= lastOp'[r]]_vars
  BY NextIInv, Zenon
<1>2. QED
  BY <1>1, Inductive, PTL DEF Spec, OpTimesMonotone

\* What no step may do to a row: only a claim replaces a token, and it takes
\* only eligible rows; a terminal row is neither eligible, nor claimed, nor
\* canonical pending, nor absent.
LEMMA StepSafe ==
  IInv /\ [Next]_vars => LeaseHonouredStep /\ DelayHonouredStep /\ TerminalStableStep
<1> SUFFICES ASSUME IInv, [Next]_vars, NEW r \in Rows
             PROVE  /\ /\ delivery[r].state = "claimed"
                       /\ delivery'[r].claim_token \notin {NoToken, delivery[r].claim_token}
                       => delivery[r].claim_expires_at <= now
                    /\ delivery[r].state = "pending" /\ delivery'[r].state = "claimed"
                       => delivery[r].available_at <= now
                    /\ Terminal(delivery[r]) => delivery'[r] = delivery[r]
  BY Zenon DEF LeaseHonouredStep, DelayHonouredStep, TerminalStableStep
<1>a. /\ now \in Nat
      /\ delivery \in [Rows -> DeliveryRow]
      /\ delivery[r] \in DeliveryRow
      /\ delivery[r].claim_expires_at \in Int /\ delivery[r].available_at \in Int
  BY DeliveryAssumption DEF IInv, TypeOK, DeliveryRow, NullTime
<1>1. CASE delivery'[r] = delivery[r]
  BY <1>1, Zenon
<1>2. CASE delivery[r].state = "absent"
  BY <1>2, Zenon DEF Terminal
<1>3. ASSUME NEW scope \in Scopes, NEW S \in SUBSET Rows, NEW t \in 0..now,
             NEW lease \in Leases, NEW token \in [S -> Tokens],
             Claim(scope, S, token, t, lease), r \in S
      PROVE  /\ delivery[r].state = "claimed" => delivery[r].claim_expires_at <= now
             /\ delivery[r].state = "pending" => delivery[r].available_at <= now
             /\ ~Terminal(delivery[r])
  <2>1. Eligible(delivery[r], t) /\ t <= now /\ t \in Nat
    BY <1>3, <1>a DEF Claim
  <2>2. QED
    BY <1>a, <2>1 DEF Eligible, Terminal
<1>4. ASSUME NEW scope \in Scopes, NEW kind \in Kinds,
             NEW t \in 0..now, NEW token \in issued[r], NEW arg \in MutationArgs(kind),
             Mutate(scope, kind, r, token, t, arg)
      PROVE  /\ delivery[r].state = "claimed"
             /\ delivery'[r].claim_token \in {NoToken, delivery[r].claim_token}
  BY <1>4, <1>a, TokensOfWrittenRows, DeliveryAssumption DEF Mutate, Fenced
<1>5. ASSUME Finalize(r)
      PROVE  /\ delivery[r].state = "pending"
             /\ delivery'[r].state = "delivered"
  BY <1>5, <1>a, Zenon DEF Finalize, CanonicalPending, FinalizedRow, DeliveryRow
<1>6. \/ delivery'[r] = delivery[r]
      \/ delivery[r].state = "absent"
      \/ Finalize(r)
      \/ \E scope \in Scopes, S \in SUBSET Rows, t \in 0..now, lease \in Leases :
           \E token \in [S -> Tokens] : Claim(scope, S, token, t, lease) /\ r \in S
      \/ \E scope \in Scopes, kind \in Kinds, t \in 0..now :
           \E token \in issued[r], arg \in MutationArgs(kind) :
             Mutate(scope, kind, r, token, t, arg)
  <2>1. CASE Tick \/ UNCHANGED vars
    BY <2>1, Zenon DEF Tick, vars
  <2>2. CASE \E s \in Rows : Enqueue(s) \/ Import(s)
    BY <2>2, <1>a, Zenon DEF Enqueue, Import, Insert
  <2>3. CASE ClaimSome
    <3>1. PICK scope \in Scopes, S \in SUBSET Rows, t \in 0..now, lease \in Leases :
            \E token \in [S -> Tokens] : Claim(scope, S, token, t, lease)
      BY <2>3, Zenon DEF ClaimSome
    <3>2. PICK token \in [S -> Tokens] : Claim(scope, S, token, t, lease)
      BY <3>1, Zenon
    <3>3. r \notin S => delivery'[r] = delivery[r]
      BY <3>2, Zenon DEF Claim
    <3>4. QED
      BY <3>2, <3>3, Zenon
  <2>4. CASE MutateSome
    <3>1. PICK scope \in Scopes, kind \in Kinds, s \in Rows, t \in 0..now :
            \E token \in issued[s], arg \in MutationArgs(kind) :
              Mutate(scope, kind, s, token, t, arg)
      BY <2>4, Zenon DEF MutateSome
    <3>2. s # r => delivery'[r] = delivery[r]
      BY <3>1, <1>a DEF Mutate
    <3>3. QED
      BY <3>1, <3>2, Zenon
  <2>5. CASE \E s \in Rows : Finalize(s)
    BY <2>5, <1>a, Zenon DEF Finalize
  <2>6. QED
    BY <2>1, <2>2, <2>3, <2>4, <2>5, Zenon DEF Next
<1>7. QED
  BY <1>1, <1>2, <1>3, <1>4, <1>5, <1>6, Zenon DEF Terminal

\* A live lease is never taken over: only an expired token is replaced.
THEOREM LeasesAreHonoured == Spec => LeaseHonoured
BY StepSafe, Inductive, PTL DEF Spec, LeaseHonoured

\* A delayed row is never claimed early.
THEOREM DelaysAreHonoured == Spec => DelayHonoured
BY StepSafe, Inductive, PTL DEF Spec, DelayHonoured

\* A delivered or quarantined row never changes again.
THEOREM TerminalRowsAreStable == Spec => TerminalStable
BY StepSafe, Inductive, PTL DEF Spec, TerminalStable

\* Everything a worker may rely on at once: nobody replaces its live lease, no row is
\* claimed before the delay of a retry or release is over, and nothing changes a
\* delivered or quarantined row.
THEOREM PromisesAreKept == Spec => PromisesKept
BY LeasesAreHonoured, DelaysAreHonoured, TerminalRowsAreStable, Zenon DEF PromisesKept

--------------------------------------------------------------------------------
(* The weaker contract, DeliveryFencing.  Its FencingInv is inductive as it *)
(* stands: without the order of operation times there is less to carry.    *)

\* A row that is in order for some last change is in order for an unknown one.
LEMMA RowInvForget ==
  ASSUME NEW d, NEW toks, NEW last \in Nat, NEW clock \in Nat, RowInv(d, toks, last, clock)
  PROVE  RowInv(d, toks, 0, clock)
BY DEF RowInv, DeliveryRow, NullTime

\* The row invariant is the same in both contracts.
LEMMA FencingRowInv ==
  ASSUME NEW d, NEW toks, NEW last, NEW clock
  PROVE  Fencing!RowInv(d, toks, last, clock) <=> RowInv(d, toks, last, clock)
<1>1. Fencing!DeliveryRow = DeliveryRow
  BY Zenon DEF Fencing!DeliveryRow, DeliveryRow, Fencing!DeliveryState, DeliveryState,
               Fencing!NullTime, NullTime
<1>2. Fencing!StateShape(d) <=> StateShape(d)
  BY Zenon DEF Fencing!StateShape, StateShape, Fencing!NullTime, NullTime
<1>3. Fencing!IsFiniteSet(toks) <=> IsFiniteSet(toks)
  BY Zenon DEF Fencing!IsFiniteSet, IsFiniteSet
<1>4. Fencing!Cardinality(toks) = Cardinality(toks)
  BY Zenon DEF Fencing!Cardinality, Cardinality, Fencing!IsFiniteSet, IsFiniteSet
<1>5. QED
  BY <1>1, <1>2, <1>3, <1>4, Zenon DEF Fencing!RowInv, RowInv

\* FencingInv in terms of the row invariant.
LEMMA FencingByRow ==
  Fencing!FencingInv <=> /\ now \in 0..MaxTime
                         /\ delivery = [r \in Rows |-> delivery[r]]
                         /\ issued = [r \in Rows |-> issued[r]]
                         /\ \A r \in Rows : RowInv(delivery[r], issued[r], 0, now)
BY FencingRowInv, Zenon DEF Fencing!FencingInv

\* The same, of the next state.
LEMMA FencingByRowPrime ==
  Fencing!FencingInv' <=> /\ now' \in 0..MaxTime
                          /\ delivery' = [r \in Rows |-> delivery'[r]]
                          /\ issued' = [r \in Rows |-> issued'[r]]
                          /\ \A r \in Rows : RowInv(delivery'[r], issued'[r], 0, now')
BY FencingRowInv, Zenon DEF Fencing!FencingInv

\* What a claim of the weaker contract does.
LEMMA FencingClaim ==
  ASSUME NEW scope, NEW S, NEW token, NEW t, NEW lease, Fencing!Claim(scope, S, token, t, lease)
  PROVE  /\ \A r \in S : /\ Eligible(delivery[r], t)
                         /\ delivery[r].attempts < MaxAttempts
                         /\ token[r] \notin issued[r]
         /\ delivery' = [r \in Rows |-> IF r \in S
                                          THEN ClaimedRow(delivery[r], token[r], t + lease)
                                          ELSE delivery[r]]
         /\ issued' = [r \in Rows |-> IF r \in S THEN issued[r] \union {token[r]}
                                                 ELSE issued[r]]
         /\ UNCHANGED now
BY Zenon DEF Fencing!Claim, Fencing!Eligible, Eligible, Fencing!ClaimedRow, ClaimedRow

\* What a mutation of the weaker contract does.
LEMMA FencingMutate ==
  ASSUME NEW scope, NEW kind, NEW r, NEW token, NEW t, NEW arg,
         Fencing!Mutate(scope, kind, r, token, t, arg)
  PROVE  /\ Fenced(delivery[r], token, t)
         /\ delivery' = [delivery EXCEPT ![r] = MutatedRow(kind, delivery[r], t, arg)]
         /\ UNCHANGED <<now, issued>>
<1>1. Fenced(delivery[r], token, t) /\ UNCHANGED <<now, issued>>
  BY Zenon DEF Fencing!Mutate, Fencing!Fenced, Fenced
<1>2. Fencing!MutatedRow(kind, delivery[r], t, arg) = MutatedRow(kind, delivery[r], t, arg)
  BY Zenon DEF Fencing!MutatedRow, MutatedRow, Fencing!Unclaimed, Unclaimed, Fencing!NullTime,
               NullTime
<1>3. QED
  BY <1>1, <1>2, Zenon DEF Fencing!Mutate

\* What a finalisation of the weaker contract does.
LEMMA FencingFinalize ==
  ASSUME NEW r, Fencing!Finalize(r)
  PROVE  /\ CanonicalPending(delivery[r])
         /\ delivery' = [delivery EXCEPT ![r] = FinalizedRow(delivery[r])]
         /\ UNCHANGED <<now, issued>>
BY Zenon DEF Fencing!Finalize, Fencing!CanonicalPending, CanonicalPending, Fencing!Canonical,
       Canonical, Fencing!NullTime, NullTime, Fencing!FinalizedRow, FinalizedRow

\* What an insertion of the weaker contract does.
LEMMA FencingInsert ==
  ASSUME Fencing!InsertSome
  PROVE  \E r \in Rows, t \in 0..now, skew \in 0..ImportSkew :
           \E row \in {EnqueuedRow(t + skew), ImportedDelivered(t + skew)} :
             Fencing!Insert(r, row)
BY Zenon DEF Fencing!InsertSome, Fencing!EnqueuedRow, EnqueuedRow, Fencing!ImportedDelivered,
       ImportedDelivered, Fencing!AbsentRow, AbsentRow, Fencing!NullTime, NullTime

\* An empty table satisfies the invariant.
LEMMA InitFencing == Fencing!Init => Fencing!FencingInv
<1> SUFFICES ASSUME Fencing!Init PROVE Fencing!FencingInv
  BY Zenon
<1>1. \A r \in Rows : RowInv(delivery[r], issued[r], 0, now)
  BY AbsentRowInv, Zenon DEF Fencing!Init, Fencing!AbsentRow, AbsentRow, Fencing!NullTime, NullTime
<1>2. QED
  BY <1>1, FencingByRow, DeliveryAssumption DEF Fencing!Init, Fencing!AbsentRow, AbsentRow, Fencing!NullTime, NullTime

\* Every step preserves the invariant: an insertion, a claimed batch, a mutation
\* judged at any past instant, a finalisation and the clock.
LEMMA NextFencing == Fencing!FencingInv /\ [Fencing!Next]_(Fencing!vars) => Fencing!FencingInv'
<1> SUFFICES ASSUME Fencing!FencingInv, [Fencing!Next]_(Fencing!vars) PROVE Fencing!FencingInv'
  BY Zenon
<1> DEFINE RI(r) == RowInv(delivery[r], issued[r], 0, now)
<1>a. /\ now \in 0..MaxTime /\ now \in Nat
      /\ delivery = [r \in Rows |-> delivery[r]]
      /\ issued = [r \in Rows |-> issued[r]]
      /\ \A r \in Rows : RI(r)
  BY FencingByRow, DeliveryAssumption
<1> HIDE DEF RI
<1>b. ASSUME now' \in 0..MaxTime,
             delivery' = [r \in Rows |-> delivery'[r]],
             issued' = [r \in Rows |-> issued'[r]],
             \A r \in Rows : RowInv(delivery'[r], issued'[r], 0, now')
      PROVE  Fencing!FencingInv'
  BY <1>b, FencingByRowPrime, Zenon
<1>1. CASE Fencing!Tick
  <2>1. now' \in 0..MaxTime /\ now' \in Nat /\ now <= now'
    BY <1>1, <1>a, DeliveryAssumption DEF Fencing!Tick
  <2>2. \A r \in Rows : RowInv(delivery[r], issued[r], 0, now')
    BY <1>a, <2>1, RowInvTick, Zenon DEF RI
  <2>3. QED
    BY <1>1, <1>a, <1>b, <2>1, <2>2, Zenon DEF Fencing!Tick
<1>2. ASSUME NEW r \in Rows, NEW t \in 0..now, NEW a \in Nat, t <= a,
             NEW d \in {EnqueuedRow(a), ImportedDelivered(a)}, Fencing!Insert(r, d)
      PROVE  Fencing!FencingInv'
  <2>1. RowInv(d, {}, 0, now)
    BY <1>2, <1>a, InsertedRowInv, RowInvForget
  <2>2. issued[r] = {}
    BY <1>2, <1>a, FS_EmptySet, Zenon DEF RI, RowInv, Fencing!Insert
  <2>3. ASSUME NEW s \in Rows
        PROVE  RowInv(delivery'[s], issued'[s], 0, now')
    <3>1. CASE s = r
      BY <1>2, <1>a, <2>1, <2>2, <3>1 DEF Fencing!Insert
    <3>2. CASE s # r
      BY <1>2, <1>a, <3>2 DEF Fencing!Insert, RI
    <3>3. QED
      BY <3>1, <3>2
  <2>4. QED
    BY <1>2, <1>a, <1>b, <2>3, Zenon DEF Fencing!Insert
<1>3. ASSUME NEW scope \in Scopes, NEW S \in SUBSET Rows, NEW t \in 0..now,
             NEW lease \in Leases, NEW token \in [S -> Tokens],
             Fencing!Claim(scope, S, token, t, lease)
      PROVE  Fencing!FencingInv'
  <2>1. ASSUME NEW r \in Rows
        PROVE  RowInv(delivery'[r], issued'[r], 0, now')
    <3>1. CASE r \in S
      <4>1. /\ Eligible(delivery[r], t)
            /\ delivery[r].attempts < MaxAttempts
            /\ token[r] \in Tokens /\ token[r] \notin issued[r]
        BY <1>3, <3>1, FencingClaim, Zenon
      <4>2. /\ delivery'[r] = ClaimedRow(delivery[r], token[r], t + lease)
            /\ issued'[r] = issued[r] \union {token[r]} /\ now' = now
        BY <1>3, <3>1, FencingClaim
      <4>3. RowInv(ClaimedRow(delivery[r], token[r], t + lease),
                   issued[r] \union {token[r]}, t, now)
        BY <1>a, <4>1, ClaimedRowInv, Zenon DEF RI
      <4>4. QED
        BY <1>a, <4>2, <4>3, RowInvForget
    <3>2. CASE r \notin S
      BY <1>3, <1>a, <3>2, FencingClaim DEF RI
    <3>3. QED
      BY <3>1, <3>2, Zenon
  <2>2. QED
    BY <1>3, <1>a, <1>b, <2>1, FencingClaim
<1>4. ASSUME NEW scope \in Scopes, NEW kind \in Kinds, NEW r \in Rows,
             NEW t \in 0..now, NEW token \in issued[r], NEW arg \in MutationArgs(kind),
             Fencing!Mutate(scope, kind, r, token, t, arg)
      PROVE  Fencing!FencingInv'
  <2>0. /\ Fenced(delivery[r], token, t)
        /\ delivery' = [delivery EXCEPT ![r] = MutatedRow(kind, delivery[r], t, arg)]
        /\ UNCHANGED <<now, issued>>
    BY <1>4, FencingMutate, Zenon
  <2>1. RowInv(MutatedRow(kind, delivery[r], t, arg), issued[r], t, now)
    BY <2>0, <1>a, MutatedRowInv, DeliveryAssumption DEF RI
  <2>2. RowInv(MutatedRow(kind, delivery[r], t, arg), issued[r], 0, now)
    BY <1>a, <2>1, RowInvForget
  <2>3. ASSUME NEW s \in Rows
        PROVE  RowInv(delivery'[s], issued'[s], 0, now')
    <3>1. CASE s = r
      BY <2>0, <1>a, <2>2, <3>1, Zenon
    <3>2. CASE s # r
      BY <2>0, <1>a, <3>2 DEF RI
    <3>3. QED
      BY <3>1, <3>2, Zenon
  <2>4. QED
    BY <1>4, <1>a, <1>b, <2>3, FencingMutate, Zenon
<1>5. ASSUME NEW r \in Rows, Fencing!Finalize(r)
      PROVE  Fencing!FencingInv'
  <2>1. RowInv(FinalizedRow(delivery[r]), issued[r], 0, now)
    BY <1>5, <1>a, FinalizedRowInv, FencingFinalize, Zenon DEF RI
  <2>2. \A s \in Rows : RowInv(delivery'[s], issued'[s], 0, now')
    BY <1>5, <1>a, <2>1, FencingFinalize, Zenon DEF RI
  <2>3. QED
    BY <1>5, <1>a, <1>b, <2>2, FencingFinalize, Zenon
<1>6. CASE UNCHANGED Fencing!vars
  BY <1>6, <1>a, <1>b DEF Fencing!vars, RI
<1>7. CASE Fencing!InsertSome
  <2>1. PICK r \in Rows, t \in 0..now, skew \in 0..ImportSkew :
          \E row \in {EnqueuedRow(t + skew), ImportedDelivered(t + skew)} : Fencing!Insert(r, row)
    BY <1>7, FencingInsert
  <2>2. t + skew \in Nat /\ t <= t + skew
    BY <1>a, DeliveryAssumption
  <2>3. QED
    BY <1>2, <2>1, <2>2, Zenon
<1>8. QED
  BY <1>1, <1>3, <1>4, <1>5, <1>6, <1>7, Zenon DEF Fencing!Next, Fencing!ClaimSome, Fencing!MutateSome,
     Fencing!MutationArgs, MutationArgs

\* Every reachable table has only rows in order, with exact attempt counts.
THEOREM FencingInductive == Fencing!Spec => []Fencing!FencingInv
BY InitFencing, NextFencing, PTL DEF Fencing!Spec

\* What no step may do to a row, whenever its clock was read: only a claim
\* replaces a token, and it takes only rows that were eligible in the past.
LEMMA StepFenced == Fencing!FencingInv /\ [Fencing!Next]_(Fencing!vars) => Fencing!FencedChangesStep
<1> SUFFICES ASSUME Fencing!FencingInv, [Fencing!Next]_(Fencing!vars), NEW r \in Rows
             PROVE  /\ Terminal(delivery[r]) => delivery'[r] = delivery[r]
                    /\ delivery[r].state = "pending" /\ delivery'[r].state = "claimed"
                       => delivery[r].available_at <= now
                    /\ /\ delivery[r].state = "claimed"
                       /\ delivery'[r].claim_token \notin {NoToken, delivery[r].claim_token}
                       => delivery[r].claim_expires_at <= now
  BY Zenon DEF Fencing!FencedChangesStep, Fencing!Terminal, Terminal
<1>a. /\ now \in Nat
      /\ delivery = [q \in Rows |-> delivery[q]]
      /\ delivery[r] \in DeliveryRow
      /\ delivery[r].claim_expires_at \in Int /\ delivery[r].available_at \in Int
  BY DeliveryAssumption, FencingByRow DEF RowInv, DeliveryRow, NullTime
<1>1. CASE delivery'[r] = delivery[r]
  BY <1>1, Zenon
<1>2. CASE delivery[r].state = "absent"
  BY <1>2, Zenon DEF Terminal
<1>3. ASSUME NEW scope \in Scopes, NEW S \in SUBSET Rows, NEW t \in 0..now,
             NEW lease \in Leases, NEW token \in [S -> Tokens],
             Fencing!Claim(scope, S, token, t, lease), r \in S
      PROVE  /\ delivery[r].state = "claimed" => delivery[r].claim_expires_at <= now
             /\ delivery[r].state = "pending" => delivery[r].available_at <= now
             /\ ~Terminal(delivery[r])
  <2>1. Eligible(delivery[r], t)
    BY <1>3, FencingClaim, Zenon
  <2>2. t <= now /\ t \in Nat
    BY <1>3, <1>a
  <2>3. QED
    BY <1>a, <2>1, <2>2 DEF Eligible, Terminal
<1>4. ASSUME NEW scope \in Scopes, NEW kind \in Kinds,
             NEW t \in 0..now, NEW token \in issued[r], NEW arg \in MutationArgs(kind),
             Fencing!Mutate(scope, kind, r, token, t, arg)
      PROVE  /\ delivery[r].state = "claimed"
             /\ delivery'[r].claim_token \in {NoToken, delivery[r].claim_token}
  <2>0. /\ Fenced(delivery[r], token, t)
        /\ delivery' = [delivery EXCEPT ![r] = MutatedRow(kind, delivery[r], t, arg)]
        /\ UNCHANGED <<now, issued>>
    BY <1>4, FencingMutate, Zenon
  <2>1. QED
    BY <2>0, <1>a, TokensOfWrittenRows, DeliveryAssumption DEF Fenced
<1>5. ASSUME Fencing!Finalize(r)
      PROVE  /\ delivery[r].state = "pending"
             /\ delivery'[r].state = "delivered"
  <2>1. /\ CanonicalPending(delivery[r])
        /\ delivery' = [delivery EXCEPT ![r] = FinalizedRow(delivery[r])]
    BY <1>5, FencingFinalize, Zenon
  <2>2. QED
    BY <2>1, <1>a DEF CanonicalPending, FinalizedRow, DeliveryRow
<1>6. \/ delivery'[r] = delivery[r]
      \/ delivery[r].state = "absent"
      \/ Fencing!Finalize(r)
      \/ \E scope \in Scopes, S \in SUBSET Rows, t \in 0..now, lease \in Leases :
           \E token \in [S -> Tokens] : Fencing!Claim(scope, S, token, t, lease) /\ r \in S
      \/ \E scope \in Scopes, kind \in Kinds, t \in 0..now :
           \E token \in issued[r], arg \in MutationArgs(kind) :
             Fencing!Mutate(scope, kind, r, token, t, arg)
  <2>1. CASE Fencing!Tick \/ UNCHANGED Fencing!vars
    BY <2>1, Zenon DEF Fencing!Tick, Fencing!vars
  <2>2. CASE Fencing!InsertSome
    BY <2>2, <1>a, FencingInsert DEF Fencing!Insert
  <2>3. CASE Fencing!ClaimSome
    <3>1. PICK scope \in Scopes, S \in SUBSET Rows, t \in 0..now, lease \in Leases :
            \E token \in [S -> Tokens] : Fencing!Claim(scope, S, token, t, lease)
      BY <2>3, Zenon DEF Fencing!ClaimSome
    <3>2. PICK token \in [S -> Tokens] : Fencing!Claim(scope, S, token, t, lease)
      BY <3>1, Zenon
    <3>3. r \notin S => delivery'[r] = delivery[r]
      BY <3>2, FencingClaim
    <3>4. QED
      BY <3>2, <3>3
  <2>4. CASE Fencing!MutateSome
    <3>1. PICK scope \in Scopes, kind \in Kinds, s \in Rows, t \in 0..now :
            \E token \in issued[s], arg \in MutationArgs(kind) :
              Fencing!Mutate(scope, kind, s, token, t, arg)
      BY <2>4, Zenon DEF Fencing!MutateSome, Fencing!MutationArgs, MutationArgs
    <3>2. s # r => delivery'[r] = delivery[r]
      BY <3>1, <1>a, Zenon DEF Fencing!Mutate
    <3>3. QED
      BY <3>1, <3>2, Zenon
  <2>5. CASE \E s \in Rows : Fencing!Finalize(s)
    BY <2>5, <1>a, FencingFinalize, Zenon
  <2>6. QED
    BY <2>1, <2>2, <2>3, <2>4, <2>5 DEF Fencing!Next
<1>7. QED
  BY <1>1, <1>2, <1>3, <1>4, <1>5, <1>6, Zenon DEF Terminal

\* A fence judged at a clock reading of the past is still enough: no live lease
\* is taken over, no delayed row is claimed early, terminal rows stay.
THEOREM FenceSuffices == Fencing!Spec => Fencing!FencedChanges
BY StepFenced, FencingInductive, PTL DEF Fencing!Spec, Fencing!FencedChanges

\* What the two contracts write to a row is the same.
LEMMA SameRows ==
  ASSUME NEW d, NEW t, NEW token, NEW kind, NEW arg
  PROVE  /\ Fencing!AbsentRow = AbsentRow
         /\ Fencing!EnqueuedRow(t) = EnqueuedRow(t)
         /\ Fencing!ImportedDelivered(t) = ImportedDelivered(t)
         /\ Fencing!ClaimedRow(d, token, t) = ClaimedRow(d, token, t)
         /\ Fencing!MutatedRow(kind, d, t, arg) = MutatedRow(kind, d, t, arg)
         /\ Fencing!FinalizedRow(d) = FinalizedRow(d)
<1>1. Fencing!AbsentRow = AbsentRow
  BY Zenon DEF Fencing!AbsentRow, AbsentRow, Fencing!NullTime, NullTime
<1>2. Fencing!MutatedRow(kind, d, t, arg) = MutatedRow(kind, d, t, arg)
  BY Zenon DEF Fencing!MutatedRow, MutatedRow, Fencing!Unclaimed, Unclaimed, Fencing!NullTime,
               NullTime
<1>3. QED
  BY <1>1, <1>2, Zenon DEF Fencing!EnqueuedRow, EnqueuedRow, Fencing!ImportedDelivered,
        ImportedDelivered, Fencing!ClaimedRow, ClaimedRow, Fencing!FinalizedRow, FinalizedRow

\* An insertion, a claim, a mutation, a finalisation and a tick of the stronger
\* contract are each a step of the weaker one.
LEMMA StepOfFencing ==
  ASSUME IInv, Next
  PROVE  Fencing!Next
<1>a. now \in Nat /\ ImportSkew \in Nat
  BY DeliveryAssumption DEF IInv, TypeOK
<1>1. CASE Tick
  BY <1>1, Zenon DEF Tick, Fencing!Tick, Fencing!Next
<1>2. ASSUME NEW r \in Rows, NEW t \in 0..now, NEW skew \in 0..ImportSkew,
             NEW row \in {EnqueuedRow(t + skew), ImportedDelivered(t + skew)}, Insert(r, t, row)
      PROVE  Fencing!Next
  <2>1. Fencing!Insert(r, row)
    BY <1>2, Zenon DEF Insert, Fencing!Insert
  <2>2. row \in {Fencing!EnqueuedRow(t + skew), Fencing!ImportedDelivered(t + skew)}
    BY SameRows, Zenon
  <2>3. QED
    BY <2>1, <2>2, Zenon DEF Fencing!InsertSome, Fencing!Next
<1>3. ASSUME NEW r \in Rows, Enqueue(r)
      PROVE  Fencing!Next
  <2>1. PICK t \in 0..now : Insert(r, t, EnqueuedRow(t))
    BY <1>3, Zenon DEF Enqueue
  <2>2. t + 0 = t /\ 0 \in 0..ImportSkew
    BY <1>a
  <2>3. QED
    BY <1>2, <2>1, <2>2, Zenon
<1>4. ASSUME NEW r \in Rows, Import(r)
      PROVE  Fencing!Next
  BY <1>2, <1>4, Zenon DEF Import
<1>5. CASE ClaimSome
  <2>1. PICK scope \in Scopes, S \in (SUBSET Rows) \ {{}}, t \in 0..now, lease \in Leases :
          \E token \in [S -> Tokens] : Claim(scope, S, token, t, lease)
    BY <1>5, Zenon DEF ClaimSome
  <2>2. PICK token \in [S -> Tokens] : Claim(scope, S, token, t, lease)
    BY <2>1
  <2>3. Fencing!Claim(scope, S, token, t, lease)
    BY <2>2, Zenon DEF Claim, Fencing!Claim, Fencing!InScope, InScope, Fencing!Eligible, Eligible,
                       Fencing!ClaimedRow, ClaimedRow
  <2>4. QED
    BY <2>3, Zenon DEF Fencing!ClaimSome, Fencing!Next
<1>6. CASE MutateSome
  <2>1. PICK scope \in Scopes, kind \in Kinds, r \in Rows, t \in 0..now :
          \E token \in issued[r], arg \in MutationArgs(kind) :
            Mutate(scope, kind, r, token, t, arg)
    BY <1>6, Zenon DEF MutateSome
  <2>2. PICK token \in issued[r], arg \in MutationArgs(kind) :
          Mutate(scope, kind, r, token, t, arg)
    BY <2>1, Zenon
  <2>3. Fencing!Mutate(scope, kind, r, token, t, arg)
    <3>1. Fencing!MutatedRow(kind, delivery[r], t, arg) = MutatedRow(kind, delivery[r], t, arg)
      BY SameRows, Zenon
    <3>2. QED
      BY <2>2, <3>1 DEF Mutate, Fencing!Mutate, Fencing!InScope, InScope, Fencing!Fenced, Fenced
  <2>4. arg \in Fencing!MutationArgs(kind)
    BY Zenon DEF Fencing!MutationArgs, MutationArgs
  <2>5. QED
    BY <2>3, <2>4, Zenon DEF Fencing!MutateSome, Fencing!Next
<1>7. ASSUME NEW r \in Rows, Finalize(r)
      PROVE  Fencing!Next
  <2>1. Fencing!Finalize(r)
    BY <1>7, SameRows, Zenon DEF Finalize, Fencing!Finalize, Fencing!CanonicalPending,
         CanonicalPending, Fencing!Canonical, Canonical, Fencing!NullTime, NullTime
  <2>2. QED
    BY <2>1, Zenon DEF Fencing!Next
<1>8. QED
  BY <1>1, <1>3, <1>4, <1>5, <1>6, <1>7 DEF Next

\* Whoever implements DeliveryLifecycle implements DeliveryFencing: what a caller
\* may rely on with every adapter is what the fence alone guarantees.
THEOREM LifecycleImplementsFencing == Spec => FencingRefined
<1>1. Init => Fencing!Init
  BY SameRows, Zenon DEF Init, Fencing!Init
<1>2. IInv /\ [Next]_vars => [Fencing!Next]_(Fencing!vars)
  BY StepOfFencing, Zenon DEF vars, Fencing!vars
<1>3. QED
  BY <1>1, <1>2, Inductive, PTL DEF Spec, FencingRefined, Fencing!Spec

-------------------------------------------------------------------------------
(* Ids in increasing order.                                                *)

\* s is strictly increasing.
Ascending(s) == \A j, k \in DOMAIN s : j < k => s[j] < s[k]

\* The entries of s.
Entries(s) == {s[k] : k \in DOMAIN s}

\* The first m entries of s and t are the same.
Agree(s, t, m) == \A k \in 1..m : s[k] = t[k]

\* A nonempty set of natural numbers has a least element.
LEMMA LeastNat ==
  ASSUME NEW T, T \subseteq Nat, T # {}
  PROVE  \E x \in T : \A y \in T : x <= y
<1>1. PICK x \in T : \A y \in T : <<y, x>> \notin OpToRel(<, Nat)
  BY WFMin, NatLessThanWellFounded, Zenon
<1>2. \A y \in T : ~(y < x)
  BY <1>1, Zenon DEF OpToRel
<1>3. x \in Nat /\ \A y \in T : y \in Nat
  BY Zenon
<1>4. QED
  BY <1>2, <1>3

\* The ids of 1..n can be listed in increasing order.
CanOrder(n) ==
  \A S \in SUBSET (1..n) :
     \E s \in [1..Cardinality(S) -> S] : Ascending(s)

\* Nothing is listed by the empty sequence.
LEMMA CanOrderNone == CanOrder(0)
<1> SUFFICES ASSUME NEW S \in SUBSET (1..0)
             PROVE  \E s \in [1..Cardinality(S) -> S] : Ascending(s)
  BY Zenon DEF CanOrder
<1>1. S = {}
  OBVIOUS
<1>2. Cardinality(S) = 0
  BY <1>1, FS_EmptySet, Zenon
<1>3. [k \in 1..0 |-> 0] \in [1..Cardinality(S) -> S]
  BY <1>2
<1>4. Ascending([k \in 1..0 |-> 0])
  BY DEF Ascending
<1>5. QED
  BY <1>3, <1>4, Zenon

\* The greatest id goes behind the others.
LEMMA CanOrderMore ==
  ASSUME NEW n \in Nat, n # 0, CanOrder(n - 1)
  PROVE  CanOrder(n)
<1> SUFFICES ASSUME NEW S \in SUBSET (1..n)
             PROVE  \E s \in [1..Cardinality(S) -> S] : Ascending(s)
  BY Zenon DEF CanOrder
<1> DEFINE T == S \ {n}
<1>1. T \in SUBSET (1..(n - 1))
  OBVIOUS
<1>2. IsFiniteSet(1..(n - 1))
  BY FS_Interval
<1>3. IsFiniteSet(T) /\ Cardinality(T) \in Nat
  BY <1>1, <1>2, FS_Subset, FS_CardinalityType, Zenon
<1>4. PICK s \in [1..Cardinality(T) -> T] : Ascending(s)
  BY <1>1, Zenon DEF CanOrder
<1>5. CASE n \notin S
  <2>1. T = S
    BY <1>5, Zenon
  <2>2. QED
    BY <1>4, <2>1, Zenon
<1>6. CASE n \in S
  <2>1. S = T \union {n} /\ n \notin T
    BY <1>6, Zenon
  <2>2. Cardinality(S) = Cardinality(T) + 1
    BY <1>3, <2>1, FS_AddElement, Zenon
  <2> DEFINE c == Cardinality(T)
             t == [k \in 1..(c + 1) |-> IF k = c + 1 THEN n ELSE s[k]]
  <2> HIDE DEF T
  <2>3. c \in Nat /\ s \in [1..c -> T] /\ Cardinality(S) = c + 1
    BY <1>3, <2>2, Zenon
  <2> HIDE DEF c
  <2>4. \A k \in 1..(c + 1) : k = c + 1 \/ k \in 1..c
    BY <2>3
  <2>5. t \in [1..(c + 1) -> S]
    BY <2>1, <2>3, <2>4, Zenon
  <2>6. ASSUME NEW j \in 1..(c + 1), NEW k \in 1..(c + 1), j < k
        PROVE  t[j] < t[k]
    <3>0. j \in 1..c /\ j # c + 1
      BY <2>3, <2>6
    <3>1. j \in 1..c /\ s[j] \in T /\ t[j] = s[j]
      BY <2>3, <3>0, Zenon
    <3>2. s[j] < n
      <4>1. s[j] \in 1..(n - 1)
        BY <1>1, <3>1, Zenon
      <4>2. QED
        BY <4>1
    <3>3. CASE k = c + 1
      BY <3>1, <3>2, <3>3, Zenon
    <3>4. CASE k \in 1..c
      <4>1. t[k] = s[k]
        BY <2>3, <3>4
      <4>2. s[j] < s[k]
        BY <1>4, <2>3, <2>6, <3>1, <3>4, Zenon DEF Ascending
      <4>3. QED
        BY <3>1, <4>1, <4>2
    <3>5. QED
      BY <2>4, <3>3, <3>4, Zenon
  <2>7. Ascending(t)
    BY <2>6, Zenon DEF Ascending
  <2>8. QED
    BY <2>3, <2>5, <2>7, Zenon
<1>7. QED
  BY <1>5, <1>6, Zenon

\* So every finite set of row ids can.
LEMMA CanOrderAll == \A n \in Nat : CanOrder(n)
<1> DEFINE Bad == {n \in Nat : ~CanOrder(n)}
<1> SUFFICES ASSUME Bad # {} PROVE FALSE
  BY Zenon
<1>1. PICK n \in Bad : \A m \in Bad : n <= m
  <2> HIDE DEF Bad
  <2>1. Bad \subseteq Nat
    BY Zenon DEF Bad
  <2>2. QED
    BY <2>1, LeastNat, Zenon
<1>2. n \in Nat /\ ~CanOrder(n)
  BY Zenon
<1>3. n # 0
  BY <1>2, CanOrderNone, Zenon
<1>4. n - 1 \in Nat /\ ~(n <= n - 1)
  BY <1>2, <1>3
<1>5. CanOrder(n - 1)
  BY <1>1, <1>4, Zenon
<1>6. QED
  BY <1>2, <1>3, <1>5, CanOrderMore, Zenon

\* ORDER BY row_id ASC returns every selected row once, in increasing order.
LEMMA InOrderFacts ==
  ASSUME NEW n \in Nat, NEW S \in SUBSET (1..n)
  PROVE  /\ Cardinality(S) \in Nat
         /\ InOrder(S) \in [1..Cardinality(S) -> S]
         /\ InOrder(S) \in Seq(S) /\ Len(InOrder(S)) = Cardinality(S)
         /\ Ascending(InOrder(S))
         /\ Entries(InOrder(S)) = S
<1> DEFINE c == Cardinality(S)
           s == InOrder(S)
<1>1. IsFiniteSet(1..n)
  BY FS_Interval
<1>2. IsFiniteSet(S) /\ c \in Nat
  BY <1>1, FS_Subset, FS_CardinalityType, Zenon
<1>3. \E e \in [1..c -> S] : Ascending(e)
  BY CanOrderAll, Zenon DEF CanOrder
<1>4. s \in [1..c -> S] /\ Ascending(s)
  <2>1. s = CHOOSE e \in [1..c -> S] : Ascending(e)
    BY Zenon DEF InOrder, Ascending
  <2>2. QED
    BY <1>3, <2>1, Zenon
<1> HIDE DEF s, c
<1>5. ASSUME NEW j \in 1..c, NEW k \in 1..c, s[j] = s[k] PROVE j = k
  <2>1. s[j] \in 1..n
    BY <1>4, Zenon
  <2>2. j < k => s[j] < s[k]
    BY <1>4, Zenon DEF Ascending
  <2>3. k < j => s[k] < s[j]
    BY <1>4, Zenon DEF Ascending
  <2>4. QED
    BY <1>2, <1>5, <2>1, <2>2, <2>3
<1>6. s \in Injection(1..c, S)
  BY <1>4, <1>5, Zenon DEF Injection, IsInjective
<1>7. Cardinality(1..c) = c
  BY <1>2, FS_Interval
<1>8. s \in Surjection(1..c, S)
  BY <1>2, <1>6, <1>7, FS_Injection, Zenon DEF c
<1>9. Entries(s) = S
  BY <1>4, <1>8, Zenon DEF Entries, Surjection
<1>10. s \in Seq(S) /\ Len(s) = c
  BY <1>2, <1>4
<1>11. QED
  BY <1>2, <1>4, <1>9, <1>10, Zenon DEF s, c

\* Two increasing sequences of which one lists the entries of the other up to a
\* bound: the one is a prefix of the other.
LEMMA AscendingPrefix ==
  ASSUME NEW m \in Nat, NEW n \in Nat, NEW c \in Nat,
         NEW s \in [1..m -> Nat], NEW t \in [1..n -> Nat],
         Ascending(s), Ascending(t),
         Entries(s) = {x \in Entries(t) : x <= c}
  PROVE  m <= n /\ Agree(s, t, m)
<1> DEFINE Bad == {k \in 1..m : ~(k <= n /\ s[k] = t[k])}
<1>1. SUFFICES Bad = {}
  <2>1. \A k \in 1..m : k <= n /\ s[k] = t[k]
    BY <1>1, Zenon
  <2>2. m <= n
    BY <2>1
  <2>3. QED
    BY <2>1, <2>2, Zenon DEF Agree
<1> SUFFICES ASSUME Bad # {} PROVE FALSE
  BY Zenon
<1>2. PICK k \in Bad : \A j \in Bad : k <= j
  <2>1. Bad \subseteq Nat
    OBVIOUS
  <2> HIDE DEF Bad
  <2>2. QED
    BY <2>1, LeastNat, Zenon
<1>3. k \in 1..m /\ ~(k <= n /\ s[k] = t[k])
  BY Zenon
<1>4. \A j \in 1..m : j < k => j <= n /\ s[j] = t[j]
  BY <1>2, <1>3
<1>5. s[k] \in Entries(s)
  BY <1>3, Zenon DEF Entries
<1>6. s[k] \in Entries(t) /\ s[k] <= c
  BY <1>5, Zenon
<1>7. PICK i \in 1..n : s[k] = t[i]
  BY <1>6, Zenon DEF Entries
<1>8. k <= i
  <2> SUFFICES ASSUME i < k PROVE FALSE
    BY <1>3, <1>7
  <2>1. i \in 1..m
    BY <1>3
  <2>2. s[i] = t[i] /\ s[i] < s[k] /\ s[i] \in Nat
    BY <1>3, <1>4, <2>1, Zenon DEF Ascending
  <2>3. QED
    BY <1>7, <2>2
<1>9. k \in 1..n /\ t[k] \in Nat /\ s[k] \in Nat
  BY <1>3, <1>7, <1>8
<1>10. k < i /\ t[k] < t[i]
  <2>1. k # i
    BY <1>3, <1>7, <1>9
  <2>2. k < i
    BY <1>8, <1>9, <2>1
  <2>3. QED
    BY <1>9, <2>2, Zenon DEF Ascending
<1>11. t[k] \in Entries(t) /\ t[k] <= c
  <2>1. t[k] \in Entries(t)
    BY <1>9, Zenon DEF Entries
  <2>2. QED
    BY <1>6, <1>7, <1>9, <1>10, <2>1
<1>12. PICK j \in 1..m : t[k] = s[j]
  <2>1. t[k] \in Entries(s)
    BY <1>11, Zenon
  <2>2. QED
    BY <2>1, Zenon DEF Entries
<1>13. CASE j < k
  <2>1. t[j] = s[j] /\ j \in 1..n
    BY <1>4, <1>9, <1>13
  <2>2. t[j] < t[k]
    BY <1>9, <1>13, <2>1, Zenon DEF Ascending
  <2>3. QED
    BY <1>9, <1>12, <2>1, <2>2
<1>14. CASE j = k
  BY <1>3, <1>9, <1>12, <1>14
<1>15. CASE k < j
  <2>1. s[k] < s[j]
    BY <1>3, <1>15, Zenon DEF Ascending
  <2>2. QED
    BY <1>7, <1>9, <1>10, <1>12, <2>1
<1>16. QED
  BY <1>3, <1>13, <1>14, <1>15

\* Two increasing sequences with the same entries are the same.
LEMMA AscendingSame ==
  ASSUME NEW m \in Nat, NEW n \in Nat, NEW c \in Nat,
         NEW s \in [1..m -> Nat], NEW t \in [1..n -> Nat],
         Ascending(s), Ascending(t),
         Entries(s) = Entries(t), \A x \in Entries(t) : x <= c
  PROVE  m = n /\ s = t
<1>0. Entries(s) = {x \in Entries(t) : x <= c}
  BY Zenon
<1>1. Entries(t) = {x \in Entries(s) : x <= c}
  BY Zenon
<1>2. m <= n
  BY <1>0, AscendingPrefix, Zenon
<1>3. n <= m
  BY <1>1, AscendingPrefix, Zenon
<1>4. Agree(s, t, m)
  BY <1>0, AscendingPrefix, Zenon
<1>5. QED
  BY <1>2, <1>3, <1>4 DEF Agree

\* p is the first rows of ids: increasing, all of them up to its last one, and
\* all there are when it is not full.
IsPage(p, ids, limit) ==
  /\ p \in Seq(ids) /\ Ascending(p)
  /\ p = <<>> => ids = {}
  /\ p # <<>> => LastId(p) \in ids /\ Entries(p) = {x \in ids : x <= LastId(p)}
  /\ Len(p) < limit => Entries(p) = ids

\* ORDER BY row_id ASC LIMIT limit returns such a page.
LEMMA FirstIdsFacts ==
  ASSUME NEW n \in Nat, NEW ids \in SUBSET (1..n), NEW limit \in Nat \ {0},
         NEW p, p = FirstIds(ids, limit)
  PROVE  IsPage(p, ids, limit)
<1> DEFINE s == InOrder(ids)
           c == Cardinality(ids)
           m == IF c < limit THEN c ELSE limit
<1>0. \A x \in ids : x \in Nat
  OBVIOUS
<1>1. /\ c \in Nat /\ s \in [1..c -> ids] /\ s \in Seq(ids) /\ Len(s) = c
      /\ Ascending(s) /\ Entries(s) = ids
  BY InOrderFacts, Zenon
<1>2. p = SubSeq(s, 1, m)
  BY <1>1, Zenon DEF FirstIds
<1> HIDE DEF s, c
<1>3. m \in Nat /\ m <= c /\ (c # 0 => m # 0) /\ (m < limit => m = c)
  BY <1>1
<1> HIDE DEF m
<1>4. \A k \in 1..m : k \in 1..c /\ s[k] \in ids
  BY <1>1, <1>3
<1>5. p \in Seq(ids) /\ Len(p) = m /\ DOMAIN p = 1..m /\ \A k \in 1..m : p[k] = s[k]
  BY <1>2, <1>3, <1>4, SubSeqProperties, SMTT(20)
<1>6. Ascending(p)
  BY <1>1, <1>4, <1>5 DEF Ascending
<1>7. ASSUME p = <<>> PROVE ids = {}
  <2>1. c = 0
    BY <1>3, <1>5, <1>7, Zenon
  <2>2. QED
    BY <1>1, <2>1 DEF Entries
<1>8. ASSUME p # <<>> PROVE LastId(p) \in ids /\ Entries(p) = {x \in ids : x <= LastId(p)}
  <2>1. m \in 1..m
    BY <1>3, <1>5, <1>8
  <2>2. LastId(p) = s[m] /\ s[m] \in ids /\ s[m] \in Nat
    BY <1>0, <1>4, <1>5, <2>1, Zenon DEF LastId
  <2>3. ASSUME NEW x \in Entries(p) PROVE x \in ids /\ x <= s[m]
    <3>1. PICK k \in 1..m : x = s[k]
      BY <1>5, Zenon DEF Entries
    <3>2. x \in ids /\ x \in Nat
      BY <1>0, <1>4, <3>1, Zenon
    <3>3. k < m => s[k] < s[m]
      BY <1>1, <1>4, <2>1, Zenon DEF Ascending
    <3>4. QED
      BY <1>3, <2>2, <3>1, <3>2, <3>3
  <2>4. ASSUME NEW x \in ids, x <= s[m] PROVE x \in Entries(p)
    <3>1. PICK k \in 1..c : x = s[k]
      BY <1>1, Zenon DEF Entries
    <3>2. m < k => s[m] < s[k]
      BY <1>1, <1>4, <2>1, Zenon DEF Ascending
    <3>3. x \in Nat
      OBVIOUS
    <3>4. k \in 1..m
      BY <1>1, <1>3, <2>2, <2>4, <3>1, <3>2, <3>3, SMTT(20)
    <3>5. QED
      BY <1>5, <3>1, <3>4, Zenon DEF Entries
  <2>5. QED
    BY <2>2, <2>3, <2>4, Zenon
<1>9. ASSUME Len(p) < limit PROVE Entries(p) = ids
  <2>1. m = c
    BY <1>3, <1>5, <1>9
  <2>2. QED
    BY <1>1, <1>5, <2>1 DEF Entries
<1>10. QED
  BY <1>5, <1>6, <1>7, <1>8, <1>9, Zenon DEF IsPage

\* An increasing page behind an increasing one.
LEMMA AscendingConcat ==
  ASSUME NEW c \in Nat, NEW g \in Seq(Nat), NEW p \in Seq(Nat),
         Ascending(g), Ascending(p),
         \A x \in Entries(g) : x <= c, \A x \in Entries(p) : c < x
  PROVE  /\ g \o p \in Seq(Nat) /\ Ascending(g \o p)
         /\ Entries(g \o p) = Entries(g) \union Entries(p)
<1> DEFINE t == g \o p
           m == Len(g)
           n == Len(p)
<1>1. /\ t \in Seq(Nat) /\ Len(t) = m + n
      /\ \A i \in 1..(m + n) : t[i] = IF i <= m THEN g[i] ELSE p[i - m]
  BY ConcatProperties, Zenon
<1>2. /\ m \in Nat /\ n \in Nat
      /\ DOMAIN g = 1..m /\ DOMAIN p = 1..n /\ DOMAIN t = 1..(m + n)
  <2> HIDE DEF t
  <2>1. QED
    BY <1>1, LenProperties
<1>3. \A i \in 1..m : g[i] \in Nat /\ g[i] <= c
  BY <1>2, LenProperties, Zenon DEF Entries
<1>4. \A i \in 1..n : p[i] \in Nat /\ c < p[i]
  BY <1>2, LenProperties, Zenon DEF Entries
<1> HIDE DEF t, m, n
<1>5. \A i \in 1..m : i \in 1..(m + n) /\ t[i] = g[i]
  BY <1>1, <1>2
<1>6. \A i \in (m + 1)..(m + n) : i \in 1..(m + n) /\ i - m \in 1..n /\ t[i] = p[i - m]
  BY <1>1, <1>2
<1>7. \A i \in 1..(m + n) : i \in 1..m \/ i \in (m + 1)..(m + n)
  BY <1>2
<1>8. ASSUME NEW j \in 1..(m + n), NEW k \in 1..(m + n), j < k PROVE t[j] < t[k]
  <2>1. CASE j \in 1..m /\ k \in 1..m
    BY <1>2, <1>5, <1>8, <2>1, Zenon DEF Ascending
  <2>2. CASE j \in 1..m /\ k \in (m + 1)..(m + n)
    BY <1>3, <1>4, <1>5, <1>6, <2>2
  <2>3. CASE j \in (m + 1)..(m + n) /\ k \in (m + 1)..(m + n)
    <3>1. j - m \in 1..n /\ k - m \in 1..n /\ j - m < k - m
      BY <1>2, <1>6, <1>8, <2>3
    <3>2. p[j - m] < p[k - m]
      BY <1>2, <3>1, Zenon DEF Ascending
    <3>3. QED
      BY <1>6, <2>3, <3>2, Zenon
  <2>4. CASE j \in (m + 1)..(m + n) /\ k \in 1..m
    BY <1>2, <1>8, <2>4
  <2>5. QED
    BY <1>7, <2>1, <2>2, <2>3, <2>4, Zenon
<1>9. Ascending(t)
  BY <1>2, <1>8, Zenon DEF Ascending
<1>10. Entries(t) = Entries(g) \union Entries(p)
  <2>1. Entries(t) \subseteq Entries(g) \union Entries(p)
    BY <1>2, <1>5, <1>6, <1>7, Zenon DEF Entries
  <2>2. Entries(g) \subseteq Entries(t)
    BY <1>2, <1>5 DEF Entries
  <2>3. ASSUME NEW k \in 1..n PROVE p[k] \in Entries(t)
    <3>1. k + m \in (m + 1)..(m + n) /\ (k + m) - m = k
      BY <1>2
    <3>2. t[k + m] = p[k]
      BY <1>6, <3>1
    <3>3. QED
      BY <1>2, <1>6, <3>1, <3>2, Zenon DEF Entries
  <2>4. QED
    BY <1>2, <2>1, <2>2, <2>3, Zenon DEF Entries
<1>11. QED
  BY <1>1, <1>9, <1>10, Zenon DEF t

-------------------------------------------------------------------------------
(* The inductive invariant.                                                *)

\* The tables of the model.
Tables == {t \in Seq(PageRow) : Len(t) <= MaxRow}

Ids(got) == [k \in DOMAIN got |-> got[k][1]]

\* got is what a reader of table in scope returned up to row c: all rows in
\* scope up to c once, in increasing order, with the states of table.
Listed(got, table, scope, c) ==
  /\ Ids(got) \in Seq(Nat) /\ Ascending(Ids(got))
  /\ Entries(Ids(got)) = {r \in Scoped(table, scope) : r <= c}
  /\ got = AsRead(table, Ids(got))

PagerType ==
  [pc : {"closed", "bind", "detect", "upper", "open", "aborted", "failed"},
   taken : BOOLEAN, snap : Tables, upper : Nat, cursor : Nat, exhausted : BOOLEAN,
   got : Seq(Nat \X {"pending", "delivered"})]

\* The pages a pager returned list its snapshot up to the cursor.  Before it is
\* open it returned none.  Once it is open it has its snapshot, no row of which
\* lies above the upper bound, and an exhausted one has none above the cursor.
PagerOk(p, scope) ==
  /\ p \in PagerType
  /\ Listed(p.got, p.snap, scope, p.cursor)
  /\ p.pc \notin {"open", "aborted", "failed"} =>
       p.got = <<>> /\ p.cursor = 0 /\ p.upper = 0 /\ ~p.exhausted
  /\ p.pc \in {"open", "aborted", "failed"} =>
       p.taken /\ \A r \in Scoped(p.snap, scope) : r <= p.upper
  /\ p.exhausted => \A r \in Scoped(p.snap, scope) : r <= p.cursor

\* The live reader returned the committed rows up to its cursor but for the late
\* ones, which lie behind it.  On SQLite no row is late: only the last row can be
\* that of a writer, and the cursor is at a committed one.
LiveOk(l, table, scope) ==
  /\ l \in [cursor : Nat, got : Seq(Nat), late : SUBSET Nat]
  /\ Ascending(l.got)
  /\ Entries(l.got) = {r \in Scoped(table, scope) : r <= l.cursor} \ l.late
  /\ \A r \in l.late : r < l.cursor
  /\ l.cursor = 0 \/ l.cursor \in Scoped(table, scope)

OneWriter(l, table) ==
  /\ l.late = {}
  /\ \A r \in DOMAIN table : table[r].status = "open" => r = Len(table)

PagersInv ==
  /\ rows \in Tables
  /\ PagerOk(pager, handle)
  /\ LiveOk(live, rows, handle)
  /\ adapter = "sqlite" => OneWriter(live, rows)

\* The rows in scope are rows of the table.
LEMMA ScopedRows ==
  ASSUME NEW t \in Tables, NEW scope
  PROVE  /\ Len(t) \in Nat /\ Len(t) <= MaxRow /\ DOMAIN t = 1..Len(t)
         /\ \A r \in 1..Len(t) : t[r] \in PageRow
         /\ Scoped(t, scope) \in SUBSET (1..Len(t))
         /\ Scoped(t, scope) \in SUBSET (1..MaxRow)
<1>1. t \in Seq(PageRow) /\ Len(t) <= MaxRow
  BY Zenon DEF Tables
<1>2. Len(t) \in Nat /\ DOMAIN t = 1..Len(t) /\ \A r \in 1..Len(t) : t[r] \in PageRow
  BY <1>1, LenProperties
<1>3. Scoped(t, scope) \in SUBSET (1..Len(t))
  BY <1>2, Zenon DEF Scoped
<1>4. 1..Len(t) \subseteq 1..MaxRow
  BY <1>1, <1>2, PagingAssumption
<1>5. QED
  BY <1>1, <1>2, <1>3, <1>4, Zenon

\* The states a page shows are those of the table it was read from.
LEMMA AsReadFacts ==
  ASSUME NEW t \in Tables, NEW g \in Seq(Nat), \A x \in Entries(g) : x \in DOMAIN t
  PROVE  /\ AsRead(t, g) \in Seq(Nat \X {"pending", "delivered"})
         /\ Len(AsRead(t, g)) = Len(g)
         /\ Ids(AsRead(t, g)) = g
<1>1. /\ Len(g) \in Nat /\ DOMAIN g = 1..Len(g) /\ g \in [1..Len(g) -> Nat]
  BY LenProperties, Zenon
<1>2. \A k \in 1..Len(g) : g[k] \in DOMAIN t
  BY <1>1, Zenon DEF Entries
<1>3. \A r \in DOMAIN t : t[r].state \in {"pending", "delivered"}
  BY ScopedRows, Zenon DEF PageRow
<1>4. AsRead(t, g) = [k \in 1..Len(g) |-> <<g[k], t[g[k]].state>>]
  BY <1>1, Zenon DEF AsRead
<1>5. \A k \in 1..Len(g) : <<g[k], t[g[k]].state>> \in Nat \X {"pending", "delivered"}
  BY <1>1, <1>2, <1>3
<1>6. AsRead(t, g) \in [1..Len(g) -> Nat \X {"pending", "delivered"}]
  BY <1>4, <1>5, Zenon
<1>7. AsRead(t, g) \in Seq(Nat \X {"pending", "delivered"}) /\ Len(AsRead(t, g)) = Len(g)
  BY <1>1, <1>6, SMTT(20)
<1>8. Ids(AsRead(t, g)) = [k \in 1..Len(g) |-> g[k]]
  BY <1>1, <1>4 DEF Ids
<1>9. g = [k \in 1..Len(g) |-> g[k]]
  BY <1>1, Zenon
<1>10. QED
  BY <1>7, <1>8, <1>9, Zenon

\* What is read page by page reads as what is read at once.
LEMMA AsReadConcat ==
  ASSUME NEW t \in Tables, NEW g \in Seq(Nat), NEW h \in Seq(Nat),
         \A x \in Entries(g) : x \in DOMAIN t, \A x \in Entries(h) : x \in DOMAIN t
  PROVE  AsRead(t, g) \o AsRead(t, h) = AsRead(t, g \o h)
<1> DEFINE a == AsRead(t, g)
           b == AsRead(t, h)
           E == Nat \X {"pending", "delivered"}
<1>1. a \in Seq(E) /\ Len(a) = Len(g) /\ b \in Seq(E) /\ Len(b) = Len(h)
  BY AsReadFacts, Zenon
<1>2. /\ Len(g) \in Nat /\ DOMAIN g = 1..Len(g)
      /\ Len(h) \in Nat /\ DOMAIN h = 1..Len(h)
  BY LenProperties, Zenon
<1>3. /\ g \o h \in Seq(Nat) /\ Len(g \o h) = Len(g) + Len(h)
      /\ \A i \in 1..(Len(g) + Len(h)) :
           (g \o h)[i] = IF i <= Len(g) THEN g[i] ELSE h[i - Len(g)]
  BY ConcatProperties, Zenon
<1>4. DOMAIN (g \o h) = 1..(Len(g) + Len(h))
  BY <1>3, LenProperties, Zenon
<1> HIDE DEF a, b, E
<1>5. /\ a \o b \in Seq(E) /\ Len(a \o b) = Len(a) + Len(b)
      /\ \A i \in 1..(Len(a) + Len(b)) :
           (a \o b)[i] = IF i <= Len(a) THEN a[i] ELSE b[i - Len(a)]
  BY <1>1, ConcatProperties, Zenon
<1>6. DOMAIN (a \o b) = 1..(Len(g) + Len(h)) /\ a \o b = [i \in DOMAIN (a \o b) |-> (a \o b)[i]]
  BY <1>1, <1>5, LenProperties, Zenon
<1>7. ASSUME NEW i \in 1..(Len(g) + Len(h))
      PROVE  (a \o b)[i] = <<(g \o h)[i], t[(g \o h)[i]].state>>
  <2>1. CASE i <= Len(g)
    <3>1. i \in 1..Len(g)
      BY <1>2, <2>1
    <3>2. a[i] = <<g[i], t[g[i]].state>>
      BY <1>2, <3>1, Zenon DEF a, AsRead
    <3>3. QED
      BY <1>1, <1>3, <1>5, <2>1, <3>2, Zenon
  <2>2. CASE ~(i <= Len(g))
    <3>1. i - Len(g) \in 1..Len(h)
      BY <1>2, <2>2
    <3>2. b[i - Len(g)] = <<h[i - Len(g)], t[h[i - Len(g)]].state>>
      BY <1>2, <3>1, Zenon DEF b, AsRead
    <3>3. QED
      BY <1>1, <1>3, <1>5, <2>2, <3>2, Zenon
  <2>3. QED
    BY <2>1, <2>2, Zenon
<1>8. QED
  BY <1>4, <1>6, <1>7, Zenon DEF AsRead, a, b

\* The upper bound of a pager is zero only of no rows, and no row lies above it.
LEMMA MaxIdBounds ==
  ASSUME NEW t \in Tables, NEW scope
  PROVE  /\ MaxId(t, scope) \in Nat
         /\ \A r \in Scoped(t, scope) : r <= MaxId(t, scope)
         /\ MaxId(t, scope) = 0 => Scoped(t, scope) = {}
<1> DEFINE S == Scoped(t, scope)
           n == Len(t)
<1>1. n \in Nat /\ S \in SUBSET (1..n)
  BY ScopedRows, Zenon
<1>2. CASE S = {}
  BY <1>2, Zenon DEF MaxId
<1>3. CASE S # {}
  <2> DEFINE Bounds == {u \in Nat : \A q \in S : q <= u}
  <2> HIDE DEF S, n
  <2>1. n \in Bounds
    BY <1>1
  <2>2. Bounds \subseteq Nat /\ Bounds # {}
    BY <2>1, Zenon
  <2>3. PICK u \in Bounds : \A v \in Bounds : u <= v
    <3> HIDE DEF Bounds
    <3>1. QED
      BY <2>2, LeastNat, Zenon
  <2>4. u \in Nat /\ \A q \in S : q <= u
    BY Zenon
  <2>5. u \in S
    <3> SUFFICES ASSUME u \notin S PROVE FALSE
      BY Zenon
    <3>1. \A q \in S : q \in Nat /\ q # 0 /\ q <= u - 1
      BY <1>1, <2>4
    <3>2. u - 1 \in Nat
      BY <1>3, <2>4, <3>1
    <3>3. u - 1 \in Bounds
      BY <3>1, <3>2, Zenon
    <3>4. u <= u - 1
      BY <2>3, <3>3, Zenon
    <3>5. QED
      BY <2>4, <3>4
  <2>6. \E r \in S : \A q \in S : q <= r
    BY <2>4, <2>5, Zenon
  <2>7. MaxId(t, scope) \in S /\ \A q \in S : q <= MaxId(t, scope)
    <3>1. MaxId(t, scope) = CHOOSE r \in S : \A q \in S : q <= r
      BY <1>3, Zenon DEF MaxId, S
    <3>2. QED
      BY <2>6, <3>1, Zenon
  <2>8. MaxId(t, scope) \in Nat /\ MaxId(t, scope) # 0
    <3>1. MaxId(t, scope) \in 1..n
      BY <1>1, <2>7, Zenon
    <3>2. QED
      BY <1>1, <3>1
  <2>9. QED
    BY <2>7, <2>8, Zenon DEF S
<1>4. QED
  BY <1>2, <1>3, Zenon

\* The rows a page is taken from.
Window(t, scope, c, u) == {r \in Scoped(t, scope) : c < r /\ r <= u}

\* p lists the rows in scope above c up to its last one, and there are no more
\* when it is empty or short and no row lies above u.
Continues(p, t, scope, c, u, limit) ==
  /\ p \in Seq(Nat) /\ Ascending(p)
  /\ \A x \in Entries(p) : x \in DOMAIN t /\ c < x
  /\ p # <<>> => /\ LastId(p) \in Scoped(t, scope) /\ LastId(p) \in Nat /\ c < LastId(p)
                 /\ Entries(p) = {r \in Scoped(t, scope) : c < r /\ r <= LastId(p)}
  /\ (p = <<>> /\ \A r \in Scoped(t, scope) : r <= u)
       => \A r \in Scoped(t, scope) : r <= c
  /\ (p # <<>> /\ Len(p) < limit /\ \A r \in Scoped(t, scope) : r <= u)
       => \A r \in Scoped(t, scope) : r <= LastId(p)

\* A page of the rows above the cursor does.
LEMMA ListMore ==
  ASSUME NEW t \in Tables, NEW scope, NEW c \in Nat, NEW u \in Nat,
         NEW limit \in Nat \ {0}, NEW p, p = FirstIds(Window(t, scope, c, u), limit)
  PROVE  Continues(p, t, scope, c, u, limit)
<1> DEFINE S == Scoped(t, scope)
           W == Window(t, scope, c, u)
           n == Len(t)
<1>1. n \in Nat /\ DOMAIN t = 1..n /\ S \in SUBSET (1..n)
  BY ScopedRows, Zenon
<1>2. W \in SUBSET (1..n) /\ \A r : r \in W <=> r \in S /\ c < r /\ r <= u
  BY <1>1, Zenon DEF Window
<1> HIDE DEF S, W, n
<1>3. /\ p \in Seq(W) /\ Ascending(p)
      /\ p = <<>> => W = {}
      /\ p # <<>> => LastId(p) \in W /\ Entries(p) = {x \in W : x <= LastId(p)}
      /\ Len(p) < limit => Entries(p) = W
  <2>1. IsPage(p, W, limit)
    BY <1>1, <1>2, FirstIdsFacts, Zenon DEF W
  <2>2. QED
    BY <2>1, Zenon DEF IsPage
<1>4. W \subseteq Nat /\ \A r \in S : r \in Nat
  BY <1>1, <1>2
<1>5. Len(p) \in Nat /\ DOMAIN p = 1..Len(p) /\ p \in [1..Len(p) -> W]
  BY <1>3, LenProperties, Zenon
<1>6. p \in Seq(Nat) /\ \A x \in Entries(p) : x \in W
  <2>1. p \in [1..Len(p) -> Nat]
    BY <1>4, <1>5, Zenon
  <2>2. \A x \in Entries(p) : x \in W
    BY <1>5, Zenon DEF Entries
  <2>3. p \in Seq(Nat)
    BY <1>5, <2>1
  <2>4. QED
    BY <2>2, <2>3, Zenon
<1>7. \A x \in Entries(p) : x \in DOMAIN t /\ c < x
  BY <1>1, <1>2, <1>6, Zenon
<1>8. ASSUME p # <<>>
      PROVE  /\ LastId(p) \in S /\ LastId(p) \in Nat /\ c < LastId(p)
             /\ Entries(p) = {r \in S : c < r /\ r <= LastId(p)}
  <2>1. LastId(p) \in W /\ LastId(p) \in S /\ LastId(p) \in Nat /\ c < LastId(p) /\ LastId(p) <= u
    BY <1>2, <1>3, <1>4, <1>8, Zenon
  <2>2. \A r \in S : r <= LastId(p) => r <= u
    BY <1>4, <2>1
  <2>3. {x \in W : x <= LastId(p)} = {r \in S : c < r /\ r <= LastId(p)}
    BY <1>2, <2>2, Zenon
  <2>4. QED
    BY <1>3, <1>8, <2>1, <2>3, Zenon
<1>9. ASSUME p = <<>>, \A r \in S : r <= u PROVE \A r \in S : r <= c
  <2>1. \A r \in S : ~(c < r)
    BY <1>2, <1>3, <1>9, Zenon
  <2>2. QED
    BY <1>4, <2>1
<1>10. ASSUME p # <<>>, Len(p) < limit, \A r \in S : r <= u PROVE \A r \in S : r <= LastId(p)
  <2>1. \A r \in S : c < r => r <= LastId(p)
    BY <1>2, <1>3, <1>10, Zenon
  <2>2. QED
    BY <1>4, <1>8, <1>10, <2>1
<1>11. QED
  BY <1>3, <1>6, <1>7, <1>8, <1>9, <1>10, Zenon DEF S, Continues

-------------------------------------------------------------------------------
(* The snapshot pager.                                                     *)

\* Row ids start at 1: nothing is listed up to row zero.
LEMMA ListedNothing ==
  ASSUME NEW t \in Tables, NEW scope
  PROVE  Listed(<<>>, t, scope, 0)
<1>1. Ids(<<>>) = <<>> /\ AsRead(t, <<>>) = <<>> /\ Entries(<<>>) = {}
  BY DEF Ids, AsRead, Entries
<1>2. Ascending(<<>>) /\ <<>> \in Seq(Nat)
  BY DEF Ascending
<1>3. \A r \in Scoped(t, scope) : r \in 1..Len(t)
  BY ScopedRows, Zenon
<1>4. {r \in Scoped(t, scope) : r <= 0} = {}
  BY <1>3, ScopedRows
<1>5. QED
  BY <1>1, <1>2, <1>4, Zenon DEF Listed

\* A pager before its first page.
Unread(p) ==
  /\ p \in PagerType
  /\ p.pc \in {"closed", "bind", "detect", "upper"}
  /\ p.got = <<>> /\ p.cursor = 0 /\ p.upper = 0 /\ ~p.exhausted

\* It lists nothing, as it should.
LEMMA UnreadOk ==
  ASSUME NEW p, Unread(p), NEW scope
  PROVE  PagerOk(p, scope)
<1>1. p.snap \in Tables
  BY Zenon DEF Unread, PagerType
<1>2. Listed(p.got, p.snap, scope, p.cursor)
  BY <1>1, ListedNothing, Zenon DEF Unread
<1>3. QED
  BY <1>2, Zenon DEF Unread, PagerOk

\* A pager that is closed or begins is one.
LEMMA NoPagerUnread ==
  ASSUME NEW pc \in {"closed", "bind", "upper"}
  PROVE  Unread([NoPager EXCEPT !.pc = pc]) /\ Unread(NoPager)
<1>1. <<>> \in Tables
  BY PagingAssumption DEF Tables
<1>2. <<>> \in Seq(Nat \X {"pending", "delivered"})
  OBVIOUS
<1>3. QED
  BY <1>1, <1>2, Zenon DEF Unread, NoPager, PagerType

\* Taking the snapshot reads no page.
LEMMA TakeSnapshotUnread ==
  ASSUME Unread(pager), NEW t \in Tables, NEW pc \in {"detect", "upper"}
  PROVE  Unread(TakeSnapshot(t, pc))
BY Zenon DEF Unread, TakeSnapshot, PagerType

\* The upper bound is that of the snapshot.
LEMMA OpenedOk ==
  ASSUME Unread(pager), NEW t \in Tables, NEW scope
  PROVE  PagerOk(Opened(t, MaxId(t, scope)), scope)
<1> DEFINE u == MaxId(t, scope)
           p == Opened(t, u)
<1>1. /\ u \in Nat /\ \A r \in Scoped(t, scope) : r <= u
      /\ u = 0 => Scoped(t, scope) = {}
  BY MaxIdBounds, Zenon
<1> HIDE DEF u
<1>2. /\ p \in PagerType /\ p.pc = "open" /\ p.taken /\ p.snap = t /\ p.upper = u
      /\ p.exhausted = (u = 0) /\ p.got = <<>> /\ p.cursor = 0
  BY <1>1, Zenon DEF Unread, Opened, TakeSnapshot, PagerType
<1> HIDE DEF p
<1>3. Listed(p.got, p.snap, scope, p.cursor)
  BY <1>2, ListedNothing, Zenon
<1>4. QED
  BY <1>1, <1>2, <1>3, Zenon DEF PagerOk, p, u

\* A page continues what the pager listed.
LEMMA ListedMore ==
  ASSUME NEW t \in Tables, NEW scope, NEW c \in Nat, NEW u \in Nat,
         NEW limit \in Nat \ {0}, NEW p, p = FirstIds(Window(t, scope, c, u), limit),
         p # <<>>, NEW got, Listed(got, t, scope, c)
  PROVE  Listed(got \o AsRead(t, p), t, scope, LastId(p))
<1> DEFINE g == Ids(got)
           S == Scoped(t, scope)
<1>1. /\ g \in Seq(Nat) /\ Ascending(g) /\ Entries(g) = {r \in S : r <= c}
      /\ got = AsRead(t, g)
  BY Zenon DEF Listed
<1>0. Continues(p, t, scope, c, u, limit)
  BY ListMore, Zenon
<1>2. /\ p \in Seq(Nat) /\ Ascending(p)
      /\ \A x \in Entries(p) : x \in DOMAIN t /\ c < x
      /\ LastId(p) \in Nat /\ c < LastId(p)
      /\ Entries(p) = {r \in S : c < r /\ r <= LastId(p)}
  BY <1>0, Zenon DEF Continues
<1>3. S \subseteq DOMAIN t /\ \A r \in S : r \in Nat
  <2>1. DOMAIN t = 1..Len(t) /\ S \in SUBSET (1..Len(t))
    BY ScopedRows, Zenon
  <2> HIDE DEF S
  <2>2. QED
    BY <2>1
<1> HIDE DEF g, S
<1>4. \A x \in Entries(g) : x \in DOMAIN t /\ x <= c
  BY <1>1, <1>3, Zenon
<1>5. /\ g \o p \in Seq(Nat) /\ Ascending(g \o p)
      /\ Entries(g \o p) = Entries(g) \union Entries(p)
  <2>1. g \in Seq(Nat) /\ Ascending(g) /\ p \in Seq(Nat) /\ Ascending(p)
    BY <1>1, <1>2, Zenon
  <2>2. \A x \in Entries(g) : x <= c
    BY <1>4, Zenon
  <2>3. \A x \in Entries(p) : c < x
    BY <1>2, Zenon
  <2>4. QED
    BY <2>1, <2>2, <2>3, AscendingConcat, SMTT(20)
<1>6. Entries(g \o p) = {r \in S : r <= LastId(p)}
  <2>1. \A r \in S : r <= LastId(p) <=> r <= c \/ (c < r /\ r <= LastId(p))
    BY <1>2, <1>3
  <2>2. QED
    BY <1>1, <1>2, <1>5, <2>1, Zenon
<1>7. got \o AsRead(t, p) = AsRead(t, g \o p)
  BY <1>1, <1>2, <1>4, AsReadConcat, Zenon
<1>8. \A x \in Entries(g \o p) : x \in DOMAIN t
  BY <1>3, <1>6, Zenon
<1>9. Ids(AsRead(t, g \o p)) = g \o p
  BY <1>5, <1>8, AsReadFacts, Zenon
<1>10. QED
  BY <1>5, <1>6, <1>7, <1>9, Zenon DEF Listed, S

\* A page the pager returned: it lists the snapshot up to its new cursor, and says
\* it is exhausted only when no row of the snapshot is left.
LEMMA AdvancedOk ==
  ASSUME NEW scope, PagerOk(pager, scope), pager.pc = "open", NEW limit \in Limits,
         NEW ids, ids = FirstIds(Window(pager.snap, scope, pager.cursor, pager.upper), limit)
  PROVE  PagerOk(Advanced(ids, limit), scope)
<1> DEFINE t == pager.snap
           c == pager.cursor
           u == pager.upper
           S == Scoped(t, scope)
           p == Advanced(ids, limit)
           E == Nat \X {"pending", "delivered"}
<1>1. /\ pager \in PagerType /\ t \in Tables /\ c \in Nat /\ u \in Nat
      /\ pager.got \in Seq(E) /\ Listed(pager.got, t, scope, c)
      /\ pager.taken /\ \A r \in S : r <= u
  BY Zenon DEF PagerOk, PagerType
<1>2. limit \in Nat \ {0}
  BY PagingAssumption, Zenon
<1> HIDE DEF t, c, u, S, p, E
<1>3. Continues(ids, t, scope, c, u, limit)
  BY <1>1, <1>2, ListMore, Zenon DEF t, c, u
<1>4. ids \in Seq(Nat) /\ \A x \in Entries(ids) : x \in DOMAIN t
  BY <1>3, Zenon DEF Continues
<1>5. AsRead(t, ids) \in Seq(E)
  BY <1>1, <1>4, AsReadFacts, Zenon DEF E
<1>6. pager.got \o AsRead(t, ids) \in Seq(E)
  BY <1>1, <1>5, ConcatProperties, Zenon
<1>7. /\ p.pc = pager.pc /\ p.taken = pager.taken /\ p.snap = t /\ p.upper = u
      /\ p.cursor = IF ids = <<>> THEN c ELSE LastId(ids)
      /\ p.exhausted = (ids = <<>> \/ Len(ids) < limit \/ LastId(ids) = u)
      /\ p.got = pager.got \o AsRead(t, ids)
  BY <1>1, Zenon DEF p, Advanced, PagerType, t, c, u
<1>8. (IF ids = <<>> THEN c ELSE LastId(ids)) \in Nat
  BY <1>1, <1>3, Zenon DEF Continues
<1>9. p \in PagerType
  <2>1. p = [pager EXCEPT !.cursor = p.cursor, !.exhausted = p.exhausted, !.got = p.got]
    BY <1>1, Zenon DEF p, Advanced, PagerType
  <2>2. p.cursor \in Nat /\ p.exhausted \in BOOLEAN /\ p.got \in Seq(E)
    BY <1>6, <1>7, <1>8, Zenon
  <2>3. QED
    BY <1>1, <2>1, <2>2, Zenon DEF PagerType, E
<1>10. Listed(p.got, t, scope, p.cursor)
  <2>1. CASE ids = <<>>
    <3>1. AsRead(t, ids) = <<>>
      BY <2>1 DEF AsRead
    <3>2. p.got = pager.got
      BY <1>1, <1>7, <3>1, ConcatEmptySeq
    <3>3. QED
      BY <1>1, <1>7, <2>1, <3>2, Zenon
  <2>2. CASE ids # <<>>
    <3>1. Listed(pager.got \o AsRead(t, ids), t, scope, LastId(ids))
      BY <1>1, <1>2, <2>2, ListedMore, Zenon DEF t, c, u
    <3>2. QED
      BY <1>7, <2>2, <3>1, Zenon
  <2>3. QED
    BY <2>1, <2>2, Zenon
<1>11. ASSUME p.exhausted PROVE \A r \in S : r <= p.cursor
  <2>1. CASE ids = <<>>
    BY <1>1, <1>3, <1>7, <2>1, Zenon DEF Continues, S
  <2>2. CASE ids # <<>> /\ Len(ids) < limit
    BY <1>1, <1>3, <1>7, <2>2, Zenon DEF Continues, S
  <2>3. CASE ids # <<>> /\ LastId(ids) = u
    BY <1>1, <1>7, <2>3, Zenon
  <2>4. QED
    BY <1>7, <1>11, <2>1, <2>2, <2>3, Zenon
<1>12. QED
  BY <1>1, <1>7, <1>9, <1>10, <1>11, Zenon DEF PagerOk, p, S

\* An open pager whose read failed keeps what it listed.
LEMMA FailedOk ==
  ASSUME NEW scope, PagerOk(pager, scope), pager.pc = "open", NEW pc \in {"aborted", "failed"}
  PROVE  PagerOk([pager EXCEPT !.pc = pc], scope)
BY Zenon DEF PagerOk, PagerType

\* The pages of a pager are a prefix of the export of its snapshot, and an
\* exhausted pager returned all of it.
LEMMA PagerOkExact ==
  ASSUME PagerOk(pager, handle)
  PROVE  SnapshotExact
<1> DEFINE t == pager.snap
           c == pager.cursor
           S == Scoped(t, handle)
           g == Ids(pager.got)
           e == InOrder(S)
           m == Len(g)
           n == Len(e)
<1>1. /\ t \in Tables /\ c \in Nat /\ g \in Seq(Nat) /\ Ascending(g)
      /\ Entries(g) = {r \in S : r <= c} /\ pager.got = AsRead(t, g)
      /\ pager.exhausted => \A r \in S : r <= c
  BY Zenon DEF PagerOk, PagerType, Listed
<1>2. Len(t) \in Nat /\ S \in SUBSET (1..Len(t)) /\ DOMAIN t = 1..Len(t)
  BY <1>1, ScopedRows, Zenon
<1> HIDE DEF S
<1>3. e \in Seq(S) /\ Ascending(e) /\ Entries(e) = S
  BY <1>2, InOrderFacts, Zenon
<1> HIDE DEF t, c, g, e
<1>4. n \in Nat /\ e \in [1..n -> S] /\ S \subseteq Nat
  BY <1>2, <1>3, LenProperties
<1>5. /\ m \in Nat /\ g \in [1..m -> Nat] /\ e \in [1..n -> Nat]
      /\ DOMAIN g = 1..m /\ DOMAIN e = 1..n
  BY <1>1, <1>4, LenProperties, Zenon
<1> HIDE DEF m, n
<1>6. m <= n /\ Agree(g, e, m)
  <2>1. Entries(g) = {x \in Entries(e) : x <= c}
    BY <1>1, <1>3, Zenon
  <2>2. QED
    BY <1>1, <1>3, <1>4, <1>5, <2>1, AscendingPrefix, Zenon
<1>7. \A k \in 1..m : g[k] = e[k] /\ k \in 1..n
  BY <1>4, <1>5, <1>6 DEF Agree
<1>8. e \in Seq(Nat)
  BY <1>4, <1>5
<1>9. /\ AsRead(t, g) = [k \in 1..m |-> <<g[k], t[g[k]].state>>]
      /\ AsRead(t, e) = [k \in 1..n |-> <<e[k], t[e[k]].state>>]
  BY <1>5, Zenon DEF AsRead
<1> DEFINE E == Nat \X {"pending", "delivered"}
<1>10. /\ AsRead(t, g) \in Seq(E) /\ Len(AsRead(t, g)) = m
       /\ AsRead(t, e) \in Seq(E) /\ Len(AsRead(t, e)) = n
  BY <1>1, <1>2, <1>3, <1>8, AsReadFacts, Zenon DEF m, n
<1> HIDE DEF E
<1>11. Export = AsRead(t, e)
  BY Zenon DEF Export, t, e, S
<1>12. Len(pager.got) <= Len(Export) /\ pager.got = SubSeq(Export, 1, Len(pager.got))
  <2> DEFINE a == AsRead(t, g)
             b == AsRead(t, e)
  <2>1. \A k \in 1..m : a[k] = b[k]
    BY <1>7, <1>9
  <2>2. \A k \in 1..m : a[k] \in E /\ b[k] \in E
    BY <1>5, <1>7, <1>10, LenProperties
  <2>0. a \in Seq(E) /\ Len(a) = m
    BY <1>10, Zenon
  <2> HIDE DEF a, b
  <2>4. SubSeq(b, 1, m) \in Seq(E) /\ Len(SubSeq(b, 1, m)) = m
        /\ \A k \in 1..m : SubSeq(b, 1, m)[k] = b[k]
    BY <1>5, <2>2, SubSeqProperties
  <2>5. a = SubSeq(b, 1, m)
    BY <2>0, <2>1, <2>4, SeqEqual, SMTT(20)
  <2>6. QED
    BY <1>1, <1>6, <1>10, <1>11, <2>5, Zenon DEF a, b
<1>13. ASSUME pager.exhausted PROVE pager.got = Export
  <2>1. Entries(g) = Entries(e)
    BY <1>1, <1>3, <1>13, Zenon
  <2>2. \A x \in Entries(e) : x <= c
    BY <1>1, <1>3, <1>13, Zenon
  <2>3. g = e
    BY <1>1, <1>3, <1>4, <1>5, <2>1, <2>2, AscendingSame, Zenon
  <2>4. QED
    BY <1>1, <1>11, <2>3, Zenon
<1>14. QED
  BY <1>12, <1>13, Zenon DEF SnapshotExact

-------------------------------------------------------------------------------
(* The table and the live reader.                                          *)

\* A new row is not committed: no reader sees it.
LEMMA AllocateRows ==
  ASSUME rows \in Tables, NEW o \in Owners, Allocate(o), NEW scope
  PROVE  /\ rows' \in Tables /\ Scoped(rows', scope) = Scoped(rows, scope)
         /\ Len(rows') = Len(rows) + 1 /\ rows'[Len(rows) + 1].status = "open"
         /\ \A r \in DOMAIN rows : rows'[r] = rows[r]
<1> DEFINE new == [tenant |-> o, status |-> "open", state |-> "pending"]
           n == Len(rows)
<1>1. /\ rows \in Seq(PageRow) /\ n \in Nat /\ n <= MaxRow /\ DOMAIN rows = 1..n
  BY ScopedRows, Zenon DEF Tables
<1>2. rows' = Append(rows, new) /\ n < MaxRow
  BY Zenon DEF Allocate
<1>3. new \in PageRow /\ new.status = "open"
  BY Zenon DEF PageRow
<1> HIDE DEF new
<1>4. /\ rows' \in Seq(PageRow) /\ Len(rows') = n + 1
      /\ \A i \in 1..n : rows'[i] = rows[i]
      /\ rows'[n + 1] = new
  BY <1>1, <1>2, <1>3, AppendProperties
<1> HIDE DEF n
<1>5. DOMAIN rows' = 1..(n + 1)
  BY <1>4, LenProperties, Zenon
<1>6. rows' \in Tables
  BY <1>1, <1>2, <1>4, PagingAssumption, SMTT(20) DEF Tables
<1>7. \A r : r \in 1..(n + 1) <=> r \in 1..n \/ r = n + 1
  BY <1>1
<1>8. n + 1 \notin 1..n
  BY <1>1
<1>9. Scoped(rows', scope) = Scoped(rows, scope)
  BY <1>1, <1>3, <1>4, <1>5, <1>7, <1>8, Zenon DEF Scoped
<1>10. QED
  BY <1>1, <1>3, <1>4, <1>6, <1>9, Zenon DEF n

\* An update of one row that keeps its tenant keeps the table a table.
LEMMA UpdateRows ==
  ASSUME rows \in Tables, NEW r \in DOMAIN rows, NEW new \in PageRow,
         rows' = [rows EXCEPT ![r] = new], NEW scope
  PROVE  /\ rows' \in Tables /\ Len(rows') = Len(rows) /\ DOMAIN rows' = DOMAIN rows
         /\ rows'[r] = new /\ \A q \in DOMAIN rows : q # r => rows'[q] = rows[q]
<1>1. rows \in Seq(PageRow) /\ Len(rows) <= MaxRow /\ DOMAIN rows = 1..Len(rows)
  BY ScopedRows, Zenon DEF Tables
<1>2. rows' \in Seq(PageRow) /\ Len(rows') = Len(rows)
  BY <1>1, ExceptSeq
<1>3. DOMAIN rows' = DOMAIN rows
  BY Zenon
<1>4. QED
  BY <1>1, <1>2, <1>3, Zenon DEF Tables

\* A commit makes its row visible, and no other.
LEMMA CommitRows ==
  ASSUME rows \in Tables, NEW r \in DOMAIN rows, CommitRow(r), NEW scope
  PROVE  /\ rows' \in Tables /\ Len(rows') = Len(rows) /\ DOMAIN rows' = DOMAIN rows
         /\ r \notin Scoped(rows, scope)
         /\ Scoped(rows, scope) \subseteq Scoped(rows', scope)
         /\ Scoped(rows', scope) \subseteq Scoped(rows, scope) \union {r}
         /\ \A q \in DOMAIN rows : rows'[q].status = "open" => rows[q].status = "open"
<1> DEFINE new == [rows[r] EXCEPT !.status = "committed"]
<1>1. rows[r] \in PageRow /\ rows[r].status = "open"
  BY ScopedRows, Zenon DEF CommitRow
<1>2. new \in PageRow /\ new.status = "committed"
  BY <1>1, Zenon DEF PageRow
<1>3. rows' = [rows EXCEPT ![r] = new]
  BY Zenon DEF CommitRow
<1> HIDE DEF new
<1>4. /\ rows' \in Tables /\ Len(rows') = Len(rows) /\ DOMAIN rows' = DOMAIN rows
      /\ rows'[r] = new /\ \A q \in DOMAIN rows : q # r => rows'[q] = rows[q]
  BY <1>2, <1>3, UpdateRows, Zenon
<1>5. r \notin Scoped(rows, scope)
  BY <1>1, Zenon DEF Scoped
<1>6. \A q \in DOMAIN rows : q # r => (q \in Scoped(rows', scope) <=> q \in Scoped(rows, scope))
  BY <1>4, Zenon DEF Scoped
<1>7. /\ Scoped(rows, scope) \subseteq DOMAIN rows
      /\ Scoped(rows', scope) \subseteq DOMAIN rows
  BY <1>4, Zenon DEF Scoped
<1>8. \A q \in DOMAIN rows : rows'[q].status = "open" => rows[q].status = "open"
  BY <1>1, <1>4, Zenon
<1>9. QED
  BY <1>4, <1>5, <1>6, <1>7, <1>8, Zenon

\* A rollback and a delivery change no row's visibility.
LEMMA OtherRows ==
  ASSUME rows \in Tables, NEW r \in DOMAIN rows, RollbackRow(r) \/ DeliverRow(r), NEW scope
  PROVE  /\ rows' \in Tables /\ Len(rows') = Len(rows) /\ DOMAIN rows' = DOMAIN rows
         /\ Scoped(rows', scope) = Scoped(rows, scope)
         /\ \A q \in DOMAIN rows : rows'[q].status = "open" => rows[q].status = "open"
<1>1. rows[r] \in PageRow
  BY ScopedRows, Zenon
<1>2. PICK new \in PageRow :
         /\ rows' = [rows EXCEPT ![r] = new]
         /\ new.tenant = rows[r].tenant
         /\ new.status = "committed" <=> rows[r].status = "committed"
         /\ new.status = "open" => rows[r].status = "open"
  <2>1. CASE RollbackRow(r)
    <3> DEFINE new == [rows[r] EXCEPT !.status = "rolled_back"]
    <3>1. new \in PageRow /\ new.tenant = rows[r].tenant /\ new.status = "rolled_back"
      BY <1>1, Zenon DEF PageRow
    <3>2. rows' = [rows EXCEPT ![r] = new] /\ rows[r].status = "open"
      BY <2>1, Zenon DEF RollbackRow
    <3> HIDE DEF new
    <3>3. QED
      BY <3>1, <3>2, Zenon
  <2>2. CASE DeliverRow(r)
    <3> DEFINE new == [rows[r] EXCEPT !.state = "delivered"]
    <3>1. new \in PageRow /\ new.tenant = rows[r].tenant /\ new.status = rows[r].status
      BY <1>1, Zenon DEF PageRow
    <3>2. rows' = [rows EXCEPT ![r] = new]
      BY <2>2, Zenon DEF DeliverRow
    <3> HIDE DEF new
    <3>3. QED
      BY <3>1, <3>2, Zenon
  <2>3. QED
    BY <2>1, <2>2, Zenon
<1>4. /\ rows' \in Tables /\ Len(rows') = Len(rows) /\ DOMAIN rows' = DOMAIN rows
      /\ rows'[r] = new /\ \A q \in DOMAIN rows : q # r => rows'[q] = rows[q]
  BY <1>2, UpdateRows, Zenon
<1>5. Scoped(rows', scope) = Scoped(rows, scope)
  BY <1>2, <1>4 DEF Scoped
<1>6. QED
  BY <1>2, <1>4, <1>5, Zenon

\* SQLite's rollback takes back the row of the one writer, the last row.
LEMMA RollbackInsertRows ==
  ASSUME rows \in Tables, OneWriter(live, rows), RollbackInsert, NEW scope
  PROVE  /\ rows' \in Tables /\ Scoped(rows', scope) = Scoped(rows, scope)
         /\ \A q \in DOMAIN rows' : rows'[q].status # "open"
<1> DEFINE n == Len(rows)
<1>1. rows \in Seq(PageRow) /\ n \in Nat /\ n <= MaxRow /\ DOMAIN rows = 1..n
  BY ScopedRows, Zenon DEF Tables
<1>2. n \in 1..n /\ rows[n].status = "open" /\ \A q \in 1..n : rows[q].status = "open" => q = n
  <2>1. PICK q \in DOMAIN rows : rows[q].status = "open"
    BY Zenon DEF RollbackInsert, Writing
  <2>2. q = n
    BY <2>1, Zenon DEF OneWriter
  <2>3. QED
    BY <1>1, <2>1, <2>2, Zenon DEF OneWriter
<1>3. rows' = SubSeq(rows, 1, n - 1)
  BY Zenon DEF RollbackInsert
<1> HIDE DEF n
<1>4. \A q \in 1..(n - 1) : q \in 1..n /\ q # n
  BY <1>1
<1>5. \A q \in 1..(n - 1) : rows[q] \in PageRow
  BY <1>1, <1>4, LenProperties, SMTT(20)
<1>6. /\ rows' \in Seq(PageRow) /\ Len(rows') = n - 1
      /\ \A q \in 1..(n - 1) : rows'[q] = rows[q]
  BY <1>1, <1>2, <1>3, <1>5, SubSeqProperties, SMTT(20)
<1>7. DOMAIN rows' = 1..(n - 1)
  BY <1>6, LenProperties, Zenon
<1>8. rows' \in Tables
  BY <1>1, <1>6, PagingAssumption, SMTT(20) DEF Tables
<1>9. \A q : q \in 1..n <=> q \in 1..(n - 1) \/ q = n
  BY <1>1, <1>2
<1>10. Scoped(rows', scope) = Scoped(rows, scope)
  BY <1>1, <1>2, <1>6, <1>7, <1>9, Zenon DEF Scoped
<1>11. QED
  BY <1>2, <1>4, <1>6, <1>7, <1>8, <1>10, Zenon

\* What the live reader returned depends on the table by the visible rows only.
LEMMA LiveSame ==
  ASSUME NEW l, NEW t, NEW v, NEW scope,
         Scoped(v, scope) = Scoped(t, scope), LiveOk(l, t, scope)
  PROVE  LiveOk(l, v, scope)
BY Zenon DEF LiveOk

\* A row that commits behind the cursor is late, and one that commits above it is
\* still to be read; the cursor's own row has committed.
LEMMA LiveCommit ==
  ASSUME rows \in Tables, NEW scope, LiveOk(live, rows, scope),
         NEW r \in DOMAIN rows, CommitRow(r)
  PROVE  LiveOk(live', rows', scope)
<1> DEFINE S == Scoped(rows, scope)
           T == Scoped(rows', scope)
           c == live.cursor
<1>1. /\ c \in Nat /\ live.got \in Seq(Nat) /\ live.late \in SUBSET Nat
      /\ live = [cursor |-> c, got |-> live.got, late |-> live.late]
      /\ Ascending(live.got) /\ Entries(live.got) = {q \in S : q <= c} \ live.late
      /\ \A q \in live.late : q < c
      /\ c = 0 \/ c \in S
  BY Zenon DEF LiveOk
<1>2. r \notin S /\ S \subseteq T /\ T \subseteq S \union {r}
  BY CommitRows, Zenon
<1>3. r \in Nat /\ r # 0
  <2>1. r \in 1..Len(rows)
    BY ScopedRows, Zenon
  <2>2. QED
    BY <2>1, ScopedRows
<1>4. live' = [live EXCEPT !.late = IF r < c THEN @ \union {r} ELSE @]
  BY Zenon DEF CommitRow
<1> HIDE DEF S, T, c
<1>5. r # c
  BY <1>1, <1>2, <1>3
<1>6. CASE r < c
  <2>1. /\ live'.cursor = c /\ live'.got = live.got /\ live'.late = live.late \union {r}
        /\ live' \in [cursor : Nat, got : Seq(Nat), late : SUBSET Nat]
    BY <1>1, <1>3, <1>4, <1>6, SMTT(20)
  <2>2. {q \in T : q <= c} \ (live.late \union {r}) = {q \in S : q <= c} \ live.late
    BY <1>2, Zenon
  <2>3. \A q \in live.late \union {r} : q < c
    BY <1>1, <1>6, Zenon
  <2>4. c = 0 \/ c \in T
    BY <1>1, <1>2, Zenon
  <2>5. QED
    BY <1>1, <2>1, <2>2, <2>3, <2>4, Zenon DEF LiveOk, T
<1>7. CASE ~(r < c)
  <2>1. live' = live
    BY <1>1, <1>4, <1>7, SMTT(20)
  <2>2. ~(r <= c)
    BY <1>1, <1>3, <1>5, <1>7, SMTT(20)
  <2>3. {q \in T : q <= c} = {q \in S : q <= c}
    BY <1>2, <2>2, SMTT(20)
  <2>4. c = 0 \/ c \in T
    BY <1>1, <1>2, Zenon
  <2>5. /\ live \in [cursor : Nat, got : Seq(Nat), late : SUBSET Nat]
        /\ Entries(live.got) = {q \in T : q <= c} \ live.late
    BY <1>1, <2>3, Zenon DEF LiveOk
  <2>6. QED
    BY <1>1, <2>1, <2>4, <2>5, Zenon DEF LiveOk, T, c
<1>8. QED
  BY <1>6, <1>7, Zenon

\* A page continues what the live reader returned, up to the page's last row.
LEMMA LivePageOk ==
  ASSUME rows \in Tables, NEW scope, LiveOk(live, rows, scope), NEW limit \in Limits,
         NEW ids, ids = FirstIds(Window(rows, scope, live.cursor, MaxRow), limit),
         LivePage(ids)
  PROVE  LiveOk(live', rows, scope) /\ live'.late = live.late
<1> DEFINE S == Scoped(rows, scope)
           c == live.cursor
<1>1. /\ c \in Nat /\ live.got \in Seq(Nat) /\ live.late \in SUBSET Nat
      /\ live \in [cursor : Nat, got : Seq(Nat), late : SUBSET Nat]
      /\ Ascending(live.got) /\ Entries(live.got) = {q \in S : q <= c} \ live.late
      /\ \A q \in live.late : q < c
      /\ c = 0 \/ c \in S
  BY Zenon DEF LiveOk
<1>2. MaxRow \in Nat /\ limit \in Nat \ {0}
  BY PagingAssumption, Zenon
<1>3. Continues(ids, rows, scope, c, MaxRow, limit)
  BY <1>1, <1>2, ListMore, Zenon
<1> HIDE DEF S
<1>4. S \subseteq Nat
  <2>1. S \in SUBSET (1..Len(rows)) /\ Len(rows) \in Nat
    BY ScopedRows, Zenon DEF S
  <2>2. QED
    BY <2>1
<1>5. CASE ~(Hydrates(ids) /\ ids # <<>>)
  BY <1>5, Zenon DEF LivePage
<1>6. CASE Hydrates(ids) /\ ids # <<>>
  <2>1. live' = [live EXCEPT !.cursor = LastId(ids), !.got = @ \o ids]
    BY <1>6, Zenon DEF LivePage
  <2>2. /\ ids \in Seq(Nat) /\ Ascending(ids) /\ \A x \in Entries(ids) : c < x
        /\ LastId(ids) \in S /\ LastId(ids) \in Nat /\ c < LastId(ids)
        /\ Entries(ids) = {r \in S : c < r /\ r <= LastId(ids)}
    BY <1>3, <1>6, Zenon DEF Continues, S
  <2>3. \A x \in Entries(live.got) : x <= c
    BY <1>1, Zenon
  <2> DEFINE g == live.got
  <2>4. g \in Seq(Nat) /\ Ascending(g) /\ ids \in Seq(Nat) /\ Ascending(ids)
    BY <1>1, <2>2, Zenon
  <2>5. \A x \in Entries(ids) : c < x
    BY <2>2, Zenon
  <2> HIDE DEF g, c
  <2>6. /\ g \o ids \in Seq(Nat) /\ Ascending(g \o ids)
        /\ Entries(g \o ids) = Entries(g) \union Entries(ids)
    <3>1. \A x \in Entries(g) : x <= c
      BY <2>3, Zenon DEF g
    <3>2. c \in Nat
      BY <1>1, Zenon
    <3>3. QED
      BY <3>1, <3>2, <2>4, <2>5, AscendingConcat, SMTT(20)
  <2>7. /\ live'.cursor = LastId(ids) /\ live'.got = g \o ids /\ live'.late = live.late
        /\ live' \in [cursor : Nat, got : Seq(Nat), late : SUBSET Nat]
    BY <1>1, <2>1, <2>2, <2>6, Zenon DEF g
  <2>8. \A q \in S : (q <= LastId(ids) <=> q <= c \/ (c < q /\ q <= LastId(ids)))
    BY <1>1, <1>4, <2>2
  <2>9. \A q \in live.late : ~(c < q)
    BY <1>1
  <2>10. Entries(g \o ids) = {q \in S : q <= LastId(ids)} \ live.late
    BY <1>1, <2>2, <2>6, <2>8, <2>9, Zenon DEF g
  <2>11. \A q \in live.late : q < LastId(ids)
    BY <1>1, <2>2
  <2>12. QED
    <3>1. Ascending(live'.got) /\ live'.cursor \in S
      BY <2>2, <2>6, <2>7, Zenon
    <3>2. Entries(live'.got) = {q \in S : q <= live'.cursor} \ live'.late
      BY <2>7, <2>10, Zenon
    <3>3. \A q \in live'.late : q < live'.cursor
      BY <2>7, <2>11, Zenon
    <3> HIDE DEF LivePage
    <3>4. LiveOk(live', rows, scope)
      BY <2>7, <3>1, <3>2, <3>3, Zenon DEF LiveOk, S
    <3>5. QED
      BY <2>7, <3>4, Zenon
<1>7. QED
  BY <1>5, <1>6, Zenon

\* What the live reader returned misses only late rows.
LEMMA LiveOkComplete ==
  ASSUME LiveOk(live, rows, handle), adapter = "sqlite" => OneWriter(live, rows)
  PROVE  LivePagesComplete
BY Zenon DEF LiveOk, OneWriter, LivePagesComplete, LiveMissesOnlyLate, LiveComplete, Ascending,
             Entries

-------------------------------------------------------------------------------
(* The steps of the adapters.                                              *)

\* The rest of the state while the pager moves.
LEMMA PagerMoves ==
  ASSUME PagersInv, UNCHANGED <<rows, live, handle, adapter>>, PagerOk(pager', handle)
  PROVE  PagersInv'
BY Zenon DEF PagersInv

\* The rest of the state while the live reader moves.
LEMMA LiveMoves ==
  ASSUME PagersInv, UNCHANGED <<handle, adapter>>, NEW limit \in Limits,
         LivePage(FirstIds(Window(rows, handle, live.cursor, MaxRow), limit))
  PROVE  PagersInv'
<1>1. rows' = rows /\ pager' = pager
  BY Zenon DEF LivePage
<1>2. LiveOk(live', rows, handle) /\ live'.late = live.late
  BY LivePageOk, Zenon DEF PagersInv
<1>3. QED
  BY <1>1, <1>2, Zenon DEF PagersInv, OneWriter

\* A producer's or a worker's step keeps the readers' part; that SQLite's only
\* writer has the last row is shown where its steps are.
LEMMA RowsMove ==
  ASSUME PagersInv, UNCHANGED <<handle, adapter>>,
         \/ \E o \in Owners : Allocate(o)
         \/ \E r \in DOMAIN rows : CommitRow(r) \/ RollbackRow(r) \/ DeliverRow(r),
         adapter = "sqlite" => OneWriter(live', rows')
  PROVE  PagersInv'
<1>1. rows \in Tables /\ LiveOk(live, rows, handle)
  BY Zenon DEF PagersInv
<1>2. rows' \in Tables /\ LiveOk(live', rows', handle) /\ pager' = pager
  <2>1. ASSUME NEW o \in Owners, Allocate(o)
        PROVE  rows' \in Tables /\ LiveOk(live', rows', handle) /\ pager' = pager
    <3>1. rows' \in Tables /\ Scoped(rows', handle) = Scoped(rows, handle)
      BY <1>1, <2>1, AllocateRows, Zenon
    <3>2. live' = live /\ pager' = pager
      BY <2>1, Zenon DEF Allocate
    <3>3. LiveOk(live, rows', handle)
      BY <1>1, <3>1, LiveSame, Zenon
    <3>4. QED
      BY <3>1, <3>2, <3>3, Zenon
  <2>2. ASSUME NEW r \in DOMAIN rows, CommitRow(r)
        PROVE  rows' \in Tables /\ LiveOk(live', rows', handle) /\ pager' = pager
    <3>1. rows' \in Tables
      BY <1>1, <2>2, CommitRows, Zenon
    <3>2. LiveOk(live', rows', handle)
      BY <1>1, <2>2, LiveCommit, Zenon
    <3>3. pager' = pager
      BY <2>2, Zenon DEF CommitRow
    <3>4. QED
      BY <3>1, <3>2, <3>3, Zenon
  <2>3. ASSUME NEW r \in DOMAIN rows, RollbackRow(r) \/ DeliverRow(r)
        PROVE  rows' \in Tables /\ LiveOk(live', rows', handle) /\ pager' = pager
    <3>1. rows' \in Tables /\ Scoped(rows', handle) = Scoped(rows, handle)
      BY <1>1, <2>3, OtherRows, Zenon
    <3>2. live' = live /\ pager' = pager
      BY <2>3, Zenon DEF RollbackRow, DeliverRow
    <3>3. LiveOk(live, rows', handle)
      BY <1>1, <3>1, LiveSame, Zenon
    <3>4. QED
      BY <3>1, <3>2, <3>3, Zenon
  <2>4. QED
    BY <2>1, <2>2, <2>3, Zenon
<1>3. QED
  BY <1>2, Zenon DEF PagersInv

\* A pager that is neither closed nor open has read no page.
LEMMA StillUnread ==
  ASSUME PagerOk(pager, handle), pager.pc \in {"closed", "bind", "detect", "upper"}
  PROVE  Unread(pager)
BY Zenon DEF PagerOk, Unread

\* A page of the pager, or a page refused because a row of it is bad.
LEMMA NextPageOk ==
  ASSUME PagersInv, UNCHANGED <<rows, live, handle, adapter>>, pager.pc = "open",
         NEW limit \in Limits, NEW ids,
         ids = FirstIds(Window(pager.snap, handle, pager.cursor, pager.upper), limit),
         pager' \in {Advanced(ids, limit), pager, [pager EXCEPT !.pc = "failed"]}
  PROVE  PagersInv'
<1>1. PagerOk(pager, handle)
  BY Zenon DEF PagersInv
<1>2. PagerOk(Advanced(ids, limit), handle)
  BY <1>1, AdvancedOk, Zenon
<1>3. PagerOk([pager EXCEPT !.pc = "failed"], handle)
  BY <1>1, FailedOk, Zenon
<1>4. PagerOk(pager', handle)
  BY <1>1, <1>2, <1>3, Zenon
<1>5. QED
  BY <1>4, PagerMoves, Zenon

\* A read that failed.
LEMMA FailOk ==
  ASSUME PagersInv, UNCHANGED <<rows, live, handle, adapter>>, pager.pc = "open",
         NEW pc \in {"aborted", "failed"}, pager' = [pager EXCEPT !.pc = pc]
  PROVE  PagersInv'
<1>1. PagerOk([pager EXCEPT !.pc = pc], handle)
  BY FailedOk, Zenon DEF PagersInv
<1>2. QED
  BY <1>1, PagerMoves, Zenon

\* A pager that was closed, or begins without a snapshot.
LEMMA FreshOk ==
  ASSUME PagersInv, UNCHANGED <<rows, live, handle, adapter>>,
         NEW pc \in {"closed", "bind", "upper"},
         pager' = NoPager \/ pager' = [NoPager EXCEPT !.pc = pc]
  PROVE  PagersInv'
<1>1. Unread(pager')
  BY NoPagerUnread, Zenon
<1>2. QED
  BY <1>1, UnreadOk, PagerMoves, Zenon

\* A pager whose transaction sees the table from now on.
LEMMA SnapshotOk ==
  ASSUME PagersInv, UNCHANGED <<rows, live, handle, adapter>>,
         pager.pc \in {"closed", "bind"}, NEW pc \in {"detect", "upper"},
         pager' = TakeSnapshot(rows, pc)
  PROVE  PagersInv'
<1>1. Unread(pager)
  BY StillUnread, Zenon DEF PagersInv
<1>2. Unread(pager')
  BY <1>1, TakeSnapshotUnread, Zenon DEF PagersInv
<1>3. QED
  BY <1>2, UnreadOk, PagerMoves, Zenon

\* A pager that read its upper bound, in its snapshot or in the one it takes.
LEMMA UpperOk ==
  ASSUME PagersInv, UNCHANGED <<rows, live, handle, adapter>>, pager.pc = "upper",
         NEW t \in {rows, pager.snap}, pager' = Opened(t, MaxId(t, handle))
  PROVE  PagersInv'
<1>1. Unread(pager)
  BY StillUnread, Zenon DEF PagersInv
<1>2. rows \in Tables /\ pager.snap \in Tables
  BY Zenon DEF PagersInv, PagerOk, PagerType
<1>3. PagerOk(pager', handle)
  BY <1>1, <1>2, OpenedOk, Zenon
<1>4. QED
  BY <1>3, PagerMoves, Zenon

\* PostgreSQL: the snapshot is taken by the tenant's binding or by the read of the
\* upper bound.
LEMMA PgStepInv ==
  ASSUME PagersInv, adapter = "postgres", PgStep, UNCHANGED <<handle, adapter>>
  PROVE  PagersInv'
<1>0. pager.pc = "open" => pager.taken
  BY Zenon DEF PagersInv, PagerOk
<1>1. CASE \/ \E t \in Owners : Allocate(t)
           \/ \E r \in DOMAIN rows : CommitRow(r) \/ RollbackRow(r) \/ DeliverRow(r)
  BY <1>1, RowsMove, Zenon
<1>2. ASSUME NEW limit \in Limits, pg_page(limit) PROVE PagersInv'
  BY <1>2, LiveMoves, Zenon DEF pg_page, pg_query_page, Window
<1>3. ASSUME NEW limit \in Limits, pg_next_page(limit) PROVE PagersInv'
  <2> DEFINE ids == FirstIds(Window(pager.snap, handle, pager.cursor, pager.upper), limit)
  <2>1. pager.pc = "open" /\ UNCHANGED <<rows, live>>
    BY <1>3, Zenon DEF pg_next_page
  <2>2. ids = pg_query_page(PgSnapshotTable, pager.cursor, pager.upper, limit)
    BY <1>0, <2>1, Zenon DEF pg_query_page, PgSnapshotTable, Window
  <2> HIDE DEF ids
  <2>3. pager' \in {Advanced(ids, limit), pager, [pager EXCEPT !.pc = "failed"]}
    BY <1>3, <2>2, Zenon DEF pg_next_page
  <2>4. QED
    BY <2>1, <2>3, NextPageOk, Zenon DEF ids
<1>4. CASE PgBeginSnapshot
  BY <1>4, FreshOk, Zenon DEF PgBeginSnapshot
<1>5. CASE PgBindTenant
  BY <1>5, SnapshotOk, Zenon DEF PgBindTenant
<1>6. CASE PgReadUpper
  <2>1. PgSnapshotTable \in {rows, pager.snap}
    BY Zenon DEF PgSnapshotTable
  <2>2. QED
    BY <1>6, <2>1, UpperOk, Zenon DEF PgReadUpper
<1>7. CASE PgFailRead
  BY <1>7, FailOk, Zenon DEF PgFailRead
<1>8. CASE PgFinish
  BY <1>8, FreshOk, Zenon DEF PgFinish
<1>9. QED
  BY <1>1, <1>2, <1>3, <1>4, <1>5, <1>6, <1>7, <1>8, Zenon DEF PgStep

\* MySQL and MariaDB: the snapshot is taken first, and a refused backend closes.
LEMMA MysqlStepInv ==
  ASSUME PagersInv, adapter = "mysql", MysqlStep, UNCHANGED <<handle, adapter>>
  PROVE  PagersInv'
<1>0. pager.pc = "open" => pager.taken
  BY Zenon DEF PagersInv, PagerOk
<1>1. CASE \/ \E t \in Owners : Allocate(t)
           \/ \E r \in DOMAIN rows : CommitRow(r) \/ RollbackRow(r) \/ DeliverRow(r)
  BY <1>1, RowsMove, Zenon
<1>2. ASSUME NEW limit \in Limits, mysql_page(limit) PROVE PagersInv'
  BY <1>2, LiveMoves, Zenon DEF mysql_page, mysql_query_page, Window
<1>3. ASSUME NEW limit \in Limits, mysql_next_page(limit) PROVE PagersInv'
  <2> DEFINE ids == FirstIds(Window(pager.snap, handle, pager.cursor, pager.upper), limit)
  <2>1. pager.pc = "open" /\ UNCHANGED <<rows, live>>
    BY <1>3, Zenon DEF mysql_next_page
  <2>2. ids = mysql_query_page(MysqlSnapshotTable, pager.cursor, pager.upper, limit)
    BY <1>0, <2>1, Zenon DEF mysql_query_page, MysqlSnapshotTable, Window
  <2> HIDE DEF ids
  <2>3. pager' \in {Advanced(ids, limit), pager, [pager EXCEPT !.pc = "failed"]}
    BY <1>3, <2>2, Zenon DEF mysql_next_page
  <2>4. QED
    BY <2>1, <2>3, NextPageOk, Zenon DEF ids
<1>4. CASE MysqlBeginSnapshot
  BY <1>4, SnapshotOk, Zenon DEF MysqlBeginSnapshot
<1>5. CASE MysqlDetect
  <2>1. pager.pc = "detect" /\ UNCHANGED <<rows, live>>
    BY <1>5, Zenon DEF MysqlDetect
  <2>2. CASE pager' = NoPager
    BY <2>1, <2>2, FreshOk, Zenon
  <2>3. CASE pager' = [pager EXCEPT !.pc = "upper"]
    <3>1. Unread(pager)
      BY <2>1, StillUnread DEF PagersInv
    <3>2. Unread(pager')
      BY <2>3, <3>1 DEF Unread, PagerType
    <3>3. QED
      BY <2>1, <3>2, UnreadOk, PagerMoves, Zenon
  <2>4. QED
    BY <1>5, <2>2, <2>3, Zenon DEF MysqlDetect
<1>6. CASE MysqlReadUpper
  <2>1. MysqlSnapshotTable \in {rows, pager.snap}
    BY Zenon DEF MysqlSnapshotTable
  <2>2. QED
    BY <1>6, <2>1, UpperOk, Zenon DEF MysqlReadUpper
<1>7. CASE MysqlFailRead
  BY <1>7, FailOk, Zenon DEF MysqlFailRead
<1>8. CASE MysqlFinish
  BY <1>8, FreshOk, Zenon DEF MysqlFinish
<1>9. QED
  BY <1>1, <1>2, <1>3, <1>4, <1>5, <1>6, <1>7, <1>8, Zenon DEF MysqlStep

\* SQLite: the read of the upper bound takes the snapshot.  A row is inserted only
\* when no writer has one, behind all others, and only that row is taken back.
LEMMA SqliteStepInv ==
  ASSUME PagersInv, adapter = "sqlite", SqliteStep, UNCHANGED <<handle, adapter>>
  PROVE  PagersInv'
<1>0. rows \in Tables /\ LiveOk(live, rows, handle) /\ OneWriter(live, rows)
  BY Zenon DEF PagersInv
<1>1. ASSUME NEW t \in Owners, SqliteInsert(t) PROVE PagersInv'
  <2>1. Allocate(t) /\ live' = live /\ \A r \in DOMAIN rows : rows[r].status # "open"
    BY <1>1, Zenon DEF SqliteInsert, Writing, Allocate
  <2>2. /\ rows' \in Tables /\ Len(rows') = Len(rows) + 1
        /\ \A r \in DOMAIN rows : rows'[r] = rows[r]
    BY <1>0, <2>1, AllocateRows, Zenon
  <2>3. /\ Len(rows) \in Nat /\ DOMAIN rows = 1..Len(rows) /\ DOMAIN rows' = 1..Len(rows')
    BY <1>0, <2>2, ScopedRows, Zenon
  <2>4. \A r \in DOMAIN rows' : r \in DOMAIN rows \/ r = Len(rows')
    BY <2>2, <2>3
  <2>5. OneWriter(live', rows')
    BY <1>0, <2>1, <2>2, <2>4, Zenon DEF OneWriter
  <2>6. QED
    BY <2>1, <2>5, RowsMove, Zenon
<1>2. CASE RollbackInsert
  <2>1. /\ rows' \in Tables /\ Scoped(rows', handle) = Scoped(rows, handle)
        /\ \A q \in DOMAIN rows' : rows'[q].status # "open"
    BY <1>0, <1>2, RollbackInsertRows, Zenon
  <2>2. live' = live /\ pager' = pager
    BY <1>2, Zenon DEF RollbackInsert
  <2>3. LiveOk(live, rows', handle)
    BY <1>0, <2>1, LiveSame, Zenon
  <2>4. OneWriter(live, rows')
    BY <1>0, <2>1, Zenon DEF OneWriter
  <2>5. QED
    BY <2>1, <2>2, <2>3, <2>4, Zenon DEF PagersInv
<1>3. ASSUME NEW r \in DOMAIN rows, CommitRow(r) PROVE PagersInv'
  <2>1. /\ Len(rows') = Len(rows) /\ DOMAIN rows' = DOMAIN rows
        /\ \A q \in DOMAIN rows : rows'[q].status = "open" => rows[q].status = "open"
    BY <1>0, <1>3, CommitRows, Zenon
  <2>2. live.late = {} /\ r = Len(rows)
    BY <1>0, <1>3, Zenon DEF OneWriter, CommitRow
  <2>3. live'.late = {}
    <3>1. Len(rows) \in Nat /\ Scoped(rows, handle) \in SUBSET (1..Len(rows))
      BY <1>0, ScopedRows, Zenon
    <3>2. live.cursor = 0 \/ live.cursor \in 1..Len(rows)
      BY <1>0, <3>1, Zenon DEF LiveOk
    <3>3. ~(r < live.cursor)
      BY <2>2, <3>1, <3>2
    <3>4. live' = [live EXCEPT !.late = live.late]
      BY <1>3, <3>3, Zenon DEF CommitRow
    <3>5. QED
      BY <1>0, <2>2, <3>4, SMTT(20) DEF LiveOk
  <2>4. OneWriter(live', rows')
    BY <1>0, <2>1, <2>3, Zenon DEF OneWriter
  <2>5. QED
    BY <1>3, <2>4, RowsMove, Zenon
<1>4. ASSUME NEW r \in DOMAIN rows, DeliverRow(r) PROVE PagersInv'
  <2>1. /\ Len(rows') = Len(rows) /\ DOMAIN rows' = DOMAIN rows
        /\ \A q \in DOMAIN rows : rows'[q].status = "open" => rows[q].status = "open"
    BY <1>0, <1>4, OtherRows, Zenon
  <2>2. live' = live
    BY <1>4, Zenon DEF DeliverRow
  <2>3. OneWriter(live', rows')
    BY <1>0, <2>1, <2>2, Zenon DEF OneWriter
  <2>4. QED
    BY <1>4, <2>3, RowsMove, Zenon
<1>5. ASSUME NEW limit \in Limits, sqlite_page(limit) PROVE PagersInv'
  BY <1>5, LiveMoves, Zenon DEF sqlite_page, read_page_scoped, Window
<1>6. ASSUME NEW limit \in Limits, sqlite_next_page(limit) PROVE PagersInv'
  <2> DEFINE ids == FirstIds(Window(pager.snap, handle, pager.cursor, pager.upper), limit)
  <2>1. pager.pc = "open" /\ UNCHANGED <<rows, live>>
    BY <1>6, Zenon DEF sqlite_next_page
  <2>2. ids = read_page_scoped(pager.snap, pager.cursor, pager.upper, limit)
    BY Zenon DEF read_page_scoped, Window
  <2> HIDE DEF ids
  <2>3. pager' \in {Advanced(ids, limit), pager, [pager EXCEPT !.pc = "failed"]}
    BY <1>6, <2>2, Zenon DEF sqlite_next_page, sqlite_failed
  <2>4. QED
    BY <2>1, <2>3, NextPageOk, Zenon DEF ids
<1>7. CASE SqliteBeginRead
  BY <1>7, FreshOk, Zenon DEF SqliteBeginRead
<1>8. CASE SqliteReadUpper
  <2>1. CASE pager' = NoPager
    BY <1>8, <2>1, FreshOk, Zenon DEF SqliteReadUpper
  <2>2. CASE pager' = Opened(rows, MaxId(rows, handle))
    BY <1>8, <2>2, UpperOk, Zenon DEF SqliteReadUpper
  <2>3. QED
    BY <1>8, <2>1, <2>2, Zenon DEF SqliteReadUpper
<1>9. CASE SqliteFailRead
  BY <1>9, FailOk, Zenon DEF SqliteFailRead, sqlite_failed
<1>10. CASE SqliteFinish
  BY <1>10, FreshOk, Zenon DEF SqliteFinish
<1>11. QED
  BY <1>1, <1>2, <1>3, <1>4, <1>5, <1>6, <1>7, <1>8, <1>9, <1>10, Zenon DEF SqliteStep

\* An empty table, a reader at the start and a closed pager satisfy the invariant.
LEMMA PagersInitInv == PagersInit => PagersInv
<1> SUFFICES ASSUME PagersInit PROVE PagersInv
  BY Zenon
<1>1. rows = <<>> /\ live = [cursor |-> 0, got |-> <<>>, late |-> {}] /\ pager = NoPager
  BY Zenon DEF PagersInit, PagingInit
<1>2. <<>> \in Tables
  BY PagingAssumption DEF Tables
<1>3. PagerOk(pager, handle)
  BY <1>1, NoPagerUnread, UnreadOk, Zenon
<1>4. Scoped(<<>>, handle) = {}
  BY DEF Scoped
<1>5. LiveOk(live, rows, handle)
  BY <1>1, <1>4, SMTT(20) DEF LiveOk, Ascending, Entries
<1>6. OneWriter(live, rows)
  BY <1>1 DEF OneWriter
<1>7. QED
  BY <1>1, <1>2, <1>3, <1>5, <1>6, Zenon DEF PagersInv

\* Every step of every adapter preserves the invariant.
LEMMA PagersNextInv == PagersInv /\ [PagersNext]_pagersvars => PagersInv'
<1> SUFFICES ASSUME PagersInv, [PagersNext]_pagersvars PROVE PagersInv'
  BY Zenon
<1>1. CASE UNCHANGED pagersvars
  BY <1>1, Zenon DEF pagersvars, PagersInv
<1>2. CASE PagersNext
  BY <1>2, PgStepInv, MysqlStepInv, SqliteStepInv, Zenon
     DEF PagersNext, PgNext, MysqlNext, SqliteNext
<1>3. QED
  BY <1>1, <1>2, Zenon

\* The invariant holds in every behaviour of every adapter.
LEMMA PagersAlwaysInv == PagersSpec => []PagersInv
BY PagersInitInv, PagersNextInv, PTL DEF PagersSpec

\* SnapshotExact for any tenants, rows, page limits and bad rows: the pages of a
\* SnapshotPager are a prefix of the scope's rows as of its snapshot, with their
\* states, whatever producers and workers commit meanwhile, and an exhausted pager
\* returned them all.
THEOREM SnapshotAlwaysExact == PagersSpec => []SnapshotExact
<1>1. PagersInv => SnapshotExact
  BY PagerOkExact, Zenon DEF PagersInv
<1>2. QED
  BY <1>1, PagersAlwaysInv, PTL

\* LivePagesComplete likewise: page() misses only rows that committed after the
\* cursor had passed their ids, and on SQLite none.
THEOREM LiveAlwaysComplete == PagersSpec => []LivePagesComplete
<1>1. PagersInv => LivePagesComplete
  BY LiveOkComplete, Zenon DEF PagersInv
<1>2. QED
  BY <1>1, PagersAlwaysInv, PTL
===============================================================================
