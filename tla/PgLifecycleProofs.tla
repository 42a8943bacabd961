--------------------------- MODULE PgLifecycleProofs ---------------------------
(***************************************************************************)
(* The PostgreSQL adapter's transactions implement DeliveryLifecycle, for  *)
(* every number of sessions and rows.  IInv of PgLifecycle is inductive;   *)
(* under it every step is a step of DeliveryLifecycle or changes no table. *)
(***************************************************************************)
EXTENDS PgLifecycle, DeliveryProofs

\* A row change by one session cannot disturb what another one relies on: the
\* rows the other has locked stay, tokens are only added and time only passes.
LEMMA Frame ==
  ASSUME TypeOK, TypeOK', NEW u \in Sessions, SessionInv(u),
         pc'[u] = pc[u], call'[u] = call[u], opTime'[u] = opTime[u],
         cand'[u] = cand[u], batch'[u] = batch[u],
         \A r \in Rows : lock[r] = u => /\ lock'[r] = u
                                        /\ delivery'[r] = delivery[r]
                                        /\ lastOp'[r] = lastOp[r],
         \A r \in Rows : issued[r] \subseteq issued'[r],
         now <= now'
  PROVE  SessionInv(u)'
<1> DEFINE r == call[u].row
<1>1. /\ now \in Nat /\ now' \in Nat /\ opTime[u] \in Nat
      /\ batch[u] \in SUBSET Rows /\ cand[u] \in SUBSET Rows
      /\ delivery \in [Rows -> DeliveryRow]
  BY DeliveryAssumption DEF TypeOK
<1>2. opTime'[u] <= now'
  BY <1>1 DEF SessionInv
<1>3. \A q \in batch'[u] : /\ pc'[u] = "lock" /\ lock'[q] = u
                           /\ InScope(call'[u].scope, q)
                           /\ Eligible(delivery'[q], opTime'[u])
  BY <1>1 DEF SessionInv
<1>4. pc[u] = "reclassify" => ~Fenced(delivery'[r], call'[u].token, now')
  BY <1>1 DEF SessionInv, Fenced, DeliveryRow, NullTime
<1>5. QED
  BY <1>1, <1>2, <1>3, <1>4 DEF SessionInv

\* The variables of the other sessions and the locks they hold are untouched.
OthersUntouched(s) ==
  /\ \A u \in Sessions \ {s} : /\ pc'[u] = pc[u] /\ call'[u] = call[u]
                               /\ opTime'[u] = opTime[u] /\ snap'[u] = snap[u]
                               /\ cand'[u] = cand[u] /\ batch'[u] = batch[u]
  /\ \A r \in Rows : lock[r] \in Sessions \ {s} => lock'[r] = lock[r]

\* A step of session s that writes only rows it has locked preserves the
\* invariant if it leaves the rows and its own call in order.
LEMMA StepInv ==
  ASSUME IInv, NEW s \in Sessions, TypeOK', SessionInv(s)', OthersUntouched(s),
         now' = now,
         \A r \in Rows : RowInv(delivery'[r], issued'[r], lastOp'[r], now'),
         \A r \in Rows : lock[r] # s => delivery'[r] = delivery[r] /\ lastOp'[r] = lastOp[r],
         \A r \in Rows : issued[r] \subseteq issued'[r]
  PROVE  IInv'
<1>1. TypeOK /\ now \in Nat
  BY DeliveryAssumption DEF IInv, TypeOK
<1>2. ASSUME NEW u \in Sessions \ {s}
      PROVE  SessionInv(u)'
  <2>1. \A r \in Rows : lock[r] = u => /\ lock'[r] = u
                                       /\ delivery'[r] = delivery[r]
                                       /\ lastOp'[r] = lastOp[r]
    BY DEF OthersUntouched
  <2>2. now <= now' /\ SessionInv(u)
    BY <1>1 DEF IInv
  <2>3. /\ pc'[u] = pc[u] /\ call'[u] = call[u] /\ opTime'[u] = opTime[u]
        /\ cand'[u] = cand[u] /\ batch'[u] = batch[u]
    BY DEF OthersUntouched
  <2>4. QED
    BY <1>1, <2>1, <2>2, <2>3, Frame
<1>3. \A u \in Sessions : SessionInv(u)'
  BY <1>2
<1>4. QED
  BY <1>3 DEF IInv

\* A step of session s that changes no table preserves the invariant and maps to
\* a stuttering step of DeliveryLifecycle.
LEMMA LocalStep ==
  ASSUME IInv, NEW s \in Sessions, TypeOK', SessionInv(s)', OthersUntouched(s),
         UNCHANGED tables
  PROVE  IInv' /\ UNCHANGED Lifecycle!vars
<1>1. UNCHANGED Lifecycle!vars
  BY DEF tables, Lifecycle!vars
<1>2. \A r \in Rows : RowInv(delivery'[r], issued'[r], lastOp'[r], now')
  BY DEF IInv, tables
<1>3. QED
  BY <1>1, <1>2, StepInv DEF tables

\* The end of a transaction frees its locks, resets its session and leaves the
\* others alone; an idle session relies on nothing.
LEMMA EndOfTransaction ==
  ASSUME TypeOK, NEW s \in Sessions, NEW outcome \in Replies, End(s, outcome),
         now' = now, delivery' \in [Rows -> DeliveryRow],
         issued' \in [Rows -> SUBSET Tokens], lastOp' \in [Rows -> Nat]
  PROVE  TypeOK' /\ SessionInv(s)' /\ OthersUntouched(s)
<1>1. NoCall \in Call /\ 0 \in 0..MaxTime /\ AbsentRow \in DeliveryRow
  <2>1. AbsentRow \in DeliveryRow
    BY AbsentRowInv DEF RowInv
  <2>2. QED
    BY <2>1, DeliveryAssumption DEF NoCall, Call
<1>2. TypeOK'
  BY <1>1 DEF TypeOK, End, Replies
<1>3. SessionInv(s)'
  BY <1>1, DeliveryAssumption DEF TypeOK, End, SessionInv
<1>4. OthersUntouched(s)
  BY DEF TypeOK, End, OthersUntouched
<1>5. QED
  BY <1>2, <1>3, <1>4

\* The same of a transaction that changed no table.
LEMMA EndUnchanged ==
  ASSUME IInv, NEW s \in Sessions, NEW outcome \in Replies, End(s, outcome),
         UNCHANGED tables
  PROVE  IInv' /\ UNCHANGED Lifecycle!vars
<1>1. /\ TypeOK /\ now' = now /\ delivery' \in [Rows -> DeliveryRow]
      /\ issued' \in [Rows -> SUBSET Tokens] /\ lastOp' \in [Rows -> Nat]
  BY DEF IInv, TypeOK, tables
<1>2. QED
  BY <1>1, EndOfTransaction, LocalStep

-------------------------------------------------------------------------------
(* One lemma per action.                                                   *)

\* Starting a claim: the batch is empty and the operation time is the present.
LEMMA BeginClaimStep ==
  ASSUME IInv, NEW s \in Sessions, NEW scope \in Scopes, NEW lease \in Leases,
         NEW limit \in Limits, BeginClaim(s, scope, lease, limit)
  PROVE  IInv' /\ UNCHANGED Lifecycle!vars
<1> USE DEF BeginClaim
<1>1. TypeOK /\ SessionInv(s)
  BY DEF IInv
<1> DEFINE c == [NoCall EXCEPT !.op = "claim", !.scope = scope,
                               !.arg = lease, !.limit = limit]
<1>2. c \in Call /\ c.scope = scope /\ c.arg = lease
  BY DeliveryAssumption, PgAssumption, Zenon DEF Call, NoCall
<1> HIDE DEF c
<1>3. call'[s] = c
  BY <1>1 DEF TypeOK, c
<1>4. TypeOK'
  BY <1>1, <1>2 DEF TypeOK, tables, Steps, Replies, c
<1>5. SessionInv(s)'
  BY <1>1, <1>2, <1>3, DeliveryAssumption DEF TypeOK, tables, SessionInv
<1>6. OthersUntouched(s)
  BY <1>1 DEF TypeOK, OthersUntouched
<1>7. QED
  BY <1>4, <1>5, <1>6, LocalStep

\* The candidate snapshot holds only rows of the caller's scope.
LEMMA SelectCandidatesStep ==
  ASSUME IInv, NEW s \in Sessions, SelectCandidates(s)
  PROVE  IInv' /\ UNCHANGED Lifecycle!vars
<1> USE DEF SelectCandidates, Candidates
<1>1. TypeOK /\ SessionInv(s)
  BY DEF IInv
<1>2. TypeOK'
  BY <1>1 DEF TypeOK, tables, Steps, Replies
<1>3. SessionInv(s)'
  BY <1>1, <1>2 DEF TypeOK, tables, SessionInv
<1>4. OthersUntouched(s)
  BY <1>1 DEF TypeOK, OthersUntouched
<1>5. QED
  BY <1>2, <1>3, <1>4, LocalStep

\* A candidate joins the batch only free and eligible in its latest version.
LEMMA LockCandidateStep ==
  ASSUME IInv, NEW s \in Sessions, LockCandidate(s)
  PROVE  IInv' /\ UNCHANGED Lifecycle!vars
<1>1. TypeOK /\ SessionInv(s)
  BY DEF IInv
<1>2. PICK r \in cand[s] :
        /\ cand' = [cand EXCEPT ![s] = @ \ {r}]
        /\ \/ /\ lock[r] = Free /\ Eligible(delivery[r], opTime[s])
              /\ lock' = [lock EXCEPT ![r] = s]
              /\ batch' = [batch EXCEPT ![s] = @ \union {r}]
           \/ UNCHANGED <<lock, batch>>
  BY Zenon DEF LockCandidate, Lockable
<1>3. /\ r \in Rows /\ pc[s] = "lock" /\ reply' = "none"
      /\ UNCHANGED <<tables, pc, call, opTime, snap>>
  BY <1>1 DEF LockCandidate, TypeOK
<1>4. TypeOK'
  BY <1>1, <1>2, <1>3 DEF TypeOK, tables, Replies
<1>5. SessionInv(s)'
  BY <1>1, <1>2, <1>3 DEF TypeOK, tables, SessionInv
<1>6. OthersUntouched(s)
  BY <1>1, <1>2, <1>3, PgAssumption DEF TypeOK, OthersUntouched
<1>7. QED
  BY <1>3, <1>4, <1>5, <1>6, LocalStep

\* Committing a batch is one claim of DeliveryLifecycle at the operation time
\* read before the rows were locked; an empty batch changes nothing.
LEMMA CommitClaimStep ==
  ASSUME IInv, NEW s \in Sessions, CommitClaim(s)
  PROVE  IInv' /\ [Lifecycle!Next]_(Lifecycle!vars)
<1> DEFINE S == batch[s]
           t == opTime[s]
           lease == call[s].arg
           scope == call[s].scope
<1>1. TypeOK /\ SessionInv(s) /\ pc[s] = "lock"
  BY DEF IInv, CommitClaim
<1>2. /\ S \in SUBSET Rows /\ t \in 0..now /\ now \in Nat
      /\ lease \in Leases /\ scope \in Scopes
  BY <1>1, DeliveryAssumption DEF TypeOK, SessionInv
<1>3. PICK token \in [S -> Tokens] :
        /\ \A r \in S : token[r] \notin issued[r]
        /\ \A r1, r2 \in S : r1 # r2 => token[r1] # token[r2]
        /\ delivery' = [r \in Rows |-> IF r \in S
                          THEN ClaimedRow(delivery[r], token[r], t + lease)
                          ELSE delivery[r]]
        /\ issued' = [r \in Rows |-> IF r \in S THEN issued[r] \union {token[r]}
                                                ELSE issued[r]]
  BY Zenon DEF CommitClaim
<1>4. /\ \A r \in S : delivery[r].attempts < MaxAttempts
      /\ lastOp' = [r \in Rows |-> IF r \in S THEN t ELSE lastOp[r]]
      /\ End(s, "Claimed") /\ now' = now
  BY DEF CommitClaim
<1>5. \A r \in S : InScope(scope, r) /\ Eligible(delivery[r], t) /\ lock[r] = s
  BY <1>1 DEF SessionInv
<1> HIDE DEF S, t, lease, scope
<1>6. Lifecycle!Claim(scope, S, token, t, lease)
  BY <1>3, <1>4, <1>5, Zenon
     DEF Lifecycle!Claim, Lifecycle!InScope, InScope, Lifecycle!Eligible, Eligible,
         Lifecycle!ClaimedRow, ClaimedRow
<1>7. [Lifecycle!Next]_(Lifecycle!vars)
  <2>1. CASE S = {}
    <3>1. delivery' = delivery /\ issued' = issued /\ lastOp' = lastOp
      BY <1>1, <1>3, <1>4, <2>1 DEF TypeOK
    <3>2. QED
      BY <1>4, <3>1 DEF Lifecycle!vars
  <2>2. CASE S # {}
    <3>1. Lifecycle!ClaimSome
      BY <1>2, <1>6, <2>2 DEF Lifecycle!ClaimSome
    <3>2. QED
      BY <3>1 DEF Lifecycle!Next
  <2>3. QED
    BY <2>1, <2>2
<1>8. ASSUME NEW r \in Rows
      PROVE  RowInv(delivery'[r], issued'[r], lastOp'[r], now')
  <2>1. RowInv(delivery[r], issued[r], lastOp[r], now)
    BY DEF IInv
  <2>2. CASE r \in S
    <3>1. RowInv(ClaimedRow(delivery[r], token[r], t + lease),
                 issued[r] \union {token[r]}, t, now)
      BY <1>2, <1>3, <1>4, <1>5, <2>1, <2>2, ClaimedRowInv
    <3>2. QED
      BY <1>3, <1>4, <2>2, <3>1
  <2>3. CASE r \notin S
    BY <1>3, <1>4, <2>1, <2>3
  <2>4. QED
    BY <2>2, <2>3
<1>9. /\ delivery' \in [Rows -> DeliveryRow] /\ issued' \in [Rows -> SUBSET Tokens]
      /\ lastOp' \in [Rows -> Nat]
  BY <1>3, <1>4, <1>8, Zenon DEF RowInv
<1>10. TypeOK' /\ SessionInv(s)' /\ OthersUntouched(s)
  BY <1>1, <1>4, <1>9, EndOfTransaction DEF Replies
<1>11. \A r \in Rows : lock[r] # s => delivery'[r] = delivery[r] /\ lastOp'[r] = lastOp[r]
  BY <1>3, <1>4, <1>5
<1>12. \A r \in Rows : issued[r] \subseteq issued'[r]
  BY <1>3
<1>13. QED
  BY <1>4, <1>7, <1>8, <1>10, <1>11, <1>12, StepInv

\* A claim that meets a full counter rolls back.
LEMMA OverflowClaimStep ==
  ASSUME IInv, NEW s \in Sessions, OverflowClaim(s)
  PROVE  IInv' /\ UNCHANGED Lifecycle!vars
BY EndUnchanged DEF OverflowClaim, Replies

\* Starting a mutation: any token ever stored on the row may be presented.
LEMMA BeginMutationStep ==
  ASSUME IInv, NEW s \in Sessions, NEW scope \in Scopes, NEW kind \in Kinds,
         NEW r \in Rows, NEW token \in issued[r], NEW arg \in MutationArgs(kind),
         BeginMutation(s, scope, kind, r, token, arg)
  PROVE  IInv' /\ UNCHANGED Lifecycle!vars
<1> USE DEF BeginMutation
<1>1. TypeOK /\ SessionInv(s)
  BY DEF IInv
<1> DEFINE c == [op |-> kind, scope |-> scope, row |-> r,
                 token |-> token, arg |-> arg, limit |-> 0]
<1>2. arg \in Nat
  BY DeliveryAssumption DEF MutationArgs, MutationKind
<1>3. /\ c \in Call /\ c.op = kind /\ c.scope = scope /\ c.row = r
      /\ c.token = token /\ c.arg = arg
  BY <1>1, <1>2, DeliveryAssumption DEF Call, TypeOK
<1> HIDE DEF c
<1>4. call'[s] = c
  BY <1>1 DEF TypeOK, c
<1>5. TypeOK'
  BY <1>1, <1>3 DEF TypeOK, tables, Steps, Replies, c
<1>6. SessionInv(s)'
  BY <1>1, <1>3, <1>4 DEF TypeOK, tables, SessionInv
<1>7. OthersUntouched(s)
  BY <1>1 DEF TypeOK, OthersUntouched
<1>8. QED
  BY <1>5, <1>6, <1>7, LocalStep

\* A mutation proceeds to its commit only if it holds the row lock and the
\* latest version of the row satisfies the fence at a clock read under the lock.
LEMMA ExecuteMutationStep ==
  ASSUME IInv, NEW s \in Sessions, ExecuteMutation(s)
  PROVE  IInv' /\ UNCHANGED Lifecycle!vars
<1> DEFINE r == call[s].row
<1>1. /\ TypeOK /\ SessionInv(s) /\ pc[s] = "execute"
      /\ UNCHANGED <<tables, call, snap, cand, batch>> /\ reply' = "none"
  BY DEF IInv, ExecuteMutation
<1>2. r \in Rows /\ now \in 0..MaxTime /\ lastOp[r] <= now
  BY <1>1 DEF IInv, SessionInv, RowInv, TypeOK
<1>3. \/ /\ lock[r] \in {Free, s} /\ lock' = [lock EXCEPT ![r] = s]
         /\ InScope(call[s].scope, r)
         /\ opTime' = [opTime EXCEPT ![s] = now]
         /\ \/ /\ Fenced(delivery[r], call[s].token, now)
               /\ pc' = [pc EXCEPT ![s] = "commit"]
            \/ pc' = [pc EXCEPT ![s] = "classify"]
      \/ /\ pc' = [pc EXCEPT ![s] = "classify"]
         /\ UNCHANGED <<lock, opTime>>
  BY DEF ExecuteMutation, CanLock, MutationClock, Satisfied, Visible
<1> HIDE DEF r
<1>4. TypeOK'
  BY <1>1, <1>2, <1>3 DEF TypeOK, tables, Steps, Replies
<1>5. SessionInv(s)'
  BY <1>1, <1>2, <1>3, DeliveryAssumption DEF TypeOK, tables, SessionInv, r
<1>6. OthersUntouched(s)
  BY <1>1, <1>2, <1>3, PgAssumption DEF TypeOK, OthersUntouched
<1>7. QED
  BY <1>1, <1>4, <1>5, <1>6, LocalStep

\* Classification either ends the call or goes on to the retry with the row locked.
LEMMA ClassifyMutationStep ==
  ASSUME IInv, NEW s \in Sessions, ClassifyMutation(s)
  PROVE  IInv' /\ UNCHANGED Lifecycle!vars
<1> DEFINE r == call[s].row
<1>1. TypeOK /\ SessionInv(s) /\ pc[s] = "classify" /\ UNCHANGED tables
  BY DEF IInv, ClassifyMutation
<1>2. CASE Verdict(s) = "Ok"
  <2>1. /\ lock[r] \in {Free, s} /\ InScope(call[s].scope, r)
        /\ lock' = [lock EXCEPT ![r] = s] /\ reply' = "none"
        /\ pc' = [pc EXCEPT ![s] = "reexecute"]
        /\ UNCHANGED <<call, opTime, snap, cand, batch>>
    BY <1>2 DEF ClassifyMutation, Verdict, Visible, CanLock
  <2>2. r \in Rows
    BY <1>1 DEF SessionInv
  <2> HIDE DEF r
  <2>3. TypeOK'
    BY <1>1, <2>1, <2>2 DEF TypeOK, tables, Steps, Replies
  <2>4. SessionInv(s)'
    BY <1>1, <2>1, <2>2 DEF TypeOK, tables, SessionInv, r
  <2>5. OthersUntouched(s)
    BY <1>1, <2>1, <2>2, PgAssumption DEF TypeOK, OthersUntouched
  <2>6. QED
    BY <1>1, <2>3, <2>4, <2>5, LocalStep
<1>3. CASE Verdict(s) # "Ok"
  <2>1. End(s, Verdict(s)) /\ Verdict(s) \in Replies
    BY <1>3 DEF ClassifyMutation, Verdict, Replies
  <2>2. QED
    BY <1>1, <2>1, EndUnchanged
<1>4. QED
  BY <1>2, <1>3

\* The retry under the lock proceeds to its commit only if the row satisfies the
\* fence at its clock reading; otherwise the token has lost its authority.
LEMMA ReexecuteMutationStep ==
  ASSUME IInv, NEW s \in Sessions, ReexecuteMutation(s)
  PROVE  IInv' /\ UNCHANGED Lifecycle!vars
<1> DEFINE r == call[s].row
<1>1. /\ TypeOK /\ SessionInv(s) /\ pc[s] = "reexecute" /\ reply' = "none"
      /\ UNCHANGED <<tables, lock, call, cand, batch>>
      /\ opTime' = [opTime EXCEPT ![s] = now]
      /\ snap' = [snap EXCEPT ![s] = delivery[r]]
  BY DEF IInv, ReexecuteMutation, RetrySnapshot, MutationClock
<1>2. r \in Rows /\ now \in 0..MaxTime /\ lastOp[r] <= now
  BY <1>1, Zenon DEF IInv, SessionInv, RowInv, TypeOK
<1>3. \/ /\ Fenced(delivery[r], call[s].token, now)
         /\ pc' = [pc EXCEPT ![s] = "commit"]
      \/ /\ ~Fenced(delivery[r], call[s].token, now)
         /\ pc' = [pc EXCEPT ![s] = "reclassify"]
  BY DEF ReexecuteMutation, RetrySnapshot, MutationClock, Satisfied
<1> HIDE DEF r
<1>4. TypeOK'
  BY <1>1, <1>2, <1>3 DEF TypeOK, tables, Steps, Replies
<1>5. SessionInv(s)'
  BY <1>1, <1>2, <1>3, DeliveryAssumption DEF TypeOK, tables, SessionInv, r
<1>6. OthersUntouched(s)
  BY <1>1, <1>3 DEF TypeOK, OthersUntouched
<1>7. QED
  BY <1>1, <1>4, <1>5, <1>6, LocalStep

\* A second failed attempt ends the call.
LEMMA ReclassifyMutationStep ==
  ASSUME IInv, NEW s \in Sessions, ReclassifyMutation(s)
  PROVE  IInv' /\ UNCHANGED Lifecycle!vars
<1> DEFINE outcome == IF Verdict(s) = "Ok" THEN "MutationNoop" ELSE Verdict(s)
<1>1. outcome \in Replies
  BY DEF Verdict, Replies
<1>2. End(s, outcome) /\ UNCHANGED tables
  BY DEF ReclassifyMutation
<1>3. QED
  BY <1>1, <1>2, EndUnchanged

\* Committing a mutation is one mutation of DeliveryLifecycle at the operation
\* time read under the row lock.
LEMMA CommitMutationStep ==
  ASSUME IInv, NEW s \in Sessions, CommitMutation(s)
  PROVE  IInv' /\ Lifecycle!Next
<1> DEFINE r == call[s].row
           t == opTime[s]
           c == call[s]
           row == MutatedRow(c.op, delivery[r], t, c.arg)
<1>1. /\ TypeOK /\ SessionInv(s) /\ pc[s] = "commit" /\ End(s, "Mutated")
      /\ now' = now /\ issued' = issued
  BY DEF IInv, CommitMutation
<1>2. /\ delivery' = [delivery EXCEPT ![r] = row]
      /\ lastOp' = [lastOp EXCEPT ![r] = t]
  BY <1>1 DEF CommitMutation, TypeOK
<1>3. /\ r \in Rows /\ t \in 0..now /\ now \in Nat /\ lastOp[r] <= t
      /\ c.op \in Kinds /\ c.scope \in Scopes /\ c.arg \in MutationArgs(c.op)
      /\ c.token \in issued[r] /\ Fenced(delivery[r], c.token, t)
      /\ lock[r] = s /\ InScope(c.scope, r)
  BY <1>1, DeliveryAssumption DEF SessionInv, TypeOK
<1> HIDE DEF r, t, c
<1>4. RowInv(delivery[r], issued[r], lastOp[r], now)
  BY <1>3 DEF IInv
<1>5. RowInv(row, issued[r], t, now)
  BY <1>3, <1>4, DeliveryAssumption, MutatedRowInv
<1>6. Lifecycle!Mutate(c.scope, c.op, r, c.token, t, c.arg)
  BY <1>1, <1>2, <1>3
     DEF Lifecycle!Mutate, Lifecycle!InScope, InScope, Lifecycle!Fenced, Fenced,
         Lifecycle!MutatedRow, MutatedRow, Lifecycle!Unclaimed, Unclaimed,
         Lifecycle!NullTime, NullTime
<1>7. Lifecycle!Next
  <2>1. c.arg \in Lifecycle!MutationArgs(c.op)
    BY <1>3 DEF Lifecycle!MutationArgs, MutationArgs
  <2>2. Lifecycle!MutateSome
    BY <1>3, <1>6, <2>1 DEF Lifecycle!MutateSome
  <2>3. QED
    BY <2>2 DEF Lifecycle!Next
<1> HIDE DEF row
<1>8. \A q \in Rows : RowInv(delivery'[q], issued'[q], lastOp'[q], now')
  BY <1>1, <1>2, <1>3, <1>5 DEF IInv, TypeOK
<1>9. /\ delivery' \in [Rows -> DeliveryRow] /\ issued' \in [Rows -> SUBSET Tokens]
      /\ lastOp' \in [Rows -> Nat]
  BY <1>1, <1>2, <1>3, <1>5 DEF RowInv, TypeOK
<1>10. TypeOK' /\ SessionInv(s)' /\ OthersUntouched(s)
  BY <1>1, <1>9, EndOfTransaction DEF Replies
<1>11. \A q \in Rows : lock[q] # s => delivery'[q] = delivery[q] /\ lastOp'[q] = lastOp[q]
  BY <1>1, <1>2, <1>3 DEF TypeOK
<1>12. QED
  BY <1>1, <1>7, <1>8, <1>10, <1>11, StepInv

\* Starting a finalisation locks nothing yet.
LEMMA BeginFinalizeStep ==
  ASSUME IInv, NEW s \in Sessions, NEW r \in Rows, BeginFinalize(s, r)
  PROVE  IInv' /\ UNCHANGED Lifecycle!vars
<1>1. TypeOK /\ SessionInv(s) /\ pc[s] = "idle"
  BY DEF IInv, BeginFinalize
<1> DEFINE c == [NoCall EXCEPT !.op = "finalize", !.row = r, !.scope = TenantOf[r]]
<1>2. c \in Call /\ c.scope = TenantOf[r] /\ c.row = r
  BY DeliveryAssumption, Zenon DEF Call, NoCall
<1>3. /\ call' = [call EXCEPT ![s] = c] /\ pc' = [pc EXCEPT ![s] = "event"]
      /\ reply' = "none" /\ UNCHANGED <<tables, lock, opTime, snap, cand, batch>>
  BY DEF BeginFinalize
<1> HIDE DEF c
<1>4. TypeOK'
  BY <1>1, <1>2, <1>3 DEF TypeOK, tables, Steps, Replies
<1>5. SessionInv(s)'
  <2>1. /\ call'[s] = c /\ pc'[s] = "event" /\ opTime'[s] = opTime[s] /\ cand'[s] = cand[s]
        /\ batch'[s] = batch[s] /\ now' = now
    BY <1>1, <1>3 DEF TypeOK, tables
  <2>2. cand[s] = {} /\ batch[s] = {} /\ opTime[s] <= now
    BY <1>1 DEF SessionInv
  <2>3. QED
    BY <1>2, <2>1, <2>2 DEF SessionInv, InScope
<1>6. OthersUntouched(s)
  BY <1>1, <1>3 DEF TypeOK, OthersUntouched
<1>7. QED
  BY <1>3, <1>4, <1>5, <1>6, LocalStep

\* Locking the event row disturbs no delivery lock.
LEMMA LockEventStep ==
  ASSUME IInv, NEW s \in Sessions, LockEvent(s)
  PROVE  IInv' /\ UNCHANGED Lifecycle!vars
<1>1. TypeOK /\ SessionInv(s) /\ pc[s] = "event"
  BY DEF IInv, LockEvent
<1>2. PICK step \in {"delivery", "refused"} : pc' = [pc EXCEPT ![s] = step]
  BY DEF LockEvent
<1>3. reply' = "none" /\ UNCHANGED <<tables, lock, call, opTime, snap, cand, batch>>
  BY DEF LockEvent
<1>4. TypeOK'
  BY <1>1, <1>2, <1>3 DEF TypeOK, tables, Steps, Replies
<1>5. SessionInv(s)'
  <2>1. /\ call'[s] = call[s] /\ pc'[s] = step /\ opTime'[s] = opTime[s]
        /\ cand'[s] = cand[s] /\ batch'[s] = batch[s] /\ now' = now
    BY <1>1, <1>2, <1>3 DEF TypeOK, tables
  <2>2. cand[s] = {} /\ batch[s] = {} /\ opTime[s] <= now
    BY <1>1 DEF SessionInv
  <2>3. QED
    BY <1>1, <2>1, <2>2 DEF SessionInv
<1>6. OthersUntouched(s)
  BY <1>1, <1>2, <1>3 DEF TypeOK, OthersUntouched
<1>7. QED
  BY <1>3, <1>4, <1>5, <1>6, LocalStep

\* The delivery row is inspected under its lock.
LEMMA LockDeliveryStep ==
  ASSUME IInv, NEW s \in Sessions, LockDelivery(s)
  PROVE  IInv' /\ UNCHANGED Lifecycle!vars
<1> DEFINE r == call[s].row
<1>1. TypeOK /\ SessionInv(s) /\ pc[s] = "delivery"
  BY DEF IInv, LockDelivery
<1>2. r \in Rows /\ InScope(call[s].scope, r)
  BY <1>1 DEF SessionInv
<1>3. /\ lock[r] \in {Free, s} /\ lock' = [lock EXCEPT ![r] = s]
      /\ snap' = [snap EXCEPT ![s] = delivery[r]]
      /\ reply' = "none" /\ UNCHANGED <<tables, call, opTime, cand, batch>>
  BY DEF LockDelivery, CanLock
<1>4. \/ CanonicalPending(delivery[r]) /\ pc' = [pc EXCEPT ![s] = "finalize"]
      \/ pc' = [pc EXCEPT ![s] = "refused"]
  BY DEF LockDelivery
<1> HIDE DEF r
<1>5. TypeOK'
  BY <1>1, <1>2, <1>3, <1>4 DEF TypeOK, tables, Steps, Replies
<1>6. SessionInv(s)'
  <2>1. /\ call'[s] = call[s] /\ opTime'[s] = opTime[s] /\ cand'[s] = cand[s]
        /\ batch'[s] = batch[s] /\ now' = now /\ delivery' = delivery /\ lock'[r] = s
    BY <1>1, <1>2, <1>3 DEF TypeOK, tables
  <2>2. \/ pc'[s] = "refused"
        \/ pc'[s] = "finalize" /\ CanonicalPending(delivery[r])
    BY <1>1, <1>4 DEF TypeOK
  <2>3. cand[s] = {} /\ batch[s] = {} /\ opTime[s] <= now
    BY <1>1 DEF SessionInv
  <2>4. QED
    BY <1>2, <2>1, <2>2, <2>3 DEF SessionInv, r
<1>7. OthersUntouched(s)
  BY <1>1, <1>2, <1>3, <1>4, PgAssumption DEF TypeOK, OthersUntouched
<1>8. QED
  BY <1>3, <1>5, <1>6, <1>7, LocalStep

\* Committing a finalisation is one finalisation of DeliveryLifecycle.
LEMMA CommitFinalizeStep ==
  ASSUME IInv, NEW s \in Sessions, CommitFinalize(s)
  PROVE  IInv' /\ Lifecycle!Next
<1> DEFINE r == call[s].row
           row == FinalizedRow(delivery[r])
<1>1. /\ TypeOK /\ SessionInv(s) /\ pc[s] = "finalize" /\ End(s, "Finalized")
      /\ now' = now /\ issued' = issued /\ lastOp' = lastOp
  BY DEF IInv, CommitFinalize
<1>2. delivery' = [delivery EXCEPT ![r] = row]
  BY DEF CommitFinalize
<1>3. r \in Rows /\ now \in Nat /\ CanonicalPending(delivery[r]) /\ lock[r] = s
  BY <1>1, DeliveryAssumption DEF SessionInv, TypeOK
<1> HIDE DEF r
<1>4. RowInv(row, issued[r], lastOp[r], now)
  BY <1>3, FinalizedRowInv DEF IInv
<1>5. Lifecycle!Finalize(r)
  BY <1>1, <1>2, <1>3
     DEF Lifecycle!Finalize, Lifecycle!CanonicalPending, CanonicalPending,
         Lifecycle!Canonical, Canonical, Lifecycle!NullTime, NullTime,
         Lifecycle!FinalizedRow, FinalizedRow
<1>6. Lifecycle!Next
  BY <1>3, <1>5 DEF Lifecycle!Next
<1> HIDE DEF row
<1>7. \A q \in Rows : RowInv(delivery'[q], issued'[q], lastOp'[q], now')
  BY <1>1, <1>2, <1>3, <1>4 DEF IInv, TypeOK
<1>8. /\ delivery' \in [Rows -> DeliveryRow] /\ issued' \in [Rows -> SUBSET Tokens]
      /\ lastOp' \in [Rows -> Nat]
  BY <1>1, <1>2, <1>3, <1>4 DEF RowInv, TypeOK
<1>9. TypeOK' /\ SessionInv(s)' /\ OthersUntouched(s)
  BY <1>1, <1>8, EndOfTransaction DEF Replies
<1>10. \A q \in Rows : lock[q] # s => delivery'[q] = delivery[q] /\ lastOp'[q] = lastOp[q]
  BY <1>1, <1>2, <1>3 DEF TypeOK
<1>11. QED
  BY <1>1, <1>6, <1>7, <1>9, <1>10, StepInv

\* The clock ticks under running calls: what they rely on stays true.
LEMMA TickStep ==
  ASSUME IInv, Tick
  PROVE  IInv' /\ Lifecycle!Next
<1>1. TypeOK /\ now \in Nat /\ now' = now + 1 /\ now < MaxTime
  BY DeliveryAssumption DEF IInv, TypeOK, Tick
<1>2. Lifecycle!Next
  BY DEF Tick, Lifecycle!Tick, Lifecycle!Next
<1>3. TypeOK'
  BY <1>1, DeliveryAssumption DEF TypeOK, Tick, Replies
<1>4. \A r \in Rows : RowInv(delivery[r], issued[r], lastOp[r], now')
  BY <1>1, RowInvTick DEF IInv
<1>5. ASSUME NEW u \in Sessions
      PROVE  SessionInv(u)'
  BY <1>1, <1>3, Frame DEF IInv, Tick
<1>6. QED
  BY <1>2, <1>3, <1>4, <1>5 DEF IInv, Tick

\* A producer's commit inserts a row no running call holds.
LEMMA InsertStep ==
  ASSUME IInv, NEW r \in Rows, NEW t \in 0..now,
         NEW row \in {EnqueuedRow(t), ImportedDelivered(t)}, Insert(r, t, row)
  PROVE  IInv'
<1>1. TypeOK /\ now \in Nat /\ delivery[r].state = "absent"
  BY DeliveryAssumption DEF IInv, TypeOK, Insert
<1>2. /\ delivery' = [delivery EXCEPT ![r] = row]
      /\ lastOp' = [lastOp EXCEPT ![r] = t] /\ reply' = "none"
      /\ UNCHANGED <<now, issued, lock, pc, call, opTime, snap, cand, batch>>
  BY DEF Insert
<1>3. RowInv(row, {}, t, now) /\ row \in DeliveryRow /\ t \in Nat
  BY <1>1, InsertedRowInv DEF RowInv
<1>4. issued[r] = {}
  BY <1>1, FS_EmptySet DEF IInv, RowInv
<1>5. TypeOK'
  BY <1>1, <1>2, <1>3 DEF TypeOK, Replies
<1>6. \A q \in Rows : RowInv(delivery'[q], issued'[q], lastOp'[q], now')
  BY <1>1, <1>2, <1>3, <1>4, Zenon DEF IInv, TypeOK
<1>7. ASSUME NEW u \in Sessions
      PROVE  SessionInv(u)'
  <2> DEFINE q == call[u].row
  <2>1. SessionInv(u) /\ batch[u] \in SUBSET Rows /\ row.state # "claimed"
    BY <1>1, TokensOfWrittenRows, InsertedRowInv, Zenon
       DEF IInv, TypeOK, EnqueuedRow, ImportedDelivered, AbsentRow
  <2>2. \A p \in Rows \ {r} : delivery'[p] = delivery[p] /\ lastOp'[p] = lastOp[p]
    BY <1>1, <1>2 DEF TypeOK
  <2>3. delivery'[r] = row
    BY <1>1, <1>2 DEF TypeOK
  <2>4. r \notin batch[u]
    BY <1>1, <2>1, Zenon DEF SessionInv, Eligible
  <2>5. pc[u] \in {"commit", "finalize"} => q # r
    BY <1>1, <2>1 DEF SessionInv, Fenced, CanonicalPending
  <2>6. pc[u] = "reclassify" => ~Fenced(delivery'[q], call[u].token, now)
    BY <2>1, <2>2, <2>3, Zenon DEF SessionInv, Fenced
  <2>7. QED
    BY <1>2, <2>1, <2>2, <2>4, <2>5, <2>6, Zenon DEF SessionInv
<1>8. QED
  BY <1>5, <1>6, <1>7 DEF IInv

-------------------------------------------------------------------------------
(* The theorems.                                                           *)

\* The empty tables and idle sessions satisfy the invariant.
LEMMA InitIInv == Init => IInv /\ Lifecycle!Init
<1> SUFFICES ASSUME Init PROVE IInv /\ Lifecycle!Init
  OBVIOUS
<1>1. NoCall \in Call /\ 0 \in 0..MaxTime /\ AbsentRow \in DeliveryRow
  <2>1. AbsentRow \in DeliveryRow
    BY AbsentRowInv DEF RowInv
  <2>2. QED
    BY <2>1, DeliveryAssumption DEF NoCall, Call
<1>2. TypeOK
  BY <1>1 DEF Init, TypeOK, Replies
<1>3. \A r \in Rows : RowInv(delivery[r], issued[r], lastOp[r], now)
  BY AbsentRowInv DEF Init
<1>4. \A s \in Sessions : SessionInv(s)
  BY DEF Init, SessionInv
<1>5. Lifecycle!Init
  BY DEF Init, Lifecycle!Init, Lifecycle!AbsentRow, AbsentRow, Lifecycle!NullTime, NullTime
<1>6. QED
  BY <1>2, <1>3, <1>4, <1>5 DEF IInv

\* Every step preserves the invariant and maps to a step of DeliveryLifecycle
\* or to a stuttering step.
LEMMA NextIInv ==
  ASSUME IInv, [Next]_vars
  PROVE  IInv' /\ [Lifecycle!Next]_(Lifecycle!vars)
<1>1. CASE Tick
  BY <1>1, TickStep
<1>2. ASSUME NEW r \in Rows, Enqueue(r) \/ Import(r)
      PROVE  IInv' /\ Lifecycle!Next
  <2>1. CASE Enqueue(r)
    <3>1. PICK t \in 0..now : Insert(r, t, EnqueuedRow(t))
      BY <2>1 DEF Enqueue
    <3>2. IInv'
      BY <3>1, InsertStep
    <3>3. Lifecycle!Enqueue(r)
      BY <3>1, Zenon DEF Insert, Lifecycle!Enqueue, Lifecycle!Insert, Lifecycle!EnqueuedRow,
                  EnqueuedRow, Lifecycle!AbsentRow, AbsentRow, Lifecycle!NullTime, NullTime
    <3>4. QED
      BY <3>2, <3>3 DEF Lifecycle!Next
  <2>2. CASE Import(r)
    <3>1. PICK t \in 0..now :
            \E row \in {EnqueuedRow(t), ImportedDelivered(t)} : Insert(r, t, row)
      BY <2>2 DEF Import
    <3>2. PICK row \in {EnqueuedRow(t), ImportedDelivered(t)} : Insert(r, t, row)
      BY <3>1
    <3>3. IInv'
      BY <3>2, InsertStep
    <3>4. 0 \in 0..ImportSkew /\ t + 0 = t
      BY DeliveryAssumption DEF IInv, TypeOK
    <3>5. /\ Lifecycle!Insert(r, t, row)
          /\ row \in {Lifecycle!EnqueuedRow(t + 0), Lifecycle!ImportedDelivered(t + 0)}
      BY <3>2, <3>4, Zenon DEF Insert, Lifecycle!Insert, Lifecycle!EnqueuedRow, EnqueuedRow,
                  Lifecycle!ImportedDelivered, ImportedDelivered,
                  Lifecycle!AbsentRow, AbsentRow, Lifecycle!NullTime, NullTime
    <3>6. Lifecycle!Import(r)
      BY <3>4, <3>5, Zenon DEF Lifecycle!Import
    <3>7. QED
      BY <3>3, <3>6 DEF Lifecycle!Next
  <2>3. QED
    BY <1>2, <2>1, <2>2
<1>3. ASSUME NEW s \in Sessions, Begin(s)
      PROVE  IInv' /\ UNCHANGED Lifecycle!vars
  BY <1>3, BeginClaimStep, BeginMutationStep, BeginFinalizeStep DEF Begin
<1>4. ASSUME NEW s \in Sessions, Continue(s)
      PROVE  IInv' /\ [Lifecycle!Next]_(Lifecycle!vars)
  <2>1. CASE CommitClaim(s)
    BY <2>1, CommitClaimStep
  <2>2. CASE CommitMutation(s)
    BY <2>2, CommitMutationStep
  <2>3. CASE CommitFinalize(s)
    BY <2>3, CommitFinalizeStep
  <2>4. CASE EndRefused(s)
    BY <2>4, EndUnchanged DEF EndRefused, Replies
  <2>5. QED
    BY <1>4, <2>1, <2>2, <2>3, <2>4, SelectCandidatesStep, LockCandidateStep,
       OverflowClaimStep, ExecuteMutationStep, ClassifyMutationStep,
       ReexecuteMutationStep, ReclassifyMutationStep, LockEventStep, LockDeliveryStep
       DEF Continue
<1>5. ASSUME NEW s \in Sessions, Abort(s)
      PROVE  IInv' /\ UNCHANGED Lifecycle!vars
  BY <1>5, EndUnchanged DEF Abort, Replies
<1>6. CASE UNCHANGED vars
  <2>1. UNCHANGED Lifecycle!vars
    BY <1>6 DEF vars, tables, Lifecycle!vars
  <2>2. IInv'
    BY <1>6, Zenon DEF vars, tables, IInv, TypeOK, SessionInv, RowInv
  <2>3. QED
    BY <2>1, <2>2
<1>7. QED
  BY <1>1, <1>2, <1>3, <1>4, <1>5, <1>6 DEF Next

\* IInv holds in every reachable state.
THEOREM Inductive == Spec => []IInv
<1>1. Init => IInv
  BY InitIInv
<1>2. IInv /\ [Next]_vars => IInv'
  BY NextIInv
<1>3. QED
  BY <1>1, <1>2, PTL DEF Spec

\* Every variable of the PostgreSQL model keeps its type.
THEOREM PgTypeCorrect == Spec => []TypeOK
<1>1. IInv => TypeOK
  BY DEF IInv
<1>2. QED
  BY <1>1, Inductive, PTL

\* The PostgreSQL adapter implements DeliveryLifecycle: whatever the sessions do
\* with their snapshots, locks and clock readings, each committed transaction is
\* one atomic claim, mutation or finalisation, and nothing else is visible.
THEOREM PgImplementsLifecycle == Spec => LifecycleRefined
<1>1. Init => Lifecycle!Init
  BY InitIInv
<1>2. IInv /\ [Next]_vars => [Lifecycle!Next]_(Lifecycle!vars)
  BY NextIInv
<1>3. QED
  BY <1>1, <1>2, Inductive, PTL DEF Spec, LifecycleRefined, Lifecycle!Spec

\* Only three steps change an existing row, each of them the commit of the
\* session that holds the lock of every row it changes.
LEMMA StepScoped ==
  ASSUME IInv, [Next]_vars
  PROVE  ScopedWritesStep
<1> SUFFICES ASSUME NEW r \in Rows, delivery[r].state # "absent",
                    delivery'[r] # delivery[r]
             PROVE  /\ lock[r] \in Sessions
                    /\ InScope(call[lock[r]].scope, r)
                    /\ pc[lock[r]] \in {"lock", "commit", "finalize"}
                    /\ pc'[lock[r]] = "idle"
                    /\ reply' \in {"Claimed", "Mutated", "Finalized"}
  BY DEF ScopedWritesStep
<1>1. TypeOK /\ \A s \in Sessions : SessionInv(s)
  BY DEF IInv
<1>2. \E s \in Sessions : CommitClaim(s) \/ CommitMutation(s) \/ CommitFinalize(s)
  <2>1. ASSUME NEW q \in Rows, NEW t, NEW row
        PROVE  ~Insert(q, t, row)
    BY <1>1 DEF Insert, TypeOK
  <2>2. ASSUME NEW s \in Sessions, Begin(s)
        PROVE  FALSE
    BY <2>2, Zenon DEF Begin, BeginClaim, BeginMutation, BeginFinalize, tables
  <2>3. ASSUME NEW s \in Sessions, Continue(s)
        PROVE  CommitClaim(s) \/ CommitMutation(s) \/ CommitFinalize(s)
    BY <2>3, Zenon DEF Continue, SelectCandidates, LockCandidate, OverflowClaim, ExecuteMutation,
                ClassifyMutation, ReexecuteMutation, ReclassifyMutation, LockEvent, LockDelivery,
                EndRefused, tables
  <2>4. QED
    BY <2>1, <2>2, <2>3 DEF Next, Tick, Enqueue, Import, Abort, vars, tables
<1>3. PICK s \in Sessions : CommitClaim(s) \/ CommitMutation(s) \/ CommitFinalize(s)
  BY <1>2
<1>4. pc'[s] = "idle"
  BY <1>1, <1>3, Zenon DEF CommitClaim, CommitMutation, CommitFinalize, End, TypeOK
<1>5. CASE CommitClaim(s)
  <2>1. r \in batch[s] /\ reply' = "Claimed"
    BY <1>5 DEF CommitClaim, End
  <2>2. QED
    BY <1>1, <1>4, <2>1, Zenon DEF SessionInv
<1>6. CASE CommitMutation(s)
  <2>1. r = call[s].row /\ pc[s] = "commit" /\ reply' = "Mutated"
    BY <1>1, <1>6 DEF CommitMutation, End, TypeOK
  <2>2. QED
    BY <1>1, <1>4, <2>1 DEF SessionInv
<1>7. CASE CommitFinalize(s)
  <2>1. r = call[s].row /\ pc[s] = "finalize" /\ reply' = "Finalized"
    BY <1>1, <1>7 DEF CommitFinalize, End, TypeOK
  <2>2. QED
    BY <1>1, <1>4, <2>1, Zenon DEF SessionInv
<1>8. QED
  BY <1>3, <1>5, <1>6, <1>7, Zenon

\* Refusals and the no-op error come only from a classification, of the latest
\* version of the row and the present clock.
LEMMA StepHonest ==
  ASSUME IInv, NoMutationNoop, [Next]_vars
  PROVE  HonestRefusalStep /\ NoMutationNoop'
<1> DEFINE Refusals == {"LostClaim", "IllegalTransition", "NotFound"}
<1>1. TypeOK /\ \A s \in Sessions : SessionInv(s)
  BY DEF IInv
<1>2. ASSUME NEW u \in Sessions, ClassifyMutation(u) \/ ReclassifyMutation(u)
      PROVE  HonestRefusalStep /\ NoMutationNoop'
  <2> DEFINE r == call[u].row
  <2>1. /\ pc[u] \in {"classify", "reclassify"} /\ r \in Rows
        /\ pc[u] = "reclassify" => Verdict(u) # "Ok"
    BY <1>1, <1>2, Zenon DEF SessionInv, ClassifyMutation, ReclassifyMutation, Verdict
  <2>2. Verdict(u) # "Ok" => ~(/\ InScope(call[u].scope, r)
                               /\ Fenced(delivery[r], call[u].token, now))
    BY DEF Verdict, Visible, Fenced
  <2>3. reply' # "none" => reply' = Verdict(u) /\ Verdict(u) # "Ok"
    BY <1>2, <2>1 DEF ClassifyMutation, ReclassifyMutation, End
  <2>4. NoMutationNoop'
    BY <1>2, <2>1, <2>3 DEF NoMutationNoop, Verdict
  <2>5. \A s \in Sessions : pc[s] \in Steps /\ pc'[s] = "idle" => s = u
    BY <1>1, <1>2 DEF ClassifyMutation, ReclassifyMutation, End, TypeOK, Steps
  <2>6. HonestRefusalStep
    BY <2>2, <2>3, <2>5, Zenon DEF HonestRefusalStep
  <2>7. QED
    BY <2>4, <2>6
<1>3. ASSUME reply' \in Replies \ (Refusals \union {"MutationNoop"})
      PROVE  HonestRefusalStep /\ NoMutationNoop'
  BY <1>3 DEF HonestRefusalStep, NoMutationNoop
<1>4. ASSUME NEW s \in Sessions, Begin(s)
      PROVE  reply' = "none"
  BY <1>4, Zenon DEF Begin, BeginClaim, BeginMutation, BeginFinalize
<1>5. ASSUME NEW s \in Sessions, Continue(s)
      PROVE  \/ ClassifyMutation(s) \/ ReclassifyMutation(s) \/ EndRefused(s)
             \/ reply' \in {"none", "Claimed", "CounterOverflow", "Mutated", "Finalized"}
  BY <1>5, Zenon DEF Continue, SelectCandidates, LockCandidate, CommitClaim, OverflowClaim,
              ExecuteMutation, ReexecuteMutation, CommitMutation, LockEvent, LockDelivery,
              CommitFinalize, End
<1>6. ASSUME NEW s \in Sessions, Abort(s)
      PROVE  reply' = "Error"
  BY <1>6, Zenon DEF Abort, End
<1>7. CASE Tick \/ \E r \in Rows : Enqueue(r) \/ Import(r)
  <2>1. reply' = "none"
    BY <1>7 DEF Tick, Enqueue, Import, Insert
  <2>2. QED
    BY <1>3, <2>1 DEF Replies
<1>8. CASE UNCHANGED vars
  <2>1. UNCHANGED <<pc, reply>>
    BY <1>8 DEF vars
  <2>2. QED
    BY <2>1 DEF HonestRefusalStep, NoMutationNoop, Steps
<1>9. ASSUME NEW u \in Sessions, EndRefused(u)
      PROVE  HonestRefusalStep /\ NoMutationNoop'
  <2>1. pc[u] = "refused" /\ reply' # "MutationNoop"
    BY <1>9, Zenon DEF EndRefused, End
  <2>2. pc' = [pc EXCEPT ![u] = "idle"]
    BY <1>9, Zenon DEF EndRefused, End
  <2>3. QED
    BY <1>1, <2>1, <2>2 DEF HonestRefusalStep, NoMutationNoop, TypeOK, Steps
<1>10. QED
  BY <1>2, <1>3, <1>4, <1>5, <1>6, <1>7, <1>8, <1>9 DEF Next, Replies

\* A row changes only in the commit of the session that holds its lock and whose
\* tenant scope covers it, in every interleaving.
THEOREM PgScopedWrites == Spec => ScopedWrites
<1>1. IInv /\ [Next]_vars => [ScopedWritesStep]_vars
  BY StepScoped
<1>2. QED
  BY <1>1, Inductive, PTL DEF Spec, ScopedWrites

\* No caller whose token still has authority over the row is refused.
THEOREM PgHonestAnswers == Spec => HonestRefusal
<1>1. Init => NoMutationNoop
  BY DEF Init, NoMutationNoop
<1>2. IInv /\ NoMutationNoop /\ [Next]_vars => [HonestRefusalStep]_vars /\ NoMutationNoop'
  BY StepHonest
<1>3. QED
  BY <1>1, <1>2, Inductive, PTL DEF Spec, HonestRefusal

\* mutate's error for a locked row that was not updated is unreachable.
THEOREM PgNoMutationNoop == Spec => []NoMutationNoop
<1>1. Init => NoMutationNoop
  BY DEF Init, NoMutationNoop
<1>2. IInv /\ NoMutationNoop /\ [Next]_vars => NoMutationNoop'
  BY StepHonest
<1>3. QED
  BY <1>1, <1>2, Inductive, PTL DEF Spec

--------------------------------------------------------------------------------
(* From the contract to the adapter: the theorems of TableProofs about the   *)
(* contract hold of whatever implements DeliveryLifecycle.  Its pagers play  *)
(* no part in them.                                                          *)

Contract == INSTANCE TableProofs
               WITH Owners <- {}, AllOwners <- 0, Readers <- {}, Limits <- {}, MaxRow <- 0,
                    BadRows <- {}, handle <- 0, rows <- 0, live <- 0, pager <- 0, adapter <- 0

\* The contract the adapter implements is the one these theorems are about.
LEMMA SameContract ==
  /\ Lifecycle!Init => Contract!Init
  /\ Lifecycle!Next => Contract!Next
  /\ Lifecycle!vars = Contract!vars
<1>1. Lifecycle!Init => Contract!Init
  BY Zenon DEF Lifecycle!Init, Contract!Init, Lifecycle!AbsentRow, Contract!AbsentRow,
               Lifecycle!NullTime, Contract!NullTime
<1>2. Lifecycle!Tick => Contract!Tick
  BY Zenon DEF Lifecycle!Tick, Contract!Tick
<1>3. \A r \in Rows : Lifecycle!Enqueue(r) => Contract!Enqueue(r)
  BY Zenon DEF Lifecycle!Enqueue, Contract!Enqueue, Lifecycle!Insert, Contract!Insert,
               Lifecycle!EnqueuedRow, Contract!EnqueuedRow, Lifecycle!AbsentRow,
               Contract!AbsentRow, Lifecycle!NullTime, Contract!NullTime
<1>4. \A r \in Rows : Lifecycle!Import(r) => Contract!Import(r)
  BY Zenon DEF Lifecycle!Import, Contract!Import, Lifecycle!Insert, Contract!Insert,
               Lifecycle!EnqueuedRow, Contract!EnqueuedRow, Lifecycle!AbsentRow,
               Contract!AbsentRow, Lifecycle!NullTime, Contract!NullTime,
               Lifecycle!ImportedDelivered, Contract!ImportedDelivered
<1>5. Lifecycle!ClaimSome => Contract!ClaimSome
  BY Zenon DEF Lifecycle!ClaimSome, Contract!ClaimSome, Lifecycle!Claim, Contract!Claim,
               Lifecycle!InScope, Contract!InScope, Lifecycle!Eligible, Contract!Eligible,
               Lifecycle!ClaimedRow, Contract!ClaimedRow
<1>6. Lifecycle!MutateSome => Contract!MutateSome
  BY Zenon DEF Lifecycle!MutateSome, Contract!MutateSome, Lifecycle!Mutate, Contract!Mutate,
               Lifecycle!InScope, Contract!InScope, Lifecycle!Fenced, Contract!Fenced,
               Lifecycle!MutatedRow, Contract!MutatedRow, Lifecycle!Unclaimed,
               Contract!Unclaimed, Lifecycle!NullTime, Contract!NullTime,
               Lifecycle!MutationArgs, Contract!MutationArgs
<1>7. \A r \in Rows : Lifecycle!Finalize(r) => Contract!Finalize(r)
  BY Zenon DEF Lifecycle!Finalize, Contract!Finalize, Lifecycle!CanonicalPending,
               Contract!CanonicalPending, Lifecycle!Canonical, Contract!Canonical,
               Lifecycle!NullTime, Contract!NullTime, Lifecycle!FinalizedRow,
               Contract!FinalizedRow
<1>8. QED
  BY <1>1, <1>2, <1>3, <1>4, <1>5, <1>6, <1>7, Zenon
     DEF Lifecycle!Next, Contract!Next, Lifecycle!vars, Contract!vars

\* And so are its promises.
LEMMA SamePromise ==
  /\ Contract!LeaseHonouredStep => Lifecycle!LeaseHonouredStep
  /\ Contract!DelayHonouredStep => Lifecycle!DelayHonouredStep
  /\ Contract!TerminalStableStep => Lifecycle!TerminalStableStep
  /\ Contract!AttemptsCountClaims => Lifecycle!AttemptsCountClaims
BY Zenon DEF Lifecycle!LeaseHonouredStep, Contract!LeaseHonouredStep, Lifecycle!DelayHonouredStep,
  Contract!DelayHonouredStep, Lifecycle!TerminalStableStep, Contract!TerminalStableStep,
  Lifecycle!Terminal, Contract!Terminal, Lifecycle!AttemptsCountClaims, Contract!AttemptsCountClaims,
  Lifecycle!IsFiniteSet, Contract!IsFiniteSet, Lifecycle!Cardinality, Contract!Cardinality

\* What a caller of the PostgreSQL adapter gets, down to its statements: no live lease
\* is taken over, no row is claimed before its delay has passed, delivered and
\* quarantined rows are final, and attempts counts the committed claims.
THEOREM PgKeepsPromises ==
  Spec => /\ Lifecycle!LeaseHonoured
          /\ Lifecycle!DelayHonoured
          /\ Lifecycle!TerminalStable
          /\ []Lifecycle!AttemptsCountClaims
<1>1. /\ Contract!Spec => Contract!LeaseHonoured
      /\ Contract!Spec => Contract!DelayHonoured
      /\ Contract!Spec => Contract!TerminalStable
      /\ Contract!Spec => []Contract!AttemptsCountClaims
  BY Contract!LeasesAreHonoured, Contract!DelaysAreHonoured, Contract!TerminalRowsAreStable,
     Contract!AttemptsAreClaims, DeliveryAssumption
     DEF Contract!LeasesAreHonoured, Contract!DelaysAreHonoured, Contract!TerminalRowsAreStable,
         Contract!AttemptsAreClaims, MutationKind, Contract!MutationKind
<1>2. Lifecycle!vars = Contract!vars /\ Lifecycle!vars' = Contract!vars'
  BY DEF Lifecycle!vars, Contract!vars
<1>3. [Lifecycle!Next]_(Lifecycle!vars) => [Contract!Next]_(Contract!vars)
  BY SameContract, <1>2
<1>4. /\ [Contract!LeaseHonouredStep]_(Contract!vars) => [Lifecycle!LeaseHonouredStep]_(Lifecycle!vars)
      /\ [Contract!DelayHonouredStep]_(Contract!vars) => [Lifecycle!DelayHonouredStep]_(Lifecycle!vars)
      /\ [Contract!TerminalStableStep]_(Contract!vars) => [Lifecycle!TerminalStableStep]_(Lifecycle!vars)
  BY SamePromise, <1>2
<1>5. QED
  BY PgImplementsLifecycle, SameContract, SamePromise, <1>1, <1>3, <1>4, PTL
     DEF LifecycleRefined, Lifecycle!Spec, Contract!Spec, Lifecycle!LeaseHonoured,
         Contract!LeaseHonoured, Lifecycle!DelayHonoured, Contract!DelayHonoured,
         Lifecycle!TerminalStable, Contract!TerminalStable
================================================================================
