-------------------------- MODULE MysqlLifecycleProofs --------------------------
(***************************************************************************)
(* The MySQL adapter's transactions implement DeliveryFencing, for every   *)
(* number of sessions and rows.  IInv of MysqlLifecycle is inductive;      *)
(* under it every step is a step of DeliveryFencing or changes no table.   *)
(***************************************************************************)
EXTENDS MysqlLifecycle, DeliveryProofs, WellFoundedInduction

\* The two answers that would betray a broken invariant.
Spurious == {"Serialization", "MutationNoop"}

\* A row in order for some last change is in order for an unknown one, which is
\* all MySQL keeps.
LEMMA RowInvForget ==
  ASSUME NEW d, NEW toks, NEW last \in Nat, NEW clock \in Nat, RowInv(d, toks, last, clock)
  PROVE  RowInv(d, toks, 0, clock)
BY DEF RowInv, DeliveryRow, NullTime

\* A row change by one session cannot disturb what another one relies on: the
\* rows the other has locked stay, tokens are only added and time only passes.
LEMMA Frame ==
  ASSUME TypeOK, TypeOK', NEW u \in Sessions, SessionInv(u),
         pc'[u] = pc[u], call'[u] = call[u], opTime'[u] = opTime[u],
         cand'[u] = cand[u], batch'[u] = batch[u],
         \A r \in Rows : lock[r] = u => lock'[r] = u /\ delivery'[r] = delivery[r],
         \A r \in Rows : issued[r] \subseteq issued'[r],
         now <= now'
  PROVE  SessionInv(u)'
<1> DEFINE r == call[u].row
<1>1. /\ now \in Nat /\ now' \in Nat /\ opTime[u] \in Nat
      /\ batch[u] \in SUBSET Rows /\ cand[u] \in SUBSET Rows
      /\ delivery \in [Rows -> DeliveryRow]
  BY DeliveryAssumption DEF TypeOK
<1>2. opTime'[u] <= now'
  BY <1>1 DEF SessionInv
<1>3. \A q \in batch'[u] : /\ pc'[u] \in {"lock", "window", "clock", "persist"}
                           /\ lock'[q] = u
                           /\ InScope(call'[u].scope, q)
                           /\ Eligible(delivery'[q], now')
  <2> SUFFICES ASSUME NEW q \in batch[u] PROVE Eligible(delivery'[q], now')
    BY <1>1, Zenon DEF SessionInv, ClaimInv
  <2>1. q \in Rows /\ Eligible(delivery[q], now) /\ delivery'[q] = delivery[q]
    BY <1>1, Zenon DEF SessionInv, ClaimInv
  <2>2. delivery[q].available_at \in Int /\ delivery[q].claim_expires_at \in Int
    BY <1>1, <2>1 DEF DeliveryRow, NullTime
  <2>3. QED
    BY <1>1, <2>1, <2>2 DEF Eligible
<1>4. pc[u] = "persist" => \A q \in batch'[u] : /\ Eligible(delivery'[q], opTime'[u])
                                                /\ delivery'[q].attempts < MaxAttempts
  BY <1>1, Zenon DEF SessionInv, ClaimInv
<1>5. /\ pc[u] = "classify" => ~Matches(u, opTime[u])'
      /\ pc[u] = "commit" => Matches(u, opTime[u])'
  BY <1>1, Zenon DEF SessionInv, MutationInv, Matches
<1>6. QED
  BY <1>1, <1>2, <1>3, <1>4, <1>5, Zenon DEF SessionInv, ClaimInv, MutationInv, FinalizeInv

\* The variables of the other sessions and the delivery locks they hold are
\* untouched.
OthersUntouched(s) ==
  /\ \A u \in Sessions \ {s} : /\ pc'[u] = pc[u] /\ call'[u] = call[u]
                               /\ opTime'[u] = opTime[u]
                               /\ cand'[u] = cand[u] /\ batch'[u] = batch[u]
  /\ \A r \in Rows : lock[r] \in Sessions \ {s} => lock'[r] = lock[r]

\* A step of session s that writes only rows it has locked preserves the
\* invariant if it leaves the rows and its own call in order.
LEMMA StepInv ==
  ASSUME IInv, NEW s \in Sessions, TypeOK', SessionInv(s)', OthersUntouched(s),
         now' = now, reply' \notin Spurious,
         \A r \in Rows : RowInv(delivery'[r], issued'[r], 0, now'),
         \A r \in Rows : lock[r] # s => delivery'[r] = delivery[r],
         \A r \in Rows : issued[r] \subseteq issued'[r]
  PROVE  IInv'
<1>1. TypeOK /\ now \in Nat
  BY DeliveryAssumption DEF IInv, TypeOK
<1>2. ASSUME NEW u \in Sessions \ {s}
      PROVE  SessionInv(u)'
  <2>1. \A r \in Rows : lock[r] = u => lock'[r] = u /\ delivery'[r] = delivery[r]
    BY Zenon DEF OthersUntouched
  <2>2. now <= now' /\ SessionInv(u)
    BY <1>1 DEF IInv
  <2>3. /\ pc'[u] = pc[u] /\ call'[u] = call[u] /\ opTime'[u] = opTime[u]
        /\ cand'[u] = cand[u] /\ batch'[u] = batch[u]
    BY Zenon DEF OthersUntouched
  <2>4. QED
    BY <1>1, <2>1, <2>2, <2>3, Frame, Zenon
<1>3. \A u \in Sessions : SessionInv(u)'
  BY <1>2, Zenon
<1>4. QED
  BY <1>3, Zenon DEF IInv, Spurious

\* A step of session s that changes no table preserves the invariant and maps to
\* a stuttering step of DeliveryFencing.
LEMMA LocalStep ==
  ASSUME IInv, NEW s \in Sessions, TypeOK', SessionInv(s)', OthersUntouched(s),
         UNCHANGED tables, reply' \notin Spurious
  PROVE  IInv' /\ UNCHANGED Fencing!vars
<1>1. UNCHANGED Fencing!vars
  BY Zenon DEF tables, Fencing!vars
<1>2. \A r \in Rows : RowInv(delivery'[r], issued'[r], 0, now')
  BY Zenon DEF IInv, tables
<1>3. QED
  BY <1>1, <1>2, StepInv, Zenon DEF tables

\* The end of a transaction frees its locks, resets its session and leaves the
\* others alone; an idle session relies on nothing.
LEMMA EndOfTransaction ==
  ASSUME TypeOK, NEW s \in Sessions, NEW outcome \in Replies, End(s, outcome),
         now' = now, delivery' \in [Rows -> DeliveryRow],
         issued' \in [Rows -> SUBSET Tokens]
  PROVE  TypeOK' /\ SessionInv(s)' /\ OthersUntouched(s) /\ reply' = outcome
<1>1. NoCall \in Call /\ 0 \in 0..MaxTime /\ NoView \in [Rows -> DeliveryRow]
  <2>1. AbsentRow \in DeliveryRow
    BY AbsentRowInv, Zenon DEF RowInv
  <2>2. QED
    BY <2>1, DeliveryAssumption DEF NoCall, Call, NoView
<1>2. TypeOK'
  <2>1. lock' \in [Rows -> Sessions \union {Free}] /\ elock' \in [Rows -> Sessions \union {Free}]
    BY Zenon DEF TypeOK, End, Freed
  <2>2. QED
    BY <1>1, <2>1, Zenon DEF TypeOK, End
<1>3. SessionInv(s)'
  BY <1>1, DeliveryAssumption
     DEF TypeOK, End, SessionInv, ClaimInv, MutationInv, FinalizeInv
<1>4. OthersUntouched(s)
  BY Zenon DEF TypeOK, End, Freed, OthersUntouched
<1>5. QED
  BY <1>2, <1>3, <1>4, Zenon DEF End

\* The same of a transaction that changed no table.
LEMMA EndUnchanged ==
  ASSUME IInv, NEW s \in Sessions, NEW outcome \in Replies \ Spurious, End(s, outcome),
         UNCHANGED tables
  PROVE  IInv' /\ UNCHANGED Fencing!vars
<1>1. /\ TypeOK /\ now' = now /\ delivery' \in [Rows -> DeliveryRow]
      /\ issued' \in [Rows -> SUBSET Tokens]
  BY Zenon DEF IInv, TypeOK, tables
<1>2. QED
  BY <1>1, EndOfTransaction, LocalStep, Zenon

-------------------------------------------------------------------------------
(* One lemma per action.                                                   *)

\* Starting a claim: nothing is locked and nothing is read yet.
LEMMA BeginClaimStep ==
  ASSUME IInv, NEW s \in Sessions, NEW scope \in Scopes, NEW lease \in Leases,
         NEW limit \in Limits, BeginClaim(s, scope, lease, limit)
  PROVE  IInv' /\ UNCHANGED Fencing!vars
<1> USE DEF BeginClaim
<1>1. TypeOK /\ SessionInv(s)
  BY Zenon DEF IInv
<1> DEFINE c == [NoCall EXCEPT !.op = "claim", !.scope = scope,
                               !.arg = lease, !.limit = limit]
<1>2. c \in Call /\ c.scope = scope /\ c.arg = lease /\ c.limit = limit
  BY DeliveryAssumption, MysqlAssumption, Zenon DEF Call, NoCall
<1> HIDE DEF c
<1>3. call'[s] = c
  BY <1>1, Zenon DEF TypeOK, c
<1>4. TypeOK'
  BY <1>1, <1>2, Zenon DEF TypeOK, tables, claiming, Steps, Replies, c
<1>5. SessionInv(s)'
  BY <1>1, <1>2, <1>3, DeliveryAssumption
     DEF TypeOK, tables, claiming, SessionInv, ClaimInv, MutationInv, FinalizeInv
<1>6. OthersUntouched(s)
  BY <1>1, Zenon DEF TypeOK, claiming, OthersUntouched
<1>7. QED
  BY <1>4, <1>5, <1>6, LocalStep, Zenon DEF Spurious

\* A window holds only rows of the caller's scope; an empty one ends the search.
LEMMA ReadWindowStep ==
  ASSUME IInv, NEW s \in Sessions, ReadWindow(s)
  PROVE  IInv' /\ UNCHANGED Fencing!vars
<1>1. TypeOK /\ SessionInv(s) /\ pc[s] \in {"first", "window"} /\ UNCHANGED tables
  BY Zenon DEF IInv, ReadWindow
<1>2. CASE NextWindow(s) = {} /\ batch[s] = {}
  BY <1>1, <1>2, EndUnchanged, Zenon DEF ReadWindow, Replies, Spurious
<1>3. CASE ~(NextWindow(s) = {} /\ batch[s] = {})
  <2> DEFINE W == NextWindow(s)
             D == CandidateIds(s)
  <2>1. /\ pc' = [pc EXCEPT ![s] = IF W = {} THEN "clock" ELSE "lock"]
        /\ cand' = [cand EXCEPT ![s] = W]
        /\ view' = [view EXCEPT ![s] = Seen(s)]
        /\ due' = [due EXCEPT ![s] = IF pc[s] = "first" THEN D ELSE @]
        /\ reply' = "none"
        /\ UNCHANGED <<lock, elock, call, opTime, after, batch>>
    BY <1>3, Zenon DEF ReadWindow
  <2>2. /\ D \in SUBSET Rows /\ W \in SUBSET Rows /\ Seen(s) \in [Rows -> DeliveryRow]
        /\ \A q \in W : InScope(call[s].scope, q)
    BY <1>1, Zenon DEF NextWindow, FirstN, CandidateIds, Seen, TypeOK
  <2> HIDE DEF W, D
  <2>3. TypeOK'
    BY <1>1, <2>1, <2>2, Zenon DEF TypeOK, tables, Steps, Replies
  <2>4. SessionInv(s)'
    <3>1. /\ pc'[s] = (IF W = {} THEN "clock" ELSE "lock") /\ cand'[s] = W
          /\ W = {} => batch[s] # {}
      BY <1>1, <1>3, <2>1, Zenon DEF TypeOK, W
    <3>2. QED
      BY <1>1, <2>1, <2>2, <3>1 DEF tables, SessionInv, ClaimInv, MutationInv, FinalizeInv
  <2>5. OthersUntouched(s)
    BY <1>1, <2>1, Zenon DEF TypeOK, OthersUntouched
  <2>6. QED
    BY <1>1, <2>1, <2>3, <2>4, <2>5, LocalStep DEF Spurious
<1>4. QED
  BY <1>2, <1>3, Zenon

\* A candidate joins the batch only free and eligible in its latest version; a
\* full batch is not empty.
LEMMA LockCandidateStep ==
  ASSUME IInv, NEW s \in Sessions, LockCandidate(s)
  PROVE  IInv' /\ UNCHANGED Fencing!vars
<1>1. /\ TypeOK /\ SessionInv(s) /\ pc[s] = "lock" /\ reply' = "none"
      /\ UNCHANGED <<tables, call, opTime, view, due>>
  BY Zenon DEF IInv, LockCandidate
<1> DEFINE took(r) == IF Lockable(s, r) THEN batch[s] \union {r} ELSE batch[s]
           full(r) == Cardinality(took(r)) = call[s].limit
           rest(r) == IF full(r) THEN {} ELSE cand[s] \ {r}
<1>2. PICK r \in cand[s] :
        /\ after' = [after EXCEPT ![s] = r]
        /\ lock' = [lock EXCEPT ![r] = IF Lockable(s, r) \/ @ = Free THEN s ELSE @]
        /\ elock' = [elock EXCEPT ![r] = IF Lockable(s, r) THEN s ELSE @]
        /\ batch' = [batch EXCEPT ![s] = took(r)]
        /\ cand' = [cand EXCEPT ![s] = rest(r)]
        /\ pc' = [pc EXCEPT ![s] = IF full(r) THEN "clock"
                                   ELSE IF rest(r) = {} THEN "window" ELSE "lock"]
  BY Zenon DEF LockCandidate
<1> DEFINE T == took(r)
           R == rest(r)
           F == full(r)
<1>3. /\ r \in Rows /\ T \in SUBSET Rows /\ R \in SUBSET cand[s] /\ R \in SUBSET Rows
      /\ InScope(call[s].scope, r) /\ F => R = {}
  BY <1>1, ZenonT(30), Zenon DEF TypeOK, SessionInv, ClaimInv
<1>4. F => T # {}
  <2>1. call[s].limit # 0
    BY <1>1, MysqlAssumption, Zenon DEF SessionInv, ClaimInv
  <2>2. QED
    BY <2>1, FS_EmptySet, Zenon
<1>5. \A q \in T : \/ q \in batch[s]
                   \/ q = r /\ lock[r] = Free /\ Eligible(delivery[r], now) /\ Lockable(s, r)
  BY Zenon DEF Lockable
<1>6. \/ lock' = [lock EXCEPT ![r] = s] /\ lock[r] = Free
      \/ lock' = lock /\ ~Lockable(s, r)
  BY <1>1, <1>2, ZenonT(30), Zenon DEF Lockable, TypeOK
<1>7. /\ batch' = [batch EXCEPT ![s] = T] /\ cand' = [cand EXCEPT ![s] = R]
      /\ pc' = [pc EXCEPT ![s] = IF F THEN "clock" ELSE IF R = {} THEN "window" ELSE "lock"]
      /\ after' = [after EXCEPT ![s] = r]
      /\ elock' = [elock EXCEPT ![r] = IF Lockable(s, r) THEN s ELSE @]
  BY <1>2, Zenon
<1> HIDE DEF T, R, F
<1>8. TypeOK'
  BY <1>1, <1>3, <1>6, <1>7 DEF TypeOK, tables, Steps, Replies
<1>9. SessionInv(s)'
  <2>1. /\ batch'[s] = T /\ cand'[s] = R
        /\ pc'[s] = IF F THEN "clock" ELSE IF R = {} THEN "window" ELSE "lock"
    BY <1>1, <1>7, Zenon DEF TypeOK
  <2>2. \A q \in T : /\ lock'[q] = s /\ InScope(call[s].scope, q)
                     /\ Eligible(delivery[q], now)
    BY <1>1, <1>3, <1>5, <1>6 DEF TypeOK, SessionInv, ClaimInv
  <2>3. \A q \in R : pc'[s] = "lock" /\ InScope(call[s].scope, q)
    BY <1>1, <1>3, <2>1, Zenon DEF SessionInv, ClaimInv
  <2>4. QED
    BY <1>1, <1>3, <1>4, <2>1, <2>2, <2>3, Zenon
       DEF tables, SessionInv, ClaimInv, MutationInv, FinalizeInv
<1>10. OthersUntouched(s)
  BY <1>1, <1>3, <1>6, <1>7, MysqlAssumption DEF TypeOK, OthersUntouched
<1>11. QED
  BY <1>1, <1>8, <1>9, <1>10, LocalStep, Zenon DEF Spurious

\* Every locked row is still eligible at the operation time, so validation
\* refuses none; a full counter ends the claim.
LEMMA PrepareClaimStep ==
  ASSUME IInv, NEW s \in Sessions, PrepareClaim(s)
  PROVE  IInv' /\ UNCHANGED Fencing!vars
<1>1. TypeOK /\ SessionInv(s) /\ pc[s] = "clock" /\ UNCHANGED tables
  BY ZenonT(30), Zenon DEF IInv, PrepareClaim
<1>2. \A q \in batch[s] : Eligible(delivery[q], ClaimClock(s))
  BY <1>1, Zenon DEF SessionInv, ClaimInv, ClaimClock
<1>3. CASE \E r \in batch[s] : delivery[r].attempts = MaxAttempts
  <2>1. End(s, "CounterOverflow")
    BY <1>2, <1>3, Zenon DEF PrepareClaim
  <2>2. QED
    BY <1>1, <2>1, EndUnchanged, Zenon DEF Replies, Spurious
<1>4. CASE \A r \in batch[s] : delivery[r].attempts # MaxAttempts
  <2>1. /\ opTime' = [opTime EXCEPT ![s] = now]
        /\ pc' = [pc EXCEPT ![s] = "persist"] /\ reply' = "none"
        /\ UNCHANGED <<lock, elock, call, view, due, after, cand, batch>>
    BY <1>2, <1>4, Zenon DEF PrepareClaim, ClaimClock, claiming
  <2>2. \A q \in batch[s] : delivery[q].attempts < MaxAttempts
    <3>1. ASSUME NEW q \in batch[s] PROVE delivery[q].attempts \in 0..MaxAttempts
      BY <1>1, Zenon DEF TypeOK, DeliveryRow
    <3>2. QED
      BY <1>4, <3>1, DeliveryAssumption
  <2>3. TypeOK'
    BY <1>1, <2>1, Zenon DEF TypeOK, tables, Steps, Replies
  <2>4. SessionInv(s)'
    <3>1. pc'[s] = "persist" /\ opTime'[s] = now /\ now \in Nat
      BY <1>1, <2>1, DeliveryAssumption DEF TypeOK
    <3>2. /\ call'[s] = call[s] /\ cand'[s] = cand[s] /\ batch'[s] = batch[s]
          /\ lock' = lock /\ delivery' = delivery /\ now' = now
      BY <1>1, <2>1, Zenon DEF tables
    <3>3. /\ call[s].scope \in Scopes /\ call[s].arg \in Leases /\ call[s].limit \in Limits
          /\ cand[s] = {} /\ batch[s] # {}
          /\ \A q \in batch[s] : /\ lock[q] = s /\ InScope(call[s].scope, q)
                                /\ Eligible(delivery[q], now)
      BY <1>1, Zenon DEF SessionInv, ClaimInv
    <3>4. QED
      BY <2>2, <3>1, <3>2, <3>3 DEF SessionInv, ClaimInv, MutationInv, FinalizeInv
  <2>5. OthersUntouched(s)
    BY <1>1, <2>1, Zenon DEF TypeOK, OthersUntouched
  <2>6. QED
    BY <1>1, <2>1, <2>3, <2>4, <2>5, LocalStep, Zenon DEF Spurious
<1>5. QED
  BY <1>3, <1>4, ZenonT(30), Zenon

\* Committing a batch is one claim of DeliveryFencing at the operation time read
\* once every row was locked.
LEMMA CommitClaimStep ==
  ASSUME IInv, NEW s \in Sessions, CommitClaim(s)
  PROVE  IInv' /\ Fencing!Next
<1> DEFINE S == batch[s]
           t == opTime[s]
           lease == call[s].arg
           scope == call[s].scope
<1>1. TypeOK /\ SessionInv(s) /\ pc[s] = "persist" /\ End(s, "Claimed") /\ now' = now
  BY Zenon DEF IInv, CommitClaim
<1>2. /\ S \in SUBSET Rows /\ S # {} /\ t \in 0..now /\ now \in Nat
      /\ lease \in Leases /\ scope \in Scopes
  BY <1>1, DeliveryAssumption DEF TypeOK, SessionInv, ClaimInv
<1>3. PICK token \in [S -> Tokens] :
        /\ \A r \in S : token[r] \notin issued[r]
        /\ \A r1, r2 \in S : r1 # r2 => token[r1] # token[r2]
        /\ delivery' = [r \in Rows |-> IF r \in S
                          THEN ClaimedRow(delivery[r], token[r], t + lease)
                          ELSE delivery[r]]
        /\ issued' = [r \in Rows |-> IF r \in S THEN issued[r] \union {token[r]}
                                                ELSE issued[r]]
  BY ZenonT(30), Zenon DEF CommitClaim
<1>4. \A r \in S : /\ InScope(scope, r) /\ Eligible(delivery[r], t) /\ lock[r] = s
                   /\ delivery[r].attempts < MaxAttempts
  BY <1>1, Zenon DEF SessionInv, ClaimInv
<1> HIDE DEF S, t, lease, scope
<1>5. Fencing!Claim(scope, S, token, t, lease)
  BY <1>1, <1>3, <1>4, Zenon
     DEF Fencing!Claim, Fencing!InScope, InScope, Fencing!Eligible, Eligible,
         Fencing!ClaimedRow, ClaimedRow
<1>6. Fencing!Next
  <2>1. Fencing!ClaimSome
    BY <1>2, <1>5, Zenon DEF Fencing!ClaimSome
  <2>2. QED
    BY <2>1, Zenon DEF Fencing!Next
<1>7. ASSUME NEW r \in Rows
      PROVE  RowInv(delivery'[r], issued'[r], 0, now')
  <2>1. RowInv(delivery[r], issued[r], 0, now)
    BY Zenon DEF IInv
  <2>2. CASE r \in S
    <3>1. RowInv(ClaimedRow(delivery[r], token[r], t + lease),
                 issued[r] \union {token[r]}, t, now)
      BY <1>2, <1>3, <1>4, <2>1, <2>2, ClaimedRowInv, Zenon
    <3>2. RowInv(ClaimedRow(delivery[r], token[r], t + lease),
                 issued[r] \union {token[r]}, 0, now)
      BY <1>2, <3>1, RowInvForget
    <3>3. QED
      BY <1>1, <1>3, <2>2, <3>2, Zenon
  <2>3. CASE r \notin S
    BY <1>1, <1>3, <2>1, <2>3, Zenon
  <2>4. QED
    BY <2>2, <2>3, Zenon
<1>8. delivery' \in [Rows -> DeliveryRow] /\ issued' \in [Rows -> SUBSET Tokens]
  BY <1>3, <1>7, Zenon DEF RowInv
<1>9. TypeOK' /\ SessionInv(s)' /\ OthersUntouched(s) /\ reply' = "Claimed"
  BY <1>1, <1>8, EndOfTransaction, Zenon DEF Replies
<1>10. \A r \in Rows : lock[r] # s => delivery'[r] = delivery[r]
  BY <1>3, <1>4, Zenon
<1>11. \A r \in Rows : issued[r] \subseteq issued'[r]
  BY <1>3, Zenon
<1>12. QED
  BY <1>1, <1>6, <1>7, <1>9, <1>10, <1>11, StepInv, Zenon DEF Spurious

\* Starting a mutation: any token ever stored on the row may be presented, and
\* the clock is read now, before any wait.
LEMMA BeginMutationStep ==
  ASSUME IInv, NEW s \in Sessions, NEW scope \in Scopes, NEW kind \in Kinds,
         NEW r \in Rows, NEW token \in issued[r], NEW arg \in MutationArgs(kind),
         BeginMutation(s, scope, kind, r, token, arg)
  PROVE  IInv' /\ UNCHANGED Fencing!vars
<1> USE DEF BeginMutation
<1>1. TypeOK /\ SessionInv(s)
  BY Zenon DEF IInv
<1> DEFINE c == [op |-> kind, scope |-> scope, row |-> r,
                 token |-> token, arg |-> arg, limit |-> 0]
<1>2. arg \in Nat /\ now \in Nat
  BY <1>1, DeliveryAssumption DEF MutationArgs, MutationKind, TypeOK
<1>3. /\ c \in Call /\ c.op = kind /\ c.scope = scope /\ c.row = r
      /\ c.token = token /\ c.arg = arg
  BY <1>1, <1>2, DeliveryAssumption, Zenon DEF Call, TypeOK
<1> HIDE DEF c
<1>4. call'[s] = c /\ opTime'[s] = now
  BY <1>1, Zenon DEF TypeOK, c
<1>5. TypeOK'
  BY <1>1, <1>3, Zenon DEF TypeOK, tables, claiming, Steps, Replies, c
<1>6. SessionInv(s)'
  BY <1>1, <1>2, <1>3, <1>4
     DEF TypeOK, tables, claiming, SessionInv, ClaimInv, MutationInv, FinalizeInv
<1>7. OthersUntouched(s)
  BY <1>1, Zenon DEF TypeOK, claiming, OthersUntouched
<1>8. QED
  BY <1>5, <1>6, <1>7, LocalStep, Zenon DEF Spurious

\* A mutation proceeds to its commit only with the row locked and its latest
\* version fenced at the clock reading of the statement's start.
LEMMA ExecuteMutationStep ==
  ASSUME IInv, NEW s \in Sessions, ExecuteMutation(s)
  PROVE  IInv' /\ UNCHANGED Fencing!vars
<1> DEFINE r == call[s].row
           t == opTime[s]
<1>1. TypeOK /\ SessionInv(s) /\ pc[s] = "execute" /\ UNCHANGED tables
  BY ZenonT(30), Zenon DEF IInv, SessionInv, MutationInv, ExecuteMutation
<1>2. /\ CanLock(s, r) /\ lock' = [lock EXCEPT ![r] = s]
      /\ opTime' = [opTime EXCEPT ![s] = t]
      /\ pc' = [pc EXCEPT ![s] = IF Matches(s, t) THEN "commit" ELSE "classify"]
      /\ reply' = "none"
      /\ UNCHANGED <<elock, call, view, due, after, cand, batch>>
  BY <1>1, Zenon DEF ExecuteMutation, StatementStart, claiming
<1>3. r \in Rows /\ opTime' = opTime /\ lock[r] \in {Free, s}
  BY <1>1, <1>2, Zenon DEF SessionInv, MutationInv, TypeOK, CanLock
<1> HIDE DEF r, t
<1>4. TypeOK'
  BY <1>1, <1>2, <1>3, Zenon DEF TypeOK, tables, Steps, Replies
<1>5. SessionInv(s)'
  <2>1. /\ pc'[s] = (IF Matches(s, t) THEN "commit" ELSE "classify")
        /\ lock'[r] = s /\ opTime'[s] = t
    BY <1>1, <1>2, <1>3 DEF TypeOK
  <2>2. Matches(s, opTime[s])' <=> Matches(s, t)
    BY <1>1, <1>2, <2>1, ZenonT(30) DEF Matches, tables
  <2>3. /\ call'[s] = call[s] /\ cand'[s] = cand[s] /\ batch'[s] = batch[s]
        /\ issued' = issued /\ now' = now
    BY <1>1, <1>2, Zenon DEF tables
  <2>4. /\ call[s].op \in Kinds /\ call[s].scope \in Scopes
        /\ call[s].token \in issued[r] /\ call[s].arg \in MutationArgs(call[s].op)
        /\ cand[s] = {} /\ batch[s] = {} /\ t <= now
    BY <1>1, ZenonT(30), Zenon DEF SessionInv, ClaimInv, MutationInv, r, t
  <2>5. CASE Matches(s, t)
    BY <1>3, <2>1, <2>2, <2>3, <2>4, <2>5, ZenonT(30)
       DEF SessionInv, ClaimInv, MutationInv, FinalizeInv, r
  <2>6. CASE ~Matches(s, t)
    BY <1>3, <2>1, <2>2, <2>3, <2>4, <2>6
       DEF SessionInv, ClaimInv, MutationInv, FinalizeInv, r
  <2>7. QED
    BY <2>5, <2>6, Zenon
<1>6. OthersUntouched(s)
  BY <1>1, <1>2, <1>3, MysqlAssumption DEF TypeOK, OthersUntouched
<1>7. QED
  BY <1>1, <1>2, <1>4, <1>5, <1>6, LocalStep, Zenon DEF Spurious

\* A row that was not fenced at the statement's start is not fenced later while
\* its lock is held, so the classification always ends the call.
LEMMA ClassifyMutationStep ==
  ASSUME IInv, NEW s \in Sessions, ClassifyMutation(s)
  PROVE  IInv' /\ UNCHANGED Fencing!vars
<1> DEFINE r == call[s].row
<1>1. TypeOK /\ SessionInv(s) /\ pc[s] = "classify" /\ UNCHANGED tables
  BY Zenon DEF IInv, ClassifyMutation
<1>2. /\ r \in Rows /\ ~Matches(s, opTime[s])
      /\ now \in Nat /\ opTime[s] \in Nat /\ opTime[s] <= now
  BY <1>1, DeliveryAssumption DEF SessionInv, MutationInv, TypeOK
<1>3. delivery[r].claim_expires_at \in Int
  BY <1>1, <1>2 DEF TypeOK, DeliveryRow, NullTime
<1>4. Verdict(s) # "Ok"
  BY <1>2, <1>3 DEF Verdict, Matches, Fenced
<1>5. End(s, Verdict(s)) /\ Verdict(s) \in Replies \ Spurious
  BY <1>4, Zenon DEF ClassifyMutation, Verdict, Replies, Spurious
<1>6. QED
  BY <1>1, <1>5, EndUnchanged, Zenon

\* Committing a mutation is one mutation of DeliveryFencing at the operation
\* time of its statement.
LEMMA CommitMutationStep ==
  ASSUME IInv, NEW s \in Sessions, CommitMutation(s)
  PROVE  IInv' /\ Fencing!Next
<1> DEFINE r == call[s].row
           t == opTime[s]
           c == call[s]
           row == MutatedRow(c.op, delivery[r], t, c.arg)
<1>1. /\ TypeOK /\ SessionInv(s) /\ pc[s] = "commit" /\ End(s, "Mutated")
      /\ now' = now /\ issued' = issued
  BY Zenon DEF IInv, CommitMutation
<1>2. delivery' = [delivery EXCEPT ![r] = row]
  BY <1>1, Zenon DEF CommitMutation, TypeOK
<1>3. /\ r \in Rows /\ t \in 0..now /\ t \in Nat /\ now \in Nat
      /\ c.op \in Kinds /\ c.scope \in Scopes /\ c.arg \in MutationArgs(c.op)
      /\ c.token \in issued[r] /\ Fenced(delivery[r], c.token, t)
      /\ lock[r] = s /\ InScope(c.scope, r)
  BY <1>1, DeliveryAssumption DEF SessionInv, MutationInv, TypeOK, Matches
<1> HIDE DEF r, t, c
<1>4. RowInv(delivery[r], issued[r], 0, now)
  BY <1>3, ZenonT(30), Zenon DEF IInv
<1>5. RowInv(row, issued[r], 0, now)
  <2>1. RowInv(row, issued[r], t, now)
    BY <1>3, <1>4, DeliveryAssumption, MutatedRowInv
  <2>2. QED
    BY <1>3, <2>1, RowInvForget, Zenon
<1>6. Fencing!Mutate(c.scope, c.op, r, c.token, t, c.arg)
  BY <1>1, <1>2, <1>3, Zenon
     DEF Fencing!Mutate, Fencing!InScope, InScope, Fencing!Fenced, Fenced,
         Fencing!MutatedRow, MutatedRow, Fencing!Unclaimed, Unclaimed,
         Fencing!NullTime, NullTime
<1>7. Fencing!Next
  <2>1. c.arg \in Fencing!MutationArgs(c.op)
    BY <1>3, Zenon DEF Fencing!MutationArgs, MutationArgs
  <2>2. Fencing!MutateSome
    BY <1>3, <1>6, <2>1, Zenon DEF Fencing!MutateSome
  <2>3. QED
    BY <2>2, Zenon DEF Fencing!Next
<1> HIDE DEF row
<1>8. \A q \in Rows : RowInv(delivery'[q], issued'[q], 0, now')
  BY <1>1, <1>2, <1>3, <1>5 DEF IInv, TypeOK
<1>9. delivery' \in [Rows -> DeliveryRow] /\ issued' \in [Rows -> SUBSET Tokens]
  BY <1>1, <1>2, <1>3, <1>5, ZenonT(30) DEF RowInv, TypeOK
<1>10. TypeOK' /\ SessionInv(s)' /\ OthersUntouched(s) /\ reply' = "Mutated"
  BY <1>1, <1>9, EndOfTransaction DEF Replies
<1>11. \A q \in Rows : lock[q] # s => delivery'[q] = delivery[q]
  BY <1>1, <1>2, <1>3, Zenon DEF TypeOK
<1>12. QED
  BY <1>1, <1>7, <1>8, <1>10, <1>11, StepInv DEF Spurious

\* Starting a finalisation: nothing is locked yet.
LEMMA BeginFinalizeStep ==
  ASSUME IInv, NEW s \in Sessions, NEW r \in Rows, BeginFinalize(s, r)
  PROVE  IInv' /\ UNCHANGED Fencing!vars
<1> USE DEF BeginFinalize
<1>1. TypeOK /\ SessionInv(s) /\ pc[s] = "idle"
  BY Zenon DEF IInv
<1> DEFINE c == [NoCall EXCEPT !.op = "finalize", !.row = r, !.scope = TenantOf[r]]
<1>2. c \in Call /\ c.scope = TenantOf[r] /\ c.row = r
  BY DeliveryAssumption, Zenon DEF Call, NoCall
<1> HIDE DEF c
<1>3. call'[s] = c
  BY <1>1, Zenon DEF TypeOK, c
<1>4. TypeOK'
  BY <1>1, <1>2, Zenon DEF TypeOK, tables, claiming, Steps, Replies, c
<1>5. SessionInv(s)'
  BY <1>1, <1>2, <1>3
     DEF TypeOK, tables, claiming, SessionInv, ClaimInv, MutationInv, FinalizeInv, InScope
<1>6. OthersUntouched(s)
  BY <1>1, Zenon DEF TypeOK, claiming, OthersUntouched
<1>7. QED
  BY <1>4, <1>5, <1>6, LocalStep, Zenon DEF Spurious

\* Locking the event row disturbs no delivery lock.
LEMMA LockEventStep ==
  ASSUME IInv, NEW s \in Sessions, LockEvent(s)
  PROVE  IInv' /\ UNCHANGED Fencing!vars
<1> DEFINE r == call[s].row
<1>1. TypeOK /\ SessionInv(s) /\ pc[s] = "event" /\ UNCHANGED tables
  BY Zenon DEF IInv, LockEvent
<1>2. CASE delivery[r].state = "absent"
  BY <1>1, <1>2, EndUnchanged, Zenon DEF LockEvent, Replies, Spurious
<1>3. CASE delivery[r].state # "absent"
  <2>1. /\ elock' = [elock EXCEPT ![r] = s] /\ pc' = [pc EXCEPT ![s] = "delivery"]
        /\ reply' = "none"
        /\ UNCHANGED <<lock, call, opTime, view, due, after, cand, batch>>
    BY <1>3, ZenonT(30), Zenon DEF LockEvent, claiming
  <2> HIDE DEF r
  <2>2. TypeOK'
    BY <1>1, <2>1, ZenonT(30) DEF TypeOK, tables, Steps, Replies
  <2>3. SessionInv(s)'
    BY <1>1, <2>1, Zenon DEF TypeOK, tables, SessionInv, ClaimInv, MutationInv, FinalizeInv
  <2>4. OthersUntouched(s)
    BY <1>1, <2>1, Zenon DEF TypeOK, OthersUntouched
  <2>5. QED
    BY <1>1, <2>1, <2>2, <2>3, <2>4, LocalStep DEF Spurious
<1>4. QED
  BY <1>2, <1>3, Zenon

\* The delivery row is inspected under its lock.
LEMMA LockDeliveryStep ==
  ASSUME IInv, NEW s \in Sessions, LockDelivery(s)
  PROVE  IInv' /\ UNCHANGED Fencing!vars
<1> DEFINE r == call[s].row
           C == CanonicalPending(delivery[r])
<1>1. /\ TypeOK /\ SessionInv(s) /\ pc[s] = "delivery" /\ reply' = "none"
      /\ lock' = [lock EXCEPT ![r] = s] /\ lock[r] \in {Free, s}
      /\ pc' = [pc EXCEPT ![s] = IF C THEN "finalize" ELSE "refused"]
      /\ UNCHANGED <<tables, elock, call, opTime, view, due, after, cand, batch>>
  BY ZenonT(30), Zenon DEF IInv, LockDelivery, CanLock, claiming
<1>2. r \in Rows /\ cand[s] = {} /\ batch[s] = {}
  BY <1>1, ZenonT(30), Zenon DEF SessionInv, ClaimInv, FinalizeInv
<1> HIDE DEF r, C
<1>3. TypeOK'
  BY <1>1, <1>2, Zenon DEF TypeOK, tables, Steps, Replies
<1>4. SessionInv(s)'
  <2>1. pc'[s] = (IF C THEN "finalize" ELSE "refused") /\ lock'[r] = s
    BY <1>1, <1>2, Zenon DEF TypeOK
  <2>2. /\ call'[s] = call[s] /\ cand'[s] = cand[s] /\ batch'[s] = batch[s]
        /\ opTime'[s] = opTime[s] /\ now' = now /\ delivery' = delivery
    BY <1>1, ZenonT(30), Zenon DEF tables
  <2>3. InScope(call[s].scope, r) /\ opTime[s] <= now
    BY <1>1, ZenonT(30), Zenon DEF SessionInv, FinalizeInv, r
  <2>4. CASE C
    BY <1>2, <2>1, <2>2, <2>3, <2>4, ZenonT(30)
       DEF SessionInv, ClaimInv, MutationInv, FinalizeInv, r, C
  <2>5. CASE ~C
    BY <1>2, <2>1, <2>2, <2>3, <2>5, ZenonT(30)
       DEF SessionInv, ClaimInv, MutationInv, FinalizeInv, r
  <2>6. QED
    BY <2>4, <2>5, Zenon
<1>5. OthersUntouched(s)
  BY <1>1, <1>2, MysqlAssumption, Zenon DEF TypeOK, OthersUntouched
<1>6. QED
  BY <1>1, <1>3, <1>4, <1>5, LocalStep DEF Spurious

\* Committing a finalisation is one finalisation of DeliveryFencing.
LEMMA CommitFinalizeStep ==
  ASSUME IInv, NEW s \in Sessions, CommitFinalize(s)
  PROVE  IInv' /\ Fencing!Next
<1> DEFINE r == call[s].row
           row == FinalizedRow(delivery[r])
<1>1. /\ TypeOK /\ SessionInv(s) /\ pc[s] = "finalize" /\ End(s, "Finalized")
      /\ now' = now /\ issued' = issued
  BY Zenon DEF IInv, CommitFinalize
<1>2. delivery' = [delivery EXCEPT ![r] = row]
  BY Zenon DEF CommitFinalize
<1>3. r \in Rows /\ now \in Nat /\ CanonicalPending(delivery[r]) /\ lock[r] = s
  BY <1>1, DeliveryAssumption DEF SessionInv, FinalizeInv, TypeOK
<1> HIDE DEF r
<1>4. RowInv(row, issued[r], 0, now)
  BY <1>3, FinalizedRowInv, Zenon DEF IInv
<1>5. Fencing!Finalize(r)
  BY <1>1, <1>2, <1>3, Zenon
     DEF Fencing!Finalize, Fencing!CanonicalPending, CanonicalPending,
         Fencing!Canonical, Canonical, Fencing!NullTime, NullTime,
         Fencing!FinalizedRow, FinalizedRow
<1>6. Fencing!Next
  BY <1>3, <1>5, Zenon DEF Fencing!Next
<1> HIDE DEF row
<1>7. \A q \in Rows : RowInv(delivery'[q], issued'[q], 0, now')
  BY <1>1, <1>2, <1>3, <1>4, Zenon DEF IInv, TypeOK
<1>8. delivery' \in [Rows -> DeliveryRow] /\ issued' \in [Rows -> SUBSET Tokens]
  BY <1>1, <1>2, <1>3, <1>4, Zenon DEF RowInv, TypeOK
<1>9. TypeOK' /\ SessionInv(s)' /\ OthersUntouched(s) /\ reply' = "Finalized"
  BY <1>1, <1>8, EndOfTransaction, Zenon DEF Replies
<1>10. \A q \in Rows : lock[q] # s => delivery'[q] = delivery[q]
  BY <1>1, <1>2, <1>3, Zenon DEF TypeOK
<1>11. QED
  BY <1>1, <1>6, <1>7, <1>9, <1>10, StepInv, ZenonT(30) DEF Spurious

\* The clock ticks under running calls: a locked candidate stays eligible.
LEMMA TickStep ==
  ASSUME IInv, Tick
  PROVE  IInv' /\ Fencing!Next
<1>1. TypeOK /\ now \in Nat /\ now' = now + 1 /\ now < MaxTime
  BY DeliveryAssumption DEF IInv, TypeOK, Tick
<1>2. Fencing!Next
  BY Zenon DEF Tick, Fencing!Tick, Fencing!Next
<1>3. TypeOK'
  BY <1>1, DeliveryAssumption DEF TypeOK, Tick, claiming, Replies
<1>4. \A r \in Rows : RowInv(delivery[r], issued[r], 0, now')
  BY <1>1, RowInvTick DEF IInv
<1>5. ASSUME NEW u \in Sessions
      PROVE  SessionInv(u)'
  <2>1. /\ pc'[u] = pc[u] /\ call'[u] = call[u] /\ opTime'[u] = opTime[u]
        /\ cand'[u] = cand[u] /\ batch'[u] = batch[u]
        /\ \A r \in Rows : lock[r] = u => lock'[r] = u /\ delivery'[r] = delivery[r]
        /\ \A r \in Rows : issued[r] \subseteq issued'[r]
    BY Zenon DEF Tick, claiming
  <2>2. SessionInv(u)
    BY Zenon DEF IInv
  <2>3. now <= now'
    BY <1>1
  <2>4. QED
    BY <1>1, <1>3, <2>1, <2>2, <2>3, Frame, ZenonT(30)
<1>6. QED
  BY <1>2, <1>3, <1>4, <1>5 DEF IInv, Tick

\* A producer's commit inserts a row no running call relies on.
LEMMA InsertStep ==
  ASSUME IInv, NEW r \in Rows, Insert(r)
  PROVE  IInv' /\ Fencing!Next
<1>1. TypeOK /\ now \in Nat /\ delivery[r].state = "absent"
  BY DeliveryAssumption DEF IInv, TypeOK, Insert
<1>0. PICK t \in 0..now : \E row \in {EnqueuedRow(t), ImportedDelivered(t)} :
        delivery' = [delivery EXCEPT ![r] = row]
  BY ZenonT(30), Zenon DEF Insert
<1>2. PICK row \in {EnqueuedRow(t), ImportedDelivered(t)} :
        delivery' = [delivery EXCEPT ![r] = row]
  BY <1>0, ZenonT(30), Zenon
<1>3. /\ reply' = "none"
      /\ UNCHANGED <<now, issued, lock, elock, pc, call, opTime, view, due, after, cand, batch>>
  BY Zenon DEF Insert, claiming
<1>4. RowInv(row, {}, 0, now) /\ row \in DeliveryRow /\ row.state # "claimed"
  <2>1. RowInv(row, {}, t, now) /\ t \in Nat
    BY <1>1, <1>2, InsertedRowInv
  <2>2. row.state # "claimed"
    BY <1>2, Zenon DEF EnqueuedRow, ImportedDelivered, AbsentRow
  <2>3. QED
    BY <1>1, <2>1, <2>2, RowInvForget, Zenon DEF RowInv
<1>5. issued[r] = {}
  BY <1>1, FS_EmptySet, Zenon DEF IInv, RowInv
<1>6. TypeOK'
  BY <1>1, <1>2, <1>3, <1>4, Zenon DEF TypeOK, Replies
<1>7. \A q \in Rows : RowInv(delivery'[q], issued'[q], 0, now')
  BY <1>1, <1>2, <1>3, <1>4, <1>5, Zenon DEF IInv, TypeOK
<1>8. ASSUME NEW u \in Sessions
      PROVE  SessionInv(u)'
  <2> DEFINE q == call[u].row
  <2>1. SessionInv(u) /\ batch[u] \in SUBSET Rows
    BY <1>1 DEF IInv, TypeOK
  <2>2. \A p \in Rows \ {r} : delivery'[p] = delivery[p]
    BY <1>1, <1>2 DEF TypeOK
  <2>3. delivery'[r] = row
    BY <1>1, <1>2, Zenon DEF TypeOK
  <2>4. r \notin batch[u]
    BY <1>1, <2>1, ZenonT(30) DEF SessionInv, ClaimInv, Eligible
  <2>5. /\ pc[u] = "commit" => q # r /\ q \in Rows /\ Matches(u, opTime[u])
        /\ pc[u] = "finalize" => q # r /\ q \in Rows
    BY <1>1, <2>1, ZenonT(30)
       DEF SessionInv, MutationInv, FinalizeInv, Matches, Fenced, CanonicalPending
  <2>6. pc[u] = "classify" => ~Matches(u, opTime[u])'
    BY <1>3, <1>4, <2>1, <2>2, <2>3, ZenonT(30) DEF SessionInv, MutationInv, Matches, Fenced
  <2>7. pc[u] = "commit" => Matches(u, opTime[u])'
    BY <1>3, <2>2, <2>5, ZenonT(30) DEF Matches
  <2>8. QED
    BY <1>3, <2>1, <2>2, <2>4, <2>5, <2>6, <2>7, ZenonT(30)
       DEF SessionInv, ClaimInv, MutationInv, FinalizeInv
<1>9. Fencing!Next
  <2>1. 0 \in 0..ImportSkew /\ t + 0 = t
    BY <1>1, DeliveryAssumption
  <2>2. Fencing!Insert(r, row)
    BY <1>1, <1>2, <1>3, Zenon DEF Fencing!Insert
  <2>3. row \in {Fencing!EnqueuedRow(t + 0), Fencing!ImportedDelivered(t + 0)}
    BY <1>2, <2>1, Zenon DEF Fencing!EnqueuedRow, EnqueuedRow, Fencing!ImportedDelivered,
       ImportedDelivered, Fencing!AbsentRow, AbsentRow, Fencing!NullTime, NullTime
  <2>4. Fencing!InsertSome
    BY <2>1, <2>2, <2>3, Zenon DEF Fencing!InsertSome
  <2>5. QED
    BY <2>4, Zenon DEF Fencing!Next
<1>10. QED
  BY <1>3, <1>6, <1>7, <1>8, <1>9, ZenonT(30) DEF IInv

-------------------------------------------------------------------------------
(* The theorems.                                                           *)

\* The empty tables and idle sessions satisfy the invariant.
LEMMA InitIInv == Init => IInv /\ Fencing!Init
<1> SUFFICES ASSUME Init PROVE IInv /\ Fencing!Init
  BY Zenon
<1>1. NoCall \in Call /\ 0 \in 0..MaxTime /\ AbsentRow \in DeliveryRow
  <2>1. AbsentRow \in DeliveryRow
    BY AbsentRowInv, Zenon DEF RowInv
  <2>2. QED
    BY <2>1, DeliveryAssumption DEF NoCall, Call
<1>2. TypeOK
  BY <1>1, Zenon DEF Init, TypeOK, NoView, Replies
<1>3. \A r \in Rows : RowInv(delivery[r], issued[r], 0, now)
  BY AbsentRowInv, Zenon DEF Init
<1>4. \A s \in Sessions : SessionInv(s)
  BY DEF Init, SessionInv, ClaimInv, MutationInv, FinalizeInv
<1>5. Fencing!Init
  BY Zenon DEF Init, Fencing!Init, Fencing!AbsentRow, AbsentRow, Fencing!NullTime, NullTime
<1>6. QED
  BY <1>2, <1>3, <1>4, <1>5, Zenon DEF IInv, Init

\* Every step preserves the invariant and maps to a step of DeliveryFencing or to
\* a stuttering step.
LEMMA NextIInv ==
  ASSUME IInv, [Next]_vars
  PROVE  IInv' /\ [Fencing!Next]_(Fencing!vars)
<1>1. ASSUME NEW s \in Sessions, Begin(s)
      PROVE  IInv' /\ UNCHANGED Fencing!vars
  BY <1>1, BeginClaimStep, BeginMutationStep, BeginFinalizeStep, Zenon DEF Begin
<1>2. ASSUME NEW s \in Sessions, Continue(s)
      PROVE  IInv' /\ [Fencing!Next]_(Fencing!vars)
  <2>1. CASE EndRefused(s)
    BY <2>1, EndUnchanged, Zenon DEF EndRefused, Replies, Spurious
  <2>2. QED
    BY <1>2, <2>1, ReadWindowStep, LockCandidateStep, PrepareClaimStep, CommitClaimStep,
       ExecuteMutationStep, ClassifyMutationStep, CommitMutationStep, LockEventStep,
       LockDeliveryStep, CommitFinalizeStep, Zenon DEF Continue
<1>3. ASSUME NEW s \in Sessions, Abort(s)
      PROVE  IInv' /\ UNCHANGED Fencing!vars
  BY <1>3, EndUnchanged, Zenon DEF Abort, Replies, Spurious
<1>4. CASE UNCHANGED vars
  <2>1. UNCHANGED Fencing!vars
    BY <1>4, Zenon DEF vars, tables, Fencing!vars
  <2>2. IInv'
    <3>1. TypeOK /\ TypeOK' /\ now \in Nat
      BY <1>4, DeliveryAssumption DEF vars, tables, claiming, IInv, TypeOK
    <3>2. ASSUME NEW u \in Sessions PROVE SessionInv(u)'
      <4>1. /\ pc'[u] = pc[u] /\ call'[u] = call[u] /\ opTime'[u] = opTime[u]
            /\ cand'[u] = cand[u] /\ batch'[u] = batch[u]
            /\ \A r \in Rows : lock[r] = u => lock'[r] = u /\ delivery'[r] = delivery[r]
            /\ \A r \in Rows : issued[r] \subseteq issued'[r]
        BY <1>4, ZenonT(30), Zenon DEF vars, tables, claiming
      <4>2. SessionInv(u)
        BY Zenon DEF IInv
      <4>3. now <= now'
        BY <1>4, <3>1 DEF vars, tables
      <4>4. QED
        BY <3>1, <4>1, <4>2, <4>3, Frame, ZenonT(30), Zenon
    <3>3. QED
      BY <1>4, <3>1, <3>2 DEF vars, tables, IInv
  <2>3. QED
    BY <2>1, <2>2, Zenon
<1>5. QED
  BY <1>1, <1>2, <1>3, <1>4, TickStep, InsertStep, Zenon DEF Next

\* IInv holds in every reachable state.
THEOREM MysqlInductive == Spec => []IInv
<1>1. Init => IInv
  BY InitIInv, Zenon
<1>2. IInv /\ [Next]_vars => IInv'
  BY NextIInv, Zenon
<1>3. QED
  BY <1>1, <1>2, PTL DEF Spec

\* The MySQL adapter implements DeliveryFencing: each committed transaction is one
\* atomic claim, mutation or finalisation, judged at the instant its statement
\* (or, for a claim, its clock read) saw, and nothing else is visible.
THEOREM MysqlImplementsFencing == Spec => FencingRefined
<1>1. Init => Fencing!Init
  BY InitIInv, Zenon
<1>2. IInv /\ [Next]_vars => [Fencing!Next]_(Fencing!vars)
  BY NextIInv, Zenon
<1>3. QED
  BY <1>1, <1>2, MysqlInductive, PTL DEF Spec, FencingRefined, Fencing!Spec

\* prepare_batch never refuses a locked candidate, and the repeated UPDATE of
\* mutate, with its protocol error, is never reached.
THEOREM MysqlNoSpuriousError == Spec => []NoSpuriousError
<1>1. IInv => NoSpuriousError
  BY ZenonT(30), Zenon DEF IInv, SessionInv, MutationInv, NoSpuriousError
<1>2. QED
  BY <1>1, MysqlInductive, PTL

\* Only three steps change an existing row, each of them the commit of the
\* session that holds the lock of every row it changes.
LEMMA StepScoped ==
  ASSUME IInv, [Next]_vars
  PROVE  ScopedWritesStep
<1> SUFFICES ASSUME NEW r \in Rows, delivery[r].state # "absent",
                    delivery'[r] # delivery[r]
             PROVE  /\ lock[r] \in Sessions
                    /\ InScope(call[lock[r]].scope, r)
                    /\ pc[lock[r]] \in {"persist", "commit", "finalize"}
                    /\ pc'[lock[r]] = "idle"
                    /\ reply' \in {"Claimed", "Mutated", "Finalized"}
  BY ZenonT(30), Zenon DEF ScopedWritesStep
<1>1. TypeOK /\ \A s \in Sessions : SessionInv(s)
  BY Zenon DEF IInv
<1>2. \E s \in Sessions : CommitClaim(s) \/ CommitMutation(s) \/ CommitFinalize(s)
  <2>1. ASSUME NEW q \in Rows
        PROVE  ~Insert(q)
    BY <1>1, Zenon DEF Insert, TypeOK
  <2>2. ASSUME NEW s \in Sessions, Begin(s)
        PROVE  FALSE
    BY <2>2, Zenon DEF Begin, BeginClaim, BeginMutation, BeginFinalize, tables
  <2>3. ASSUME NEW s \in Sessions, Continue(s)
        PROVE  CommitClaim(s) \/ CommitMutation(s) \/ CommitFinalize(s)
    BY <2>3, Zenon DEF Continue, ReadWindow, LockCandidate, PrepareClaim, ExecuteMutation,
                ClassifyMutation, LockEvent, LockDelivery, EndRefused, tables
  <2>4. QED
    BY <2>1, <2>2, <2>3 DEF Next, Tick, Abort, vars, tables
<1>3. PICK s \in Sessions : CommitClaim(s) \/ CommitMutation(s) \/ CommitFinalize(s)
  BY <1>2, Zenon
<1>x. SessionInv(s)
  BY <1>1, Zenon
<1>4. pc'[s] = "idle"
  BY <1>1, <1>3, ZenonT(30) DEF CommitClaim, CommitMutation, CommitFinalize, End, TypeOK
<1>5. CASE CommitClaim(s)
  <2>1. r \in batch[s] /\ pc[s] = "persist" /\ reply' = "Claimed"
    BY <1>5, ZenonT(30), Zenon DEF CommitClaim, End
  <2>2. lock[r] = s /\ InScope(call[s].scope, r)
    BY <1>x, <2>1, Zenon DEF SessionInv, ClaimInv
  <2>3. QED
    BY <1>4, <2>1, <2>2
<1>6. CASE CommitMutation(s)
  <2>1. r = call[s].row /\ pc[s] = "commit" /\ reply' = "Mutated"
    BY <1>1, <1>6, Zenon DEF CommitMutation, End, TypeOK
  <2>2. QED
    BY <1>x, <1>4, <2>1, ZenonT(30), Zenon DEF SessionInv, MutationInv, Matches
<1>7. CASE CommitFinalize(s)
  <2>1. r = call[s].row /\ pc[s] = "finalize" /\ reply' = "Finalized"
    BY <1>1, <1>7, ZenonT(30) DEF CommitFinalize, End, TypeOK
  <2>2. lock[call[s].row] = s /\ InScope(call[s].scope, call[s].row)
    BY <1>x, <2>1, Zenon DEF SessionInv, FinalizeInv
  <2>3. QED
    BY <1>4, <2>1, <2>2, ZenonT(30)
<1>8. QED
  BY <1>3, <1>5, <1>6, <1>7, ZenonT(30), Zenon

\* A row changes only in the commit of the session that holds its record lock and
\* whose tenant scope covers it, in every interleaving.
THEOREM MysqlScopedWrites == Spec => ScopedWrites
<1>1. IInv /\ [Next]_vars => [ScopedWritesStep]_vars
  BY StepScoped, Zenon
<1>2. QED
  BY <1>1, MysqlInductive, PTL DEF Spec, ScopedWrites

--------------------------------------------------------------------------------
(* The search of a claim.                                                  *)

\* A non-empty set of naturals has a least element.
LEMMA LeastElement ==
  ASSUME NEW S \in SUBSET Nat, S # {}
  PROVE  \E m \in S : \A q \in S : m <= q
<1>1. PICK m \in S : \A q \in S : <<q, m>> \notin OpToRel(<, Nat)
  BY WFMin, NatLessThanWellFounded, Zenon
<1>2. \A q \in S : ~(q < m)
  BY <1>1, Zenon DEF OpToRel
<1>3. m \in Nat /\ \A q \in S : q \in Nat
  BY Zenon
<1>4. QED
  BY <1>2, <1>3

\* ORDER BY with a positive LIMIT returns nothing only of nothing.
LEMMA FirstNEmpty ==
  ASSUME NEW S \in SUBSET Nat, NEW n \in Nat \ {0}, FirstN(S, n) = {}
  PROVE  S = {}
<1> SUFFICES ASSUME S # {} PROVE FALSE
  BY Zenon
<1>1. PICK m \in S : \A q \in S : m <= q
  BY LeastElement, Zenon
<1>2. {q \in S : q < m} = {}
  <2>1. m \in Nat /\ \A q \in S : q \in Nat
    BY Zenon
  <2>2. \A q \in S : ~(q < m)
    BY <1>1, <2>1
  <2>3. QED
    BY <2>2, Zenon
<1>3. m \in FirstN(S, n)
  BY <1>2, FS_EmptySet DEF FirstN
<1>4. QED
  BY <1>3, Zenon

\* What a LIMIT leaves out comes after all it lets through.
LEMMA FirstNOrdered ==
  ASSUME NEW S \in SUBSET Nat, NEW n \in Nat,
         NEW q \in FirstN(S, n), NEW r \in S, r \notin FirstN(S, n)
  PROVE  q < r
<1> SUFFICES ASSUME r <= q PROVE FALSE
  BY DEF FirstN
<1> DEFINE Q == {p \in S : p < q}
           R == {p \in S : p < r}
<1>1. q \in Nat /\ r \in Nat
  BY Zenon DEF FirstN
<1>a. \A p \in S : p \in Nat
  BY Zenon
<1>2. R \in SUBSET Q
  <2>1. \A p \in S : p < r => p < q
    BY <1>1, <1>a
  <2>2. QED
    BY <2>1, Zenon
<1>3. Q \in SUBSET (0..q) /\ IsFiniteSet(0..q)
  <2>1. \A p \in S : p < q => p \in 0..q
    BY <1>1, <1>a
  <2>2. IsFiniteSet(0..q)
    BY <1>1, FS_Interval
  <2>3. QED
    BY <2>1, <2>2, Zenon
<1>4. IsFiniteSet(Q)
  BY <1>3, FS_Subset, Zenon
<1>5. IsFiniteSet(R) /\ Cardinality(R) <= Cardinality(Q)
  BY <1>2, <1>4, FS_Subset, Zenon
<1>6. Cardinality(R) \in Nat /\ Cardinality(Q) \in Nat
  BY <1>4, <1>5, FS_CardinalityType, Zenon
<1>7. Cardinality(Q) < n /\ ~(Cardinality(R) < n)
  BY Zenon DEF FirstN
<1>8. QED
  BY <1>5, <1>6, <1>7

\* A search others are making goes on while time passes: what was due in a read
\* view stays due.
LEMMA SearchFrame ==
  ASSUME TypeOK, TypeOK', NEW u \in Sessions, Searched(u), now <= now',
         pc'[u] = pc[u], call'[u] = call[u], view'[u] = view[u], due'[u] = due[u],
         after'[u] = after[u], cand'[u] = cand[u], batch'[u] = batch[u]
  PROVE  Searched(u)'
<1>1. /\ now \in Nat /\ now' \in Nat /\ due[u] \in SUBSET Rows
      /\ view[u] \in [Rows -> DeliveryRow]
  BY DeliveryAssumption DEF TypeOK
<1>2. ASSUME NEW r \in due[u], Eligible(view[u][r], now)
      PROVE  Eligible(view[u][r], now')
  <2>1. view[u][r].available_at \in Int /\ view[u][r].claim_expires_at \in Int
    BY <1>1 DEF DeliveryRow, NullTime
  <2>2. QED
    BY <1>1, <1>2, <2>1 DEF Eligible
<1>3. pc'[u] \in {"window", "lock"} =>
        \A r \in due'[u] : InScope(call'[u].scope, r) /\ Eligible(view'[u][r], now')
  BY <1>2, Zenon DEF Searched
<1>4. QED
  BY <1>3, Zenon DEF Searched

\* The search variables of the other sessions are untouched.
OthersSearch(s) ==
  \A u \in Sessions \ {s} : /\ pc'[u] = pc[u] /\ call'[u] = call[u] /\ view'[u] = view[u]
                            /\ due'[u] = due[u] /\ after'[u] = after[u]
                            /\ cand'[u] = cand[u] /\ batch'[u] = batch[u]

\* A step of one session at one instant, given what it does to its own search.
LEMMA SearchStepOf ==
  ASSUME TypeOK, TypeOK', SearchInv, NEW s \in Sessions, OthersSearch(s), now' = now,
         Searched(s)',
         /\ pc[s] \in {"window", "persist"} /\ pc'[s] = "idle" /\ reply' = "Claimed"
         /\ Cardinality(batch[s]) < call[s].limit
         => \A r \in due[s] : r <= after[s]
  PROVE  SearchInv' /\ WholeSearchStep
<1>1. now <= now'
  BY DeliveryAssumption DEF TypeOK
<1>2. \A u \in Sessions \ {s} : Searched(u)'
  BY <1>1, SearchFrame, Zenon DEF SearchInv, OthersSearch
<1>3. SearchInv'
  BY <1>2, Zenon DEF SearchInv
<1>4. WholeSearchStep
  BY Zenon DEF WholeSearchStep, OthersSearch
<1>5. QED
  BY <1>3, <1>4, Zenon

\* A transaction that ends drops its search.
LEMMA SearchEnds ==
  ASSUME TypeOK, NEW s \in Sessions, NEW outcome, End(s, outcome)
  PROVE  OthersSearch(s) /\ Searched(s)' /\ pc'[s] = "idle" /\ reply' = outcome
<1>1. OthersSearch(s)
  BY Zenon DEF TypeOK, End, OthersSearch
<1>2. pc'[s] = "idle" /\ reply' = outcome
  BY Zenon DEF TypeOK, End
<1>3. QED
  BY <1>1, <1>2, Zenon DEF Searched

\* The first window fixes what is due, and every later one starts behind the rows
\* visited: only an empty window of an unfinished search says that nothing is left.
LEMMA SearchReadWindow ==
  ASSUME TypeOK, TypeOK', SearchInv, NEW s \in Sessions, SessionInv(s), ReadWindow(s)
  PROVE  SearchInv' /\ WholeSearchStep
<1> DEFINE W == NextWindow(s)
           C == CandidateIds(s)
           n == call[s].limit
<1>1. /\ pc[s] \in {"first", "window"} /\ UNCHANGED tables /\ now' = now
      /\ Searched(s)
  BY Zenon DEF ReadWindow, SearchInv, tables
<1>2. n \in Nat \ {0}
  BY <1>1, MysqlAssumption, Zenon DEF SessionInv, ClaimInv
<1>3. C \in SUBSET Nat /\ C \in SUBSET Rows /\ W = FirstN(C, n)
  BY DeliveryAssumption, Zenon DEF NextWindow, CandidateIds
<1>4. after[s] \in Nat /\ due[s] \in SUBSET Nat /\ due[s] \in SUBSET Rows
  <2>1. after[s] \in Rows \union {0} /\ due[s] \in SUBSET Rows
    BY Zenon DEF TypeOK
  <2>2. \A r \in Rows : r \in Nat
    BY DeliveryAssumption, Zenon
  <2>3. QED
    BY <2>1, <2>2
<1>5. pc[s] = "window" => \A r \in due[s] : r > after[s] => r \in C
  BY <1>1, <1>4, Zenon DEF Searched, CandidateIds, Seen
<1>6. pc[s] = "window" /\ W = {} => \A r \in due[s] : r <= after[s]
  <2>1. W = {} => C = {}
    BY <1>2, <1>3, FirstNEmpty, Zenon
  <2>2. \A r \in due[s] : r \in Nat
    BY <1>4, Zenon
  <2>3. QED
    BY <1>4, <1>5, <2>1, <2>2
<1>7. CASE W = {} /\ batch[s] = {}
  <2>1. End(s, "Claimed")
    BY <1>7, Zenon DEF ReadWindow
  <2>2. QED
    BY <1>1, <1>6, <1>7, <2>1, SearchEnds, SearchStepOf
<1>8. CASE ~(W = {} /\ batch[s] = {})
  <2>1. /\ pc' = [pc EXCEPT ![s] = IF W = {} THEN "clock" ELSE "lock"]
        /\ cand' = [cand EXCEPT ![s] = W]
        /\ view' = [view EXCEPT ![s] = Seen(s)]
        /\ due' = [due EXCEPT ![s] = IF pc[s] = "first" THEN C ELSE @]
        /\ reply' = "none"
        /\ UNCHANGED <<call, after, batch>>
    BY <1>8, Zenon DEF ReadWindow
  <2> HIDE DEF W, C
  <2>2. OthersSearch(s)
    BY <2>1 DEF TypeOK, OthersSearch
  <2>3. /\ pc'[s] = IF W = {} THEN "clock" ELSE "lock"
        /\ cand'[s] = W /\ view'[s] = Seen(s)
        /\ due'[s] = IF pc[s] = "first" THEN C ELSE due[s]
        /\ call'[s] = call[s] /\ after'[s] = after[s] /\ batch'[s] = batch[s]
    BY <2>1 DEF TypeOK
  <2>4. pc[s] = "first" => W # {}
    BY <1>1, <1>8, Zenon DEF SessionInv, ClaimInv
  <2>5. \A r \in due'[s] : InScope(call'[s].scope, r) /\ Eligible(view'[s][r], now')
    <3>1. CASE pc[s] = "first"
      BY <1>1, <2>3, <3>1, Zenon DEF C, CandidateIds
    <3>2. CASE pc[s] = "window"
      BY <1>1, <2>3, <3>2, Zenon DEF Searched, Seen
    <3>3. QED
      BY <1>1, <3>1, <3>2, Zenon
  <2>6. ASSUME NEW r \in due'[s], r > after[s]
        PROVE  r \in W \/ \A q \in W : q < r
    <3>1. r \in C
      BY <1>1, <1>5, <2>3, <2>6, Zenon
    <3>2. QED
      BY <1>2, <1>3, <3>1, FirstNOrdered, Zenon
  <2>7. W = {} => \A r \in due'[s] : r <= after'[s]
    BY <1>1, <1>6, <2>3, <2>4, Zenon
  <2>8. \A q \in W : q > after[s]
    BY <1>3, Zenon DEF C, FirstN, CandidateIds
  <2>9. Searched(s)'
    BY <2>3, <2>5, <2>6, <2>7, <2>8, Zenon DEF Searched
  <2>10. QED
    BY <1>1, <2>2, <2>3, <2>9, SearchStepOf
<1>9. QED
  BY <1>7, <1>8, Zenon

\* A visited candidate is the least of its window; a search stops in the middle of
\* a window only with a full batch.
LEMMA SearchLockCandidate ==
  ASSUME TypeOK, TypeOK', SearchInv, NEW s \in Sessions, SessionInv(s), LockCandidate(s)
  PROVE  SearchInv' /\ WholeSearchStep
<1>1. /\ pc[s] = "lock" /\ reply' = "none" /\ now' = now /\ Searched(s)
      /\ UNCHANGED <<call, view, due>>
  BY Zenon DEF LockCandidate, SearchInv, tables
<1> DEFINE took(r) == IF Lockable(s, r) THEN batch[s] \union {r} ELSE batch[s]
           full(r) == Cardinality(took(r)) = call[s].limit
           rest(r) == IF full(r) THEN {} ELSE cand[s] \ {r}
<1>2. PICK r \in cand[s] :
        /\ \A q \in cand[s] : r <= q
        /\ after' = [after EXCEPT ![s] = r]
        /\ batch' = [batch EXCEPT ![s] = took(r)]
        /\ cand' = [cand EXCEPT ![s] = rest(r)]
        /\ pc' = [pc EXCEPT ![s] = IF full(r) THEN "clock"
                                   ELSE IF rest(r) = {} THEN "window" ELSE "lock"]
  BY Zenon DEF LockCandidate
<1> DEFINE T == took(r)
           F == full(r)
           R == rest(r)
<1>3. /\ after'[s] = r /\ batch'[s] = T /\ cand'[s] = R
      /\ pc'[s] = IF F THEN "clock" ELSE IF R = {} THEN "window" ELSE "lock"
      /\ call'[s] = call[s] /\ view'[s] = view[s] /\ due'[s] = due[s]
  BY <1>1, <1>2 DEF TypeOK
<1>4. /\ F => Cardinality(T) = call[s].limit
      /\ ~F => R = cand[s] \ {r}
  BY Zenon
<1> HIDE DEF T, F, R, took, full, rest
<1>5. OthersSearch(s)
  BY <1>1, <1>2 DEF TypeOK, OthersSearch
<1>6. /\ r \in Nat /\ after[s] \in Nat
      /\ \A q \in due[s] : q \in Nat
      /\ \A q \in cand[s] : q \in Nat
  <2>1. /\ after[s] \in Rows \union {0} /\ due[s] \in SUBSET Rows /\ cand[s] \in SUBSET Rows
    BY Zenon DEF TypeOK
  <2>2. \A q \in Rows : q \in Nat
    BY DeliveryAssumption, Zenon
  <2>3. QED
    BY <2>1, <2>2
<1>7. ASSUME ~F, NEW d \in due[s], d > r
      PROVE  d \in R \/ \A q \in R : q < d
  <2>1. CASE d > after[s]
    <3>1. d \in cand[s] \/ \A q \in cand[s] : q < d
      BY <1>1, <2>1, Zenon DEF Searched
    <3>2. QED
      BY <1>4, <1>6, <1>7, <3>1
  <2>2. CASE ~(d > after[s])
    <3>1. r > after[s]
      BY <1>1, Zenon DEF Searched
    <3>2. QED
      BY <1>6, <1>7, <2>2, <3>1
  <2>3. QED
    BY <2>1, <2>2, Zenon
<1>8. ~F => \A q \in R : q > r
  BY <1>2, <1>4, <1>6
<1>9. Searched(s)'
  BY <1>1, <1>3, <1>4, <1>7, <1>8, Zenon DEF Searched
<1>10. QED
  BY <1>1, <1>3, <1>5, <1>9, SearchStepOf, Zenon

\* Validation keeps the batch and the search as they are.
LEMMA SearchPrepareClaim ==
  ASSUME TypeOK, TypeOK', SearchInv, NEW s \in Sessions, PrepareClaim(s)
  PROVE  SearchInv' /\ WholeSearchStep
<1>1. pc[s] = "clock" /\ now' = now /\ Searched(s)
  BY Zenon DEF PrepareClaim, SearchInv, tables
<1>2. ASSUME NEW outcome, End(s, outcome)
      PROVE  SearchInv' /\ WholeSearchStep
  BY <1>1, <1>2, SearchEnds, SearchStepOf, Zenon
<1>3. CASE /\ pc' = [pc EXCEPT ![s] = "persist"]
           /\ UNCHANGED <<call, claiming>>
  <2>1. OthersSearch(s)
    BY <1>3, Zenon DEF TypeOK, OthersSearch, claiming
  <2>2. /\ pc'[s] = "persist" /\ call'[s] = call[s] /\ batch'[s] = batch[s]
        /\ due'[s] = due[s] /\ after'[s] = after[s]
    BY <1>3, Zenon DEF TypeOK, claiming
  <2>3. Searched(s)'
    BY <1>1, <2>2, Zenon DEF Searched
  <2>4. QED
    BY <1>1, <2>1, <2>3, SearchStepOf
<1>4. QED
  BY <1>2, <1>3, Zenon DEF PrepareClaim

\* Every step keeps every search in order, and a claim that returns a short batch
\* has visited all that was due.
LEMMA SearchStep == IInv /\ IInv' /\ SearchInv /\ [Next]_vars => SearchInv' /\ WholeSearchStep
<1> SUFFICES ASSUME IInv, IInv', SearchInv, [Next]_vars PROVE SearchInv' /\ WholeSearchStep
  BY Zenon
<1>1. TypeOK /\ TypeOK' /\ \A s \in Sessions : SessionInv(s) /\ Searched(s)
  BY Zenon DEF IInv, SearchInv
<1>2. CASE Tick \/ (\E r \in Rows : Insert(r)) \/ UNCHANGED vars
  <2>1. UNCHANGED <<pc, call, claiming>> /\ now <= now'
    BY <1>1, <1>2, DeliveryAssumption DEF Tick, Insert, vars, tables, TypeOK
  <2>2. SearchInv'
    BY <1>1, <2>1, SearchFrame, Zenon DEF claiming, SearchInv
  <2>3. WholeSearchStep
    BY <2>1, Zenon DEF WholeSearchStep
  <2>4. QED
    BY <2>2, <2>3, Zenon
<1>3. ASSUME NEW s \in Sessions, pc[s] \notin {"window", "persist"}, now' = now,
             NEW step \in {"first", "execute", "reexecute", "classify", "commit", "event",
                           "delivery", "finalize", "refused"},
             pc' = [pc EXCEPT ![s] = step], UNCHANGED claiming,
             \A u \in Sessions \ {s} : call'[u] = call[u]
      PROVE  SearchInv' /\ WholeSearchStep
  <2>1. OthersSearch(s) /\ pc'[s] = step
    BY <1>1, <1>3, Zenon DEF TypeOK, OthersSearch, claiming
  <2>2. Searched(s)'
    BY <1>3, <2>1, Zenon DEF Searched
  <2>3. QED
    BY <1>1, <1>3, <2>1, <2>2, SearchStepOf, Zenon
<1>4. ASSUME NEW s \in Sessions, NEW outcome, End(s, outcome), now' = now,
             pc[s] # "window" \/ outcome # "Claimed"
      PROVE  SearchInv' /\ WholeSearchStep
  <2>1. OthersSearch(s) /\ Searched(s)' /\ pc'[s] = "idle" /\ reply' = outcome
    BY <1>1, <1>4, SearchEnds, Zenon
  <2>2. ASSUME pc[s] = "persist", Cardinality(batch[s]) < call[s].limit
        PROVE  \A r \in due[s] : r <= after[s]
    <3>1. call[s].limit \in Nat
      BY <1>1, Zenon DEF TypeOK, Call
    <3>2. QED
      BY <1>1, <2>2, <3>1 DEF Searched
  <2>3. QED
    BY <1>1, <1>4, <2>1, <2>2, SearchStepOf, Zenon
<1>5. ASSUME NEW s \in Sessions, Begin(s)
      PROVE  SearchInv' /\ WholeSearchStep
  <2>1. /\ pc[s] = "idle" /\ now' = now /\ UNCHANGED claiming
        /\ \E step \in {"first", "execute", "event"} : pc' = [pc EXCEPT ![s] = step]
        /\ \A u \in Sessions \ {s} : call'[u] = call[u]
    BY <1>1, <1>5, Zenon DEF Begin, BeginClaim, BeginMutation, BeginFinalize, tables, TypeOK
  <2>2. QED
    BY <1>3, <2>1, Zenon
<1>6. ASSUME NEW s \in Sessions, Abort(s)
      PROVE  SearchInv' /\ WholeSearchStep
  BY <1>4, <1>6, Zenon DEF Abort, tables
<1>7. ASSUME NEW s \in Sessions, CommitClaim(s) \/ CommitMutation(s) \/ CommitFinalize(s)
      PROVE  SearchInv' /\ WholeSearchStep
  <2>1. /\ pc[s] # "window" /\ now' = now
        /\ \E outcome \in {"Claimed", "Mutated", "Finalized"} : End(s, outcome)
    BY <1>7, Zenon DEF CommitClaim, CommitMutation, CommitFinalize
  <2>2. QED
    BY <1>4, <2>1, Zenon
<1>8. ASSUME NEW s \in Sessions, EndRefused(s)
      PROVE  SearchInv' /\ WholeSearchStep
  BY <1>4, <1>8, Zenon DEF EndRefused, tables
<1>9. ASSUME NEW s \in Sessions, ExecuteMutation(s)
      PROVE  SearchInv' /\ WholeSearchStep
  <2>1. pc[s] \in {"execute", "reexecute"} /\ now' = now
    BY <1>9, Zenon DEF ExecuteMutation, tables
  <2>2. CASE End(s, "MutationNoop")
    BY <1>4, <2>1, <2>2, Zenon
  <2>3. CASE /\ \E step \in {"commit", "classify"} : pc' = [pc EXCEPT ![s] = step]
             /\ UNCHANGED <<call, claiming>>
    BY <1>3, <2>1, <2>3, Zenon
  <2>4. QED
    BY <1>9, <2>2, <2>3, Zenon DEF ExecuteMutation
<1>10. ASSUME NEW s \in Sessions, ClassifyMutation(s)
       PROVE  SearchInv' /\ WholeSearchStep
  <2>1. pc[s] = "classify" /\ now' = now
    BY <1>10, Zenon DEF ClassifyMutation, tables
  <2>2. CASE End(s, Verdict(s))
    BY <1>4, <2>1, <2>2, Zenon
  <2>3. CASE pc' = [pc EXCEPT ![s] = "reexecute"] /\ UNCHANGED <<call, claiming>>
    BY <1>3, <2>1, <2>3, Zenon
  <2>4. QED
    BY <1>10, <2>2, <2>3, Zenon DEF ClassifyMutation
<1>11. ASSUME NEW s \in Sessions, LockEvent(s)
       PROVE  SearchInv' /\ WholeSearchStep
  <2>1. pc[s] = "event" /\ now' = now
    BY <1>11, Zenon DEF LockEvent, tables
  <2>2. CASE End(s, "NotFound")
    BY <1>4, <2>1, <2>2, Zenon
  <2>3. CASE pc' = [pc EXCEPT ![s] = "delivery"] /\ UNCHANGED <<call, claiming>>
    BY <1>3, <2>1, <2>3, Zenon
  <2>4. QED
    BY <1>11, <2>2, <2>3, Zenon DEF LockEvent
<1>12. ASSUME NEW s \in Sessions, LockDelivery(s)
       PROVE  SearchInv' /\ WholeSearchStep
  <2>1. /\ pc[s] = "delivery" /\ now' = now /\ UNCHANGED <<call, claiming>>
        /\ \E step \in {"finalize", "refused"} : pc' = [pc EXCEPT ![s] = step]
    BY <1>12, Zenon DEF LockDelivery, tables
  <2>2. QED
    BY <1>3, <2>1, Zenon
<1>13. QED
  BY <1>1, <1>2, <1>5, <1>6, <1>7, <1>8, <1>9, <1>10, <1>11, <1>12,
     SearchReadWindow, SearchLockCandidate, SearchPrepareClaim, Zenon DEF Next, Continue

LEMMA SearchInit == Init => SearchInv
  BY Zenon DEF Init, SearchInv, Searched

\* In every claim under way, the rows that were due when it began and are not yet
\* visited lie in its window or behind it (lock_candidates): neither the advancing
\* cursor nor the LIMIT skips one.
THEOREM MysqlSearch == Spec => []SearchInv
<1>1. IInv /\ IInv' /\ SearchInv /\ [Next]_vars => SearchInv'
  BY SearchStep, Zenon
<1>2. QED
  BY <1>1, SearchInit, MysqlInductive, PTL DEF Spec

\* A claim that returns fewer rows than its limit has visited every row that was
\* due when it began.
THEOREM MysqlWholeSearch == Spec => WholeSearch
<1>1. IInv /\ IInv' /\ SearchInv /\ [Next]_vars => [WholeSearchStep]_vars
  BY SearchStep, Zenon
<1>2. QED
  BY <1>1, MysqlSearch, MysqlInductive, PTL DEF Spec, WholeSearch

--------------------------------------------------------------------------------
(* From the contract to the adapter: the theorems of TableProofs about the   *)
(* weaker contract hold of whatever implements DeliveryFencing.  Its pagers  *)
(* play no part in them.                                                     *)

Contract == INSTANCE TableProofs
               WITH Owners <- {}, AllOwners <- 0, Readers <- {}, Limits <- {}, MaxRow <- 0,
                    BadRows <- {}, handle <- 0, rows <- 0, live <- 0, pager <- 0, adapter <- 0,
                    lastOp <- 0

\* The contract the adapter implements is the one these theorems are about.
LEMMA SameContract ==
  /\ Fencing!Init => Contract!Fencing!Init
  /\ Fencing!Next => Contract!Fencing!Next
<1>1. Fencing!Init => Contract!Fencing!Init
  BY Zenon DEF Fencing!Init, Contract!Fencing!Init, Fencing!AbsentRow,
               Contract!Fencing!AbsentRow, Fencing!NullTime, Contract!Fencing!NullTime
<1>2. Fencing!Tick => Contract!Fencing!Tick
  BY Zenon DEF Fencing!Tick, Contract!Fencing!Tick
<1>3. Fencing!InsertSome => Contract!Fencing!InsertSome
  BY Zenon DEF Fencing!InsertSome, Contract!Fencing!InsertSome, Fencing!Insert,
               Contract!Fencing!Insert, Fencing!EnqueuedRow, Contract!Fencing!EnqueuedRow,
               Fencing!AbsentRow, Contract!Fencing!AbsentRow, Fencing!NullTime,
               Contract!Fencing!NullTime, Fencing!ImportedDelivered,
               Contract!Fencing!ImportedDelivered
<1>4. Fencing!ClaimSome => Contract!Fencing!ClaimSome
  BY Zenon DEF Fencing!ClaimSome, Contract!Fencing!ClaimSome, Fencing!Claim,
               Contract!Fencing!Claim, Fencing!InScope, Contract!Fencing!InScope,
               Fencing!Eligible, Contract!Fencing!Eligible, Fencing!ClaimedRow,
               Contract!Fencing!ClaimedRow
<1>5. Fencing!MutateSome => Contract!Fencing!MutateSome
  BY Zenon DEF Fencing!MutateSome, Contract!Fencing!MutateSome, Fencing!Mutate,
               Contract!Fencing!Mutate, Fencing!InScope, Contract!Fencing!InScope,
               Fencing!Fenced, Contract!Fencing!Fenced, Fencing!MutatedRow,
               Contract!Fencing!MutatedRow, Fencing!Unclaimed, Contract!Fencing!Unclaimed,
               Fencing!NullTime, Contract!Fencing!NullTime, Fencing!MutationArgs,
               Contract!Fencing!MutationArgs
<1>6. \A r \in Rows : Fencing!Finalize(r) => Contract!Fencing!Finalize(r)
  BY Zenon DEF Fencing!Finalize, Contract!Fencing!Finalize, Fencing!CanonicalPending,
               Contract!Fencing!CanonicalPending, Fencing!Canonical,
               Contract!Fencing!Canonical, Fencing!NullTime, Contract!Fencing!NullTime,
               Fencing!FinalizedRow, Contract!Fencing!FinalizedRow
<1>7. QED
  BY <1>1, <1>2, <1>3, <1>4, <1>5, <1>6, Zenon DEF Fencing!Next, Contract!Fencing!Next

\* What a caller of the MySQL adapter gets, down to its statements and although a
\* mutation counts from a clock read before it waited: no live lease is taken over,
\* no row is claimed before its delay has passed, terminal rows are final.
THEOREM MysqlFencedChanges == Spec => FencedChanges
<1>1. Contract!Fencing!Spec => Contract!Fencing!FencedChanges
  BY Contract!FenceSuffices, DeliveryAssumption
     DEF Contract!FenceSuffices, MutationKind, Contract!MutationKind
<1>2. Fencing!vars = Contract!Fencing!vars /\ Fencing!vars' = Contract!Fencing!vars'
  BY Zenon DEF Fencing!vars, Contract!Fencing!vars
<1>3. [Fencing!Next]_(Fencing!vars) => [Contract!Fencing!Next]_(Contract!Fencing!vars)
  BY SameContract, <1>2
<1>4. Contract!Fencing!FencedChangesStep => Fencing!FencedChangesStep
  BY Zenon DEF Contract!Fencing!FencedChangesStep, Fencing!FencedChangesStep,
               Contract!Fencing!Terminal, Fencing!Terminal
<1>5. [Contract!Fencing!FencedChangesStep]_(Contract!Fencing!vars)
        => [Fencing!FencedChangesStep]_(Fencing!vars)
  BY <1>2, <1>4
<1>6. QED
  BY MysqlImplementsFencing, SameContract, <1>1, <1>3, <1>5, PTL
     DEF FencingRefined, FencedChanges, Fencing!Spec, Contract!Fencing!Spec,
         Fencing!FencedChanges, Contract!Fencing!FencedChanges
================================================================================
