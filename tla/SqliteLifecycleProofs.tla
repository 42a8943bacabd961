------------------------- MODULE SqliteLifecycleProofs -------------------------
(***************************************************************************)
(* The SQLite adapter implements DeliveryLifecycle, for any number of      *)
(* connections, rows, tenants, pagers and busy retries.  The argument is   *)
(* the reservation: one session is past BEGIN IMMEDIATE, so that what it   *)
(* has read of the tables is still so when it commits, and its time, read  *)
(* under the reservation, is no older than any committed change.           *)
(*                                                                         *)
(* Then the texts it stores for instants (SqliteTimestamp): an instant is  *)
(* a second and three digits, instants are ordered as these are from left  *)
(* to right, and so are the texts, up to the place where a shorter one has *)
(* its Z.                                                                  *)
(***************************************************************************)
EXTENDS SqliteLifecycle, DeliveryProofs, SqliteTimestamp, TLAPS

TableTypes ==
  /\ now \in 0..MaxTime
  /\ delivery \in [Rows -> DeliveryRow]
  /\ issued \in [Rows -> SUBSET Tokens]
  /\ lastOp \in [Rows -> 0..MaxTime]

Places == {"idle", "begin", "clock", "work", "caller", "written", "commit"}

SessionTypes ==
  /\ writer \in Sessions \union {Free}
  /\ reading \subseteq Readers
  /\ pc \in [Sessions -> Places]
  /\ call \in [Sessions -> Calls]
  /\ opTime \in [Sessions -> 0..MaxTime]
  /\ batch \in [Sessions -> SUBSET Rows]
  /\ tries \in [Sessions -> 0..Retries]
  /\ left \in [Sessions -> 0..Timeout]
  /\ waited \in [Sessions -> Nat]

\* The reservation is held by the session past BEGIN IMMEDIATE, and by no other.
OneWriter == \A s \in Sessions : (writer = s) <=> (pc[s] \notin {"idle", "begin"})

LEMMA TypeParts == TypeOK <=> TableTypes /\ SessionTypes /\ OneWriter
BY Zenon DEF TypeOK, TableTypes, SessionTypes, OneWriter, Places

\* What IInv says of one session.
SessionInv(s) ==
  opTime[s] <= now /\ (pc[s] # "idle" => CallInv(s) /\ WorkInv(s))

FreshTime(s) ==
  pc[s] \in {"work", "written", "commit"} => \A r \in Rows : lastOp[r] <= opTime[s]

LEMMA IInvParts ==
  IInv <=> /\ TableTypes /\ SessionTypes /\ OneWriter
           /\ \A s \in Sessions : FreshTime(s)
           /\ \A r \in Rows : RowInv(delivery[r], issued[r], lastOp[r], now)
           /\ \A s \in Sessions : SessionInv(s)
BY TypeParts, Zenon DEF IInv, OpTimeFresh, SessionInv, FreshTime

\* The same of the next state.
LEMMA IInvPartsNext ==
  ASSUME TableTypes', SessionTypes', OneWriter',
         \A s \in Sessions : FreshTime(s)' /\ SessionInv(s)',
         \A r \in Rows : RowInv(delivery[r], issued[r], lastOp[r], now)'
  PROVE  IInv'
<1>1. TypeOK'
  BY Zenon DEF TypeOK, TableTypes, SessionTypes, OneWriter, Places
<1>2. QED
  BY <1>1, Zenon DEF IInv, OpTimeFresh, SessionInv, FreshTime

-------------------------------------------------------------------------------
(* Sessions that do not move.                                              *)

OthersUntouched(s) ==
  \A u \in Sessions \ {s} :
    /\ pc'[u] = pc[u] /\ call'[u] = call[u] /\ opTime'[u] = opTime[u]
    /\ batch'[u] = batch[u] /\ tries'[u] = tries[u] /\ left'[u] = left[u]
    /\ waited'[u] = waited[u]

\* The candidates of a claim depend on its arguments, its time and the rows.
LEMMA SameCandidates ==
  ASSUME NEW u \in Sessions, delivery' = delivery, call'[u] = call[u], opTime'[u] = opTime[u]
  PROVE  Candidates(u)' = Candidates(u)
BY Zenon DEF Candidates, Eligible, InScope

\* A session whose variables and whose view of the tables are untouched goes on
\* relying on what it found.
LEMMA SessionKept ==
  ASSUME NEW u \in Sessions, SessionInv(u), now \in Nat, now' \in Nat, now <= now',
         delivery' = delivery, issued' = issued, opTime[u] \in Nat,
         pc'[u] = pc[u], call'[u] = call[u], opTime'[u] = opTime[u], batch'[u] = batch[u]
  PROVE  SessionInv(u)'
<1>1. opTime'[u] <= now'
  BY DEF SessionInv
<1>2. CallInv(u) => CallInv(u)'
  BY Zenon DEF CallInv
<1>3. WorkInv(u) => WorkInv(u)'
  BY SameCandidates, Zenon DEF WorkInv
<1>4. QED
  BY <1>1, <1>2, <1>3, Zenon DEF SessionInv

\* A session that is waiting for the reservation relies on its arguments only.
LEMMA WaiterKept ==
  ASSUME NEW u \in Sessions, SessionInv(u), pc[u] \in {"idle", "begin"},
         \A r \in Rows : issued[r] \subseteq issued'[r], now' = now,
         pc'[u] = pc[u], call'[u] = call[u], opTime'[u] = opTime[u]
  PROVE  SessionInv(u)'
<1>1. CallInv(u) => CallInv(u)'
  BY Zenon DEF CallInv
<1>2. pc[u] = "begin" => WorkInv(u)'
  BY Zenon DEF WorkInv
<1>3. QED
  BY <1>1, <1>2, Zenon DEF SessionInv

\* A step of one session that leaves the tables alone.
LEMMA Quiet ==
  ASSUME IInv, NEW s \in Sessions, UNCHANGED tables, OthersUntouched(s),
         SessionTypes', OneWriter', SessionInv(s)', FreshTime(s)'
  PROVE  IInv'
<1>1. /\ TableTypes /\ SessionTypes /\ \A u \in Sessions : FreshTime(u) /\ SessionInv(u)
      /\ \A r \in Rows : RowInv(delivery[r], issued[r], lastOp[r], now)
  BY IInvParts, Zenon
<1>2. delivery' = delivery /\ issued' = issued /\ lastOp' = lastOp /\ now' = now
  BY Zenon DEF tables
<1>3. TableTypes' /\ \A r \in Rows : RowInv(delivery[r], issued[r], lastOp[r], now)'
  BY <1>1, <1>2, Zenon DEF TableTypes
<1>4. now \in Nat /\ \A u \in Sessions : opTime[u] \in Nat
  BY <1>1, DeliveryAssumption DEF TableTypes, SessionTypes
<1>5. ASSUME NEW u \in Sessions, u # s PROVE SessionInv(u)' /\ FreshTime(u)'
  <2>1. /\ pc'[u] = pc[u] /\ call'[u] = call[u] /\ opTime'[u] = opTime[u]
        /\ batch'[u] = batch[u]
    BY <1>5, Zenon DEF OthersUntouched
  <2>2. SessionInv(u)'
    BY <1>1, <1>2, <1>4, <2>1, SessionKept
  <2>3. FreshTime(u)'
    BY <1>1, <1>2, <2>1, Zenon DEF FreshTime
  <2>4. QED
    BY <2>2, <2>3, Zenon
<1>6. QED
  BY <1>3, <1>5, IInvPartsNext, Zenon

-------------------------------------------------------------------------------
(* Steps that leave the tables alone.                                      *)

\* A call that returns leaves nothing behind, the reservation included.
LEMMA EndSession ==
  ASSUME SessionTypes, OneWriter, now \in Nat, NEW s \in Sessions, NEW outcome, End(s, outcome)
  PROVE  /\ SessionTypes' /\ OneWriter' /\ OthersUntouched(s) /\ pc'[s] = "idle"
         /\ (now' = now => SessionInv(s)') /\ FreshTime(s)'
<1>1. NoCall \in Calls
  BY Zenon DEF NoCall, Calls
<1>2. SessionTypes'
  <2>1. 0 \in 0..MaxTime /\ 0 \in 0..Retries /\ 0 \in 0..Timeout
    BY DeliveryAssumption, SqliteAssumption
  <2>2. pc' \in [Sessions -> Places] /\ writer' \in Sessions \union {Free}
    BY Zenon DEF End, SessionTypes, Places
  <2>3. QED
    BY <1>1, <2>1, <2>2, Zenon DEF End, SessionTypes
<1>3. OthersUntouched(s) /\ pc'[s] = "idle" /\ opTime'[s] = 0
  BY Zenon DEF End, SessionTypes, OthersUntouched
<1>4. OneWriter'
  <2> SUFFICES ASSUME NEW u \in Sessions
               PROVE  (writer' = u) <=> (pc'[u] \notin {"idle", "begin"})
    BY Zenon DEF OneWriter
  <2>1. CASE u = s
    BY <2>1, <1>3, SqliteAssumption, Zenon DEF End
  <2>2. CASE u # s
    <3>1. pc'[u] = pc[u]
      BY <2>2, <1>3, Zenon DEF OthersUntouched
    <3>2. writer' = u <=> writer = u
      BY <2>2, SqliteAssumption, Zenon DEF End
    <3>3. QED
      BY <3>1, <3>2, Zenon DEF OneWriter
  <2>3. QED
    BY <2>1, <2>2, Zenon
<1>5. SessionInv(s)' <=> 0 <= now'
  BY <1>3, Zenon DEF SessionInv
<1>6. QED
  BY <1>2, <1>3, <1>4, <1>5 DEF FreshTime

LEMMA EndQuiet ==
  ASSUME IInv, NEW s \in Sessions, NEW outcome, End(s, outcome), UNCHANGED tables
  PROVE  IInv'
<1>1. SessionTypes /\ OneWriter /\ now \in Nat /\ now' = now
  BY IInvParts, DeliveryAssumption DEF TableTypes, tables
<1>2. /\ SessionTypes' /\ OneWriter' /\ OthersUntouched(s)
      /\ SessionInv(s)' /\ FreshTime(s)'
  BY <1>1, EndSession, Zenon
<1>3. QED
  BY <1>2, Quiet, Zenon

\* The retry of a busy operation gives the reservation back and keeps only the
\* arguments of the call.
LEMMA BusyAgainStep ==
  ASSUME IInv, NEW s \in Sessions, pc[s] # "idle", BusyAgain(s), UNCHANGED tables
  PROVE  IInv'
<1>1. CASE ~(tries[s] < Retries)
  BY <1>1, EndQuiet, Zenon DEF BusyAgain
<1>2. CASE tries[s] < Retries
  <2>1. SessionTypes /\ OneWriter /\ SessionInv(s) /\ now \in Nat
    BY IInvParts, DeliveryAssumption DEF TableTypes
  <2>2. SessionTypes'
    <3>1. 0 \in 0..MaxTime /\ Timeout \in 0..Timeout /\ tries[s] + 1 \in 0..Retries
      BY <1>2, <2>1, DeliveryAssumption, SqliteAssumption DEF SessionTypes
    <3>2. pc' \in [Sessions -> Places] /\ writer' \in Sessions \union {Free}
      BY <1>2, <2>1, Zenon DEF BusyAgain, SessionTypes, Places
    <3>3. QED
      BY <1>2, <2>1, <3>1, <3>2, Zenon DEF BusyAgain, SessionTypes
  <2>3. /\ OthersUntouched(s) /\ pc'[s] = "begin" /\ opTime'[s] = 0 /\ call' = call
        /\ writer' = IF writer = s THEN Free ELSE writer
    BY <1>2, <2>1 DEF BusyAgain, SessionTypes, OthersUntouched
  <2>4. OneWriter'
    <3> SUFFICES ASSUME NEW u \in Sessions
                 PROVE  (writer' = u) <=> (pc'[u] \notin {"idle", "begin"})
      BY Zenon DEF OneWriter
    <3>1. CASE u = s
      BY <3>1, <2>3, SqliteAssumption, Zenon
    <3>2. CASE u # s
      BY <3>2, <2>1, <2>3, SqliteAssumption, Zenon DEF OneWriter, OthersUntouched
    <3>3. QED
      BY <3>1, <3>2, Zenon
  <2>5. CallInv(s)' /\ WorkInv(s)'
    BY <2>1, <2>3, Zenon DEF SessionInv, CallInv, WorkInv, tables
  <2>6. SessionInv(s)' /\ FreshTime(s)'
    BY <2>1, <2>3, <2>5 DEF SessionInv, FreshTime, tables
  <2>7. QED
    BY <2>2, <2>3, <2>4, <2>6, Quiet, Zenon
<1>3. QED
  BY <1>1, <1>2, Zenon

\* A session that stays on its side of BEGIN IMMEDIATE leaves the reservation be.
LEMMA SameSide ==
  ASSUME SessionTypes, OneWriter, NEW s \in Sessions, OthersUntouched(s), writer' = writer,
         pc[s] \in {"idle", "begin"} <=> pc'[s] \in {"idle", "begin"}
  PROVE  OneWriter'
BY Zenon DEF OneWriter, OthersUntouched

\* The arguments callers choose are arguments of the call.
LEMMA StartStep ==
  ASSUME IInv, NEW s \in Sessions, StartClaim(s) \/ StartMutation(s) \/ StartWrite(s)
  PROVE  IInv'
<1>1. TableTypes /\ SessionTypes /\ OneWriter /\ SessionInv(s)
  BY IInvParts, Zenon
<1>2. PICK c :
        /\ Start(s, c) /\ c \in Calls
        /\ \/ c.op = "claim" /\ c.scope \in Scopes /\ c.arg \in Leases
           \/ /\ c.op \in Kinds /\ c.scope \in Scopes /\ c.row \in Rows
              /\ c.token \in issued[c.row] /\ c.arg \in MutationArgs(c.op)
           \/ c.op \in CallerOps /\ c.row \in Rows /\ c.scope = TenantOf[c.row]
  <2>1. CASE StartClaim(s)
    <3>1. PICK scope \in Scopes, lease \in Leases, limit \in Limits :
            Start(s, [NoCall EXCEPT !.op = "claim", !.scope = scope, !.arg = lease, !.limit = limit])
      BY <2>1, Zenon DEF StartClaim
    <3> DEFINE c == [NoCall EXCEPT !.op = "claim", !.scope = scope, !.arg = lease, !.limit = limit]
    <3>2. c \in Calls /\ c.op = "claim" /\ c.scope \in Scopes /\ c.arg \in Leases
      BY DeliveryAssumption, SqliteAssumption, Zenon DEF NoCall, Calls
    <3>3. QED
      BY <3>1, <3>2, Zenon
  <2>2. CASE StartMutation(s)
    <3>1. PICK scope \in Scopes, kind \in Kinds, r \in Rows :
            \E token \in issued[r], arg \in MutationArgs(kind) :
              Start(s, [op |-> kind, scope |-> scope, row |-> r, token |-> token,
                        arg |-> arg, limit |-> 0])
      BY <2>2, Zenon DEF StartMutation
    <3>2. PICK token \in issued[r], arg \in MutationArgs(kind) :
            Start(s, [op |-> kind, scope |-> scope, row |-> r, token |-> token,
                      arg |-> arg, limit |-> 0])
      BY <3>1, Zenon
    <3> DEFINE c == [op |-> kind, scope |-> scope, row |-> r, token |-> token,
                     arg |-> arg, limit |-> 0]
    <3>3. arg \in Nat /\ kind \in MutationKind /\ token \in Tokens
      BY <1>1, DeliveryAssumption DEF MutationArgs, MutationKind, TableTypes
    <3>4. c \in Calls
      BY <3>3, DeliveryAssumption, Zenon DEF Calls
    <3>5. /\ c.op \in Kinds /\ c.scope \in Scopes /\ c.row \in Rows
          /\ c.token \in issued[c.row] /\ c.arg \in MutationArgs(c.op)
      BY Zenon
    <3>6. QED
      BY <3>2, <3>4, <3>5, Zenon
  <2>3. CASE StartWrite(s)
    <3>1. PICK op \in CallerOps, r \in Rows :
            Start(s, [NoCall EXCEPT !.op = op, !.row = r, !.scope = TenantOf[r]])
      BY <2>3, Zenon DEF StartWrite
    <3> DEFINE c == [NoCall EXCEPT !.op = op, !.row = r, !.scope = TenantOf[r]]
    <3>2. c \in Calls /\ c.op \in CallerOps /\ c.row \in Rows /\ c.scope = TenantOf[c.row]
      BY DeliveryAssumption, Zenon DEF NoCall, Calls
    <3>3. QED
      BY <3>1, <3>2, Zenon
  <2>4. QED
    BY <2>1, <2>2, <2>3, Zenon
<1>3. /\ pc[s] = "idle" /\ pc'[s] = "begin" /\ call'[s] = c /\ OthersUntouched(s)
      /\ UNCHANGED <<tables, writer, opTime>>
  BY <1>1, <1>2, Zenon DEF Start, SessionTypes, OthersUntouched
<1>4. SessionTypes'
  <2>1. Timeout \in 0..Timeout
    BY SqliteAssumption
  <2>2. QED
    BY <1>1, <1>2, <2>1, Zenon DEF Start, SessionTypes, Places
<1>5. CallInv(s)'
  BY <1>2, <1>3, Zenon DEF CallInv, tables
<1>6. WorkInv(s)'
  BY <1>3, Zenon DEF WorkInv
<1>7. SessionInv(s)' /\ FreshTime(s)'
  BY <1>1, <1>3, <1>5, <1>6, Zenon DEF SessionInv, FreshTime, tables
<1>8. OneWriter'
  BY <1>1, <1>3, SameSide, Zenon
<1>9. QED
  BY <1>3, <1>4, <1>7, <1>8, Quiet, Zenon

\* The reservation is taken when nobody has it.
LEMMA BeginStep ==
  ASSUME IInv, NEW s \in Sessions, BeginImmediate(s)
  PROVE  IInv'
<1>1. SessionTypes /\ OneWriter /\ SessionInv(s)
  BY IInvParts, Zenon
<1>2. /\ pc[s] = "begin" /\ writer = Free /\ writer' = s
      /\ UNCHANGED <<tables, call, opTime>> /\ OthersUntouched(s)
      /\ pc'[s] = IF call[s].op \in CallerOps THEN "caller" ELSE "clock"
  BY <1>1, Zenon DEF BeginImmediate, SessionTypes, OthersUntouched
<1>3. SessionTypes'
  BY <1>1, Zenon DEF BeginImmediate, SessionTypes, Places
<1>4. OneWriter'
  <2> SUFFICES ASSUME NEW u \in Sessions
               PROVE  (writer' = u) <=> (pc'[u] \notin {"idle", "begin"})
    BY Zenon DEF OneWriter
  <2>1. CASE u = s
    BY <2>1, <1>2, Zenon
  <2>2. CASE u # s
    BY <2>2, <1>1, <1>2, SqliteAssumption, Zenon DEF OneWriter, OthersUntouched
  <2>3. QED
    BY <2>1, <2>2, Zenon
<1>5. CallInv(s)' /\ WorkInv(s)'
  BY <1>1, <1>2, Zenon DEF SessionInv, CallInv, WorkInv, tables
<1>6. SessionInv(s)' /\ FreshTime(s)'
  BY <1>1, <1>2, <1>5, Zenon DEF SessionInv, FreshTime, tables
<1>7. QED
  BY <1>2, <1>3, <1>4, <1>6, Quiet, Zenon

\* The clock, read under the reservation, is past every committed change.
LEMMA ReadClockStep ==
  ASSUME IInv, NEW s \in Sessions, ReadClock(s)
  PROVE  IInv'
<1>1. /\ TableTypes /\ SessionTypes /\ OneWriter /\ SessionInv(s)
      /\ \A r \in Rows : RowInv(delivery[r], issued[r], lastOp[r], now)
  BY IInvParts, Zenon
<1>2. /\ pc[s] = "clock" /\ pc'[s] = "work" /\ opTime'[s] = now
      /\ UNCHANGED <<tables, call, writer>> /\ OthersUntouched(s)
  BY <1>1, Zenon DEF ReadClock, OperationTime, SessionTypes, OthersUntouched
<1>3. SessionTypes'
  BY <1>1, Zenon DEF ReadClock, OperationTime, SessionTypes, TableTypes, Places
<1>4. CallInv(s)' /\ WorkInv(s)'
  BY <1>1, <1>2, Zenon DEF SessionInv, CallInv, WorkInv, tables
<1>5. SessionInv(s)'
  BY <1>1, <1>2, <1>4, DeliveryAssumption DEF SessionInv, tables, TableTypes
<1>6. FreshTime(s)'
  BY <1>1, <1>2, Zenon DEF FreshTime, tables, RowInv
<1>7. OneWriter'
  BY <1>1, <1>2, SameSide, Zenon
<1>8. QED
  BY <1>2, <1>3, <1>5, <1>6, <1>7, Quiet, Zenon

\* The way to COMMIT: what the transaction found is what it will write.
LEMMA CommitReached ==
  ASSUME IInv, NEW s \in Sessions, UNCHANGED <<tables, writer, reading, call, opTime, tries, waited>>,
         ToCommit(s), pc[s] \in {"work", "written"},
         NEW B \in SUBSET Rows, batch' = [batch EXCEPT ![s] = B], WorkInv(s)'
  PROVE  IInv'
<1>1. TableTypes /\ SessionTypes /\ OneWriter /\ SessionInv(s) /\ FreshTime(s)
  BY IInvParts, Zenon
<1>2. pc'[s] = "commit" /\ OthersUntouched(s)
  BY <1>1, Zenon DEF ToCommit, SessionTypes, OthersUntouched
<1>3. SessionTypes'
  <2>1. Timeout \in 0..Timeout
    BY SqliteAssumption
  <2>2. QED
    BY <1>1, <2>1, Zenon DEF ToCommit, SessionTypes, Places
<1>4. CallInv(s)'
  BY <1>1, Zenon DEF SessionInv, CallInv, tables
<1>5. SessionInv(s)' /\ FreshTime(s)'
  BY <1>1, <1>2, <1>4, Zenon DEF SessionInv, FreshTime, tables
<1>6. OneWriter'
  BY <1>1, <1>2, SameSide, Zenon
<1>7. QED
  BY <1>2, <1>3, <1>5, <1>6, Quiet, Zenon

LEMMA ExecuteClaimStep ==
  ASSUME IInv, NEW s \in Sessions, ExecuteClaim(s)
  PROVE  IInv'
<1>1. UNCHANGED tables /\ pc[s] = "work" /\ call[s].op = "claim"
  BY Zenon DEF ExecuteClaim
<1>2. CASE \E r \in Candidates(s) : delivery[r].attempts = MaxAttempts
  BY <1>1, <1>2, EndQuiet, Zenon DEF ExecuteClaim
<1>3. CASE ~\E r \in Candidates(s) : delivery[r].attempts = MaxAttempts
  <2>1. /\ batch' = [batch EXCEPT ![s] = Candidates(s)] /\ ToCommit(s)
        /\ UNCHANGED <<writer, reading, call, opTime, tries, waited>>
    BY <1>3, Zenon DEF ExecuteClaim
  <2>2. TableTypes /\ SessionTypes
    BY IInvParts, Zenon
  <2>3. Candidates(s) \subseteq Rows
    BY Zenon DEF Candidates
  <2>4. batch'[s] = Candidates(s) /\ pc'[s] = "commit" /\ delivery' = delivery
    BY <1>1, <2>1, <2>2, Zenon DEF SessionTypes, ToCommit, tables
  <2>5. Candidates(s)' = Candidates(s)
    BY <2>1, <2>4, SameCandidates, Zenon
  <2>6. \A r \in Candidates(s) : delivery[r].attempts < MaxAttempts
    <3> SUFFICES ASSUME NEW r \in Candidates(s) PROVE delivery[r].attempts < MaxAttempts
      BY Zenon
    <3>1. delivery[r].attempts \in 0..MaxAttempts /\ delivery[r].attempts # MaxAttempts
      BY <1>3, <2>2, <2>3, Zenon DEF TableTypes, DeliveryRow
    <3>2. QED
      BY <3>1, DeliveryAssumption
  <2>7. call'[s].op = "claim" /\ "claim" \notin Kinds /\ "claim" \notin CallerOps
    BY <1>1, <2>1, DeliveryAssumption, Zenon DEF MutationKind, CallerOps
  <2>8. WorkInv(s)'
    BY <2>4, <2>5, <2>6, <2>7, Zenon DEF WorkInv
  <2>9. QED
    BY <1>1, <2>1, <2>3, <2>8, CommitReached, Zenon
<1>4. QED
  BY <1>2, <1>3, Zenon

LEMMA ExecuteMutationStep ==
  ASSUME IInv, NEW s \in Sessions, ExecuteMutation(s)
  PROVE  IInv'
<1>1. UNCHANGED tables /\ pc[s] = "work" /\ call[s].op \in Kinds
  BY Zenon DEF ExecuteMutation
<1>2. CASE Verdict(s) # "Ok"
  BY <1>1, <1>2, EndQuiet, Zenon DEF ExecuteMutation
<1>3. CASE Verdict(s) = "Ok"
  <2>1. ToCommit(s) /\ UNCHANGED <<writer, reading, call, opTime, batch, tries, waited>>
    BY <1>3, Zenon DEF ExecuteMutation
  <2>2. SessionTypes
    BY IInvParts, Zenon
  <2>3. batch' = [batch EXCEPT ![s] = batch[s]] /\ batch[s] \in SUBSET Rows /\ pc'[s] = "commit"
    BY <2>1, <2>2, Zenon DEF SessionTypes, ToCommit
  <2>4. /\ InScope(call[s].scope, call[s].row)
        /\ Fenced(delivery[call[s].row], call[s].token, opTime[s])
    BY <1>3, Zenon DEF Verdict
  <2>5. call[s].op # "claim" /\ call[s].op \notin CallerOps
    BY <1>1, DeliveryAssumption, Zenon DEF MutationKind, CallerOps
  <2>6. WorkInv(s)'
    BY <1>1, <2>1, <2>3, <2>4, <2>5, Zenon DEF WorkInv, tables
  <2>7. QED
    BY <1>1, <2>1, <2>3, <2>6, CommitReached, Zenon
<1>4. QED
  BY <1>2, <1>3, Zenon

\* A caller's row is written after it was found as it must be.
LEMMA CallerWorkStep ==
  ASSUME IInv, NEW s \in Sessions, CallerWork(s)
  PROVE  IInv'
<1> DEFINE d == delivery[call[s].row]
           writes == IF call[s].op = "finalize" THEN CanonicalPending(d) ELSE d.state = "absent"
<1>1. UNCHANGED tables /\ pc[s] = "caller"
  BY Zenon DEF CallerWork
<1>2. CASE ~writes
  <2>1. PICK a : End(s, a)
    BY <1>2, Zenon DEF CallerWork
  <2>2. QED
    BY <1>1, <2>1, EndQuiet, Zenon
<1>3. CASE writes
  <2>1. /\ TableTypes /\ SessionTypes /\ OneWriter /\ SessionInv(s)
        /\ \A r \in Rows : RowInv(delivery[r], issued[r], lastOp[r], now)
    BY IInvParts, Zenon
  <2>2. /\ opTime' = [opTime EXCEPT ![s] = now] /\ pc' = [pc EXCEPT ![s] = "written"]
        /\ UNCHANGED <<writer, reading, call, batch, tries, left, waited>>
    BY <1>3, Zenon DEF CallerWork, OperationTime
  <2>3. pc'[s] = "written" /\ opTime'[s] = now /\ OthersUntouched(s)
    BY <2>1, <2>2, Zenon DEF SessionTypes, OthersUntouched
  <2>4. SessionTypes'
    BY <2>1, <2>2, Zenon DEF SessionTypes, TableTypes, Places
  <2>5. CallInv(s)
    BY <1>1, <2>1, Zenon DEF SessionInv
  <2>6. CallInv(s)'
    BY <1>1, <2>2, <2>5, Zenon DEF CallInv, tables
  <2>7. call[s].op \in CallerOps
    BY <1>1, <2>1, Zenon DEF SessionInv, WorkInv
  <2>8. WorkInv(s)'
    BY <1>1, <1>3, <2>2, <2>3, <2>7, Zenon DEF WorkInv, tables
  <2>9. SessionInv(s)'
    BY <1>1, <2>1, <2>3, <2>6, <2>8, DeliveryAssumption DEF SessionInv, tables, TableTypes
  <2>10. FreshTime(s)'
    BY <1>1, <2>1, <2>3, Zenon DEF FreshTime, tables, RowInv
  <2>11. OneWriter'
    BY <1>1, <2>1, <2>2, <2>3, SameSide, Zenon
  <2>12. QED
    BY <1>1, <2>3, <2>4, <2>9, <2>10, <2>11, Quiet, Zenon
<1>4. QED
  BY <1>2, <1>3, Zenon

LEMMA CallerCommitStep ==
  ASSUME IInv, NEW s \in Sessions, CallerCommit(s)
  PROVE  IInv'
<1>1. /\ pc[s] = "written" /\ ToCommit(s)
      /\ UNCHANGED <<tables, writer, reading, call, opTime, batch, tries, waited>>
  BY Zenon DEF CallerCommit
<1>2. SessionTypes /\ SessionInv(s)
  BY IInvParts, Zenon
<1>3. batch' = [batch EXCEPT ![s] = batch[s]] /\ batch[s] \in SUBSET Rows /\ pc'[s] = "commit"
  BY <1>1, <1>2, Zenon DEF SessionTypes, ToCommit
<1>4. WorkInv(s)
  BY <1>1, <1>2, Zenon DEF SessionInv
<1>5. call[s].op # "claim" /\ call[s].op \notin Kinds /\ call[s].op \in CallerOps
  BY <1>1, <1>4, DeliveryAssumption, Zenon DEF WorkInv, MutationKind, CallerOps
<1>6. WorkInv(s)'
  BY <1>1, <1>3, <1>4, <1>5, Zenon DEF WorkInv, tables
<1>7. QED
  BY <1>1, <1>3, <1>6, CommitReached, Zenon

\* Readers come and go; a session may give up or be told that SQLite is busy.
LEMMA SnapshotStep ==
  ASSUME IInv, NEW p \in Readers, OpenSnapshot(p) \/ CloseSnapshot(p)
  PROVE  IInv'
<1>1. /\ UNCHANGED <<now, delivery, issued, lastOp>>
      /\ UNCHANGED <<writer, pc, call, opTime, batch, tries, left, waited>>
      /\ reading' \subseteq reading \union {p}
  BY Zenon DEF OpenSnapshot, CloseSnapshot, tables
<1>2. /\ TableTypes /\ SessionTypes /\ OneWriter
      /\ \A u \in Sessions : FreshTime(u) /\ SessionInv(u)
      /\ \A r \in Rows : RowInv(delivery[r], issued[r], lastOp[r], now)
  BY IInvParts, Zenon
<1>3. TableTypes' /\ SessionTypes' /\ OneWriter'
  BY <1>1, <1>2, Zenon DEF TableTypes, SessionTypes, OneWriter
<1>4. now \in Nat /\ \A u \in Sessions : opTime[u] \in Nat
  BY <1>2, DeliveryAssumption DEF TableTypes, SessionTypes
<1>5. \A u \in Sessions : SessionInv(u)'
  BY <1>1, <1>2, <1>4, SessionKept
<1>6. \A u \in Sessions : FreshTime(u)'
  BY <1>1, <1>2, Zenon DEF FreshTime
<1>7. \A r \in Rows : RowInv(delivery[r], issued[r], lastOp[r], now)'
  BY <1>1, <1>2, Zenon
<1>8. QED
  BY <1>3, <1>5, <1>6, <1>7, IInvPartsNext, Zenon

LEMMA GiveUpStep ==
  ASSUME IInv, NEW s \in Sessions, BeginBusy(s) \/ CommitBusy(s) \/ Abort(s)
  PROVE  IInv'
<1>1. pc[s] # "idle" /\ UNCHANGED tables
  BY Zenon DEF BeginBusy, CommitBusy, Abort
<1>2. BusyAgain(s) \/ \E a : End(s, a)
  BY Zenon DEF BeginBusy, CommitBusy, Abort
<1>3. QED
  BY <1>1, <1>2, EndQuiet, BusyAgainStep, Zenon

\* Time passes for everybody.
LEMMA TickStep ==
  ASSUME IInv, Tick
  PROVE  IInv'
<1>1. /\ TableTypes /\ SessionTypes /\ OneWriter
      /\ \A u \in Sessions : FreshTime(u) /\ SessionInv(u)
      /\ \A r \in Rows : RowInv(delivery[r], issued[r], lastOp[r], now)
  BY IInvParts, Zenon
<1>2. /\ now \in Nat /\ now' \in Nat /\ now <= now' /\ now' \in 0..MaxTime
      /\ UNCHANGED <<delivery, issued, lastOp, writer, reading, pc, call, opTime, batch, tries>>
  BY <1>1, DeliveryAssumption DEF TableTypes, Tick
<1>3. \A u \in Sessions : opTime[u] \in Nat
  BY <1>1, DeliveryAssumption DEF SessionTypes
<1>4. left' \in [Sessions -> 0..Timeout] /\ waited' \in [Sessions -> Nat]
  <2>1. ASSUME NEW u \in Sessions
        PROVE  /\ (IF Waiting(u) THEN left[u] - 1 ELSE left[u]) \in 0..Timeout
               /\ (IF Blocked(u) THEN waited[u] + 1 ELSE waited[u]) \in Nat
    <3>1. left[u] \in 0..Timeout /\ waited[u] \in Nat /\ (Waiting(u) => left[u] > 0)
      BY <1>1, Zenon DEF SessionTypes, Tick
    <3>2. QED
      BY <3>1, SqliteAssumption
  <2>2. /\ left' = [u \in Sessions |-> IF Waiting(u) THEN left[u] - 1 ELSE left[u]]
        /\ waited' = [u \in Sessions |-> IF Blocked(u) THEN waited[u] + 1 ELSE waited[u]]
    BY Zenon DEF Tick
  <2>3. QED
    BY <2>1, <2>2, Zenon
<1>5. TableTypes' /\ SessionTypes' /\ OneWriter'
  BY <1>1, <1>2, <1>4, Zenon DEF TableTypes, SessionTypes, OneWriter
<1>6. \A u \in Sessions : SessionInv(u)'
  BY <1>1, <1>2, <1>3, SessionKept, Zenon
<1>7. \A u \in Sessions : FreshTime(u)'
  BY <1>1, <1>2, Zenon DEF FreshTime
<1>8. \A r \in Rows : RowInv(delivery[r], issued[r], lastOp[r], now)'
  BY <1>1, <1>2, RowInvTick, Zenon
<1>9. QED
  BY <1>5, <1>6, <1>7, <1>8, IInvPartsNext, Zenon

-------------------------------------------------------------------------------
(* COMMIT.                                                                 *)

\* What a session knows of the rows when its COMMIT goes through.
LEMMA AtCommit ==
  ASSUME IInv, NEW s \in Sessions, pc[s] = "commit"
  PROVE  /\ TableTypes /\ SessionTypes /\ OneWriter /\ CallInv(s) /\ WorkInv(s)
         /\ now \in Nat /\ opTime[s] \in 0..now
         /\ \A r \in Rows : /\ lastOp[r] <= opTime[s]
                             /\ RowInv(delivery[r], issued[r], lastOp[r], now)
<1>1. /\ TableTypes /\ SessionTypes /\ OneWriter /\ SessionInv(s) /\ FreshTime(s)
      /\ \A r \in Rows : RowInv(delivery[r], issued[r], lastOp[r], now)
  BY IInvParts, Zenon
<1>2. now \in Nat /\ opTime[s] \in Nat /\ opTime[s] <= now
  BY <1>1, DeliveryAssumption DEF TableTypes, SessionTypes, SessionInv
<1>3. QED
  BY <1>1, <1>2 DEF SessionInv, FreshTime

\* A commit concerns nobody else: all others are waiting for the reservation.
LEMMA CommitKeeps ==
  ASSUME IInv, NEW s \in Sessions, pc[s] = "commit", NEW outcome, End(s, outcome),
         UNCHANGED now, TableTypes', \A r \in Rows : issued[r] \subseteq issued'[r],
         \A r \in Rows : RowInv(delivery[r], issued[r], lastOp[r], now)'
  PROVE  IInv'
<1>1. SessionTypes /\ OneWriter /\ now \in Nat /\ \A u \in Sessions : SessionInv(u)
  BY IInvParts, DeliveryAssumption DEF TableTypes
<1>2. /\ SessionTypes' /\ OneWriter' /\ OthersUntouched(s)
      /\ SessionInv(s)' /\ FreshTime(s)'
  BY <1>1, EndSession, Zenon
<1>3. ASSUME NEW u \in Sessions, u # s PROVE SessionInv(u)' /\ FreshTime(u)'
  <2>1. pc[u] \in {"idle", "begin"}
    BY <1>1, <1>3, Zenon DEF OneWriter
  <2>2. pc'[u] = pc[u] /\ call'[u] = call[u] /\ opTime'[u] = opTime[u]
    BY <1>2, <1>3, Zenon DEF OthersUntouched
  <2>3. QED
    BY <1>1, <2>1, <2>2, WaiterKept, Zenon DEF FreshTime
<1>4. QED
  BY <1>2, <1>3, IInvPartsNext, Zenon

\* The claimed candidates were eligible and are claimed under fresh tokens.
LEMMA CommitClaimStep ==
  ASSUME IInv, NEW s \in Sessions, CommitClaim(s)
  PROVE  IInv'
<1> DEFINE S == batch[s]
           t == opTime[s]
           lease == call[s].arg
<1>1. pc[s] = "commit" /\ call[s].op = "claim" /\ End(s, "Claimed") /\ UNCHANGED now
  BY Zenon DEF CommitClaim
<1>2. /\ TableTypes /\ SessionTypes /\ CallInv(s) /\ WorkInv(s) /\ now \in Nat /\ t \in 0..now
      /\ \A r \in Rows : /\ lastOp[r] <= t
                          /\ RowInv(delivery[r], issued[r], lastOp[r], now)
  BY <1>1, AtCommit, Zenon
<1>3. PICK token \in [S -> Tokens] :
        /\ \A r \in S : token[r] \notin issued[r]
        /\ delivery' = [r \in Rows |-> IF r \in S THEN ClaimedRow(delivery[r], token[r], t + lease)
                                                   ELSE delivery[r]]
        /\ issued' = [r \in Rows |-> IF r \in S THEN issued[r] \union {token[r]} ELSE issued[r]]
        /\ lastOp' = [r \in Rows |-> IF r \in S THEN t ELSE lastOp[r]]
  BY Zenon DEF CommitClaim
<1>4. lease \in Leases
  BY <1>1, <1>2, DeliveryAssumption, Zenon DEF CallInv, CallerOps, MutationKind
<1>5. \A r \in S : r \in Rows /\ Eligible(delivery[r], t) /\ delivery[r].attempts < MaxAttempts
  BY <1>1, <1>2, Zenon DEF WorkInv, Candidates
<1>6. ASSUME NEW r \in Rows
      PROVE  RowInv(delivery'[r], issued'[r], lastOp'[r], now)
  <2>1. CASE r \in S
    <3>1. RowInv(ClaimedRow(delivery[r], token[r], t + lease), issued[r] \union {token[r]}, t, now)
      <4>1. token[r] \in Tokens /\ token[r] \notin issued[r]
        BY <2>1, <1>3, Zenon
      <4>2. Eligible(delivery[r], t) /\ delivery[r].attempts < MaxAttempts
        BY <2>1, <1>5, Zenon
      <4> HIDE DEF t, lease
      <4>3. QED
        BY <4>1, <4>2, <1>2, <1>4, ClaimedRowInv, Zenon
    <3>2. QED
      BY <2>1, <3>1, <1>3, Zenon
  <2>2. CASE r \notin S
    BY <2>2, <1>2, <1>3, Zenon
  <2>3. QED
    BY <2>1, <2>2, Zenon
<1>7. \A r \in Rows : RowInv(delivery[r], issued[r], lastOp[r], now)'
  BY <1>1, <1>6, Zenon
<1>8. TableTypes'
  <2>1. \A r \in Rows : delivery'[r] \in DeliveryRow /\ issued'[r] \in SUBSET Tokens
    BY <1>6, Zenon DEF RowInv
  <2>2. t \in 0..MaxTime
    BY <1>2, Zenon DEF SessionTypes
  <2>3. \A r \in Rows : lastOp'[r] \in 0..MaxTime
    BY <1>2, <1>3, <2>2, Zenon DEF TableTypes
  <2>4. QED
    BY <1>1, <1>2, <1>3, <2>1, <2>3, Zenon DEF TableTypes
<1>9. \A r \in Rows : issued[r] \subseteq issued'[r]
  BY <1>3, Zenon
<1>10. QED
  BY <1>1, <1>7, <1>8, <1>9, CommitKeeps, Zenon

\* The fence of the mutation holds at its time, which no change has passed.
LEMMA CommitMutationStep ==
  ASSUME IInv, NEW s \in Sessions, CommitMutation(s)
  PROVE  IInv'
<1>1. /\ pc[s] = "commit" /\ call[s].op \in Kinds /\ End(s, "Mutated")
      /\ UNCHANGED <<now, issued>>
  BY Zenon DEF CommitMutation
<1>2. /\ TableTypes /\ SessionTypes /\ CallInv(s) /\ WorkInv(s) /\ now \in Nat /\ opTime[s] \in 0..now
      /\ \A q \in Rows : /\ lastOp[q] <= opTime[s]
                          /\ RowInv(delivery[q], issued[q], lastOp[q], now)
  BY <1>1, AtCommit, Zenon
<1>3. PICK r \in Rows : r = call[s].row
  BY <1>1, <1>2, DeliveryAssumption, Zenon DEF CallInv, CallerOps, MutationKind
<1>4. PICK kind \in MutationKind : kind = call[s].op
  BY <1>1, DeliveryAssumption, Zenon
<1>5. PICK t \in 0..now : t = opTime[s]
  BY <1>2, Zenon
<1>6. PICK arg \in MutationArgs(kind) : arg = call[s].arg
  BY <1>1, <1>2, <1>4, DeliveryAssumption, Zenon DEF CallInv, CallerOps, MutationKind
<1>7. Fenced(delivery[r], call[s].token, t)
  BY <1>1, <1>2, <1>3, <1>5, Zenon DEF WorkInv
<1>8. /\ delivery' = [delivery EXCEPT ![r] = MutatedRow(kind, delivery[r], t, arg)]
      /\ lastOp' = [lastOp EXCEPT ![r] = t]
  BY <1>3, <1>4, <1>5, <1>6, Zenon DEF CommitMutation
<1>9. RowInv(MutatedRow(kind, delivery[r], t, arg), issued[r], t, now)
  BY <1>2, <1>5, <1>7, MutatedRowInv, Zenon
<1>10. MutatedRow(kind, delivery[r], t, arg) \in DeliveryRow
  BY <1>9, Zenon DEF RowInv
<1> DEFINE row == MutatedRow(kind, delivery[r], t, arg)
<1>11. delivery'[r] = row /\ lastOp'[r] = t
  BY <1>2, <1>8, Zenon DEF TableTypes
<1>12. \A q \in Rows \ {r} : delivery'[q] = delivery[q] /\ lastOp'[q] = lastOp[q]
  BY <1>2, <1>8, Zenon DEF TableTypes
<1>13. \A q \in Rows : RowInv(delivery[q], issued[q], lastOp[q], now)'
  BY <1>1, <1>2, <1>9, <1>11, <1>12, Zenon
<1>14. TableTypes'
  <2>1. t \in 0..MaxTime
    BY <1>2, <1>5, Zenon DEF SessionTypes
  <2>2. QED
    BY <1>1, <1>2, <1>8, <1>10, <2>1, Zenon DEF TableTypes
<1>15. QED
  BY <1>1, <1>13, <1>14, CommitKeeps, Zenon

\* The three ways a caller's transaction commits.
LEMMA WriteCases ==
  ASSUME IInv, NEW s \in Sessions, CommitWrite(s)
  PROVE  \E r \in Rows, t \in 0..now :
           /\ r = call[s].row /\ t \in 0..MaxTime /\ UNCHANGED <<now, issued>>
           /\ \/ /\ CanonicalPending(delivery[r])
                 /\ delivery' = [delivery EXCEPT ![r] = FinalizedRow(delivery[r])]
                 /\ UNCHANGED lastOp
              \/ /\ delivery[r].state = "absent"
                 /\ delivery' = [delivery EXCEPT ![r] = EnqueuedRow(t)]
                 /\ lastOp' = [lastOp EXCEPT ![r] = t]
              \/ /\ delivery[r].state = "absent"
                 /\ \E skew \in 0..ImportSkew :
                      \E row \in {EnqueuedRow(t + skew), ImportedDelivered(t + skew)} :
                        delivery' = [delivery EXCEPT ![r] = row]
                 /\ lastOp' = [lastOp EXCEPT ![r] = t]
<1>1. pc[s] = "commit" /\ call[s].op \in CallerOps /\ UNCHANGED <<now, issued>>
  BY Zenon DEF CommitWrite
<1>2. CallInv(s) /\ WorkInv(s) /\ opTime[s] \in 0..now /\ SessionTypes
  BY <1>1, AtCommit, Zenon
<1>3. PICK r \in Rows : r = call[s].row
  BY <1>1, <1>2, DeliveryAssumption, Zenon DEF CallInv, CallerOps, MutationKind
<1>4. PICK t \in 0..now : t = opTime[s] /\ t \in 0..MaxTime
  BY <1>2, Zenon DEF SessionTypes
<1>5. CASE call[s].op = "finalize"
  <2>1. CanonicalPending(delivery[r])
    BY <1>1, <1>2, <1>3, <1>5, Zenon DEF WorkInv
  <2>2. delivery' = [delivery EXCEPT ![r] = FinalizedRow(delivery[r])] /\ UNCHANGED lastOp
    BY <1>3, <1>5, Zenon DEF CommitWrite
  <2>3. QED
    BY <1>1, <1>3, <1>4, <2>1, <2>2, Zenon
<1>6. CASE call[s].op = "enqueue"
  <2>1. delivery[r].state = "absent"
    BY <1>1, <1>2, <1>3, <1>6, Zenon DEF WorkInv
  <2>2. /\ delivery' = [delivery EXCEPT ![r] = EnqueuedRow(t)]
        /\ lastOp' = [lastOp EXCEPT ![r] = t]
    BY <1>3, <1>4, <1>6, Zenon DEF CommitWrite
  <2>3. QED
    BY <1>1, <1>3, <1>4, <2>1, <2>2, Zenon
<1>7. CASE call[s].op = "import"
  <2>1. delivery[r].state = "absent"
    BY <1>1, <1>2, <1>3, <1>7, Zenon DEF WorkInv
  <2>2. /\ \E skew \in 0..ImportSkew :
             \E row \in {EnqueuedRow(t + skew), ImportedDelivered(t + skew)} :
               delivery' = [delivery EXCEPT ![r] = row]
        /\ lastOp' = [lastOp EXCEPT ![r] = t]
    BY <1>3, <1>4, <1>7, Zenon DEF CommitWrite
  <2>3. QED
    BY <1>1, <1>3, <1>4, <2>1, <2>2, Zenon
<1>8. QED
  BY <1>1, <1>5, <1>6, <1>7, Zenon DEF CallerOps

\* One row is written, well formed, at a time no later than the clock.
LEMMA CommitWriteStep ==
  ASSUME IInv, NEW s \in Sessions, CommitWrite(s)
  PROVE  IInv'
<1>1. pc[s] = "commit" /\ End(s, "Written")
  BY Zenon DEF CommitWrite
<1>2. /\ TableTypes /\ now \in Nat
      /\ \A q \in Rows : RowInv(delivery[q], issued[q], lastOp[q], now)
  BY <1>1, AtCommit, Zenon
<1>3. PICK r \in Rows, t \in 0..now :
        /\ t \in 0..MaxTime /\ UNCHANGED <<now, issued>>
        /\ \/ /\ CanonicalPending(delivery[r])
              /\ delivery' = [delivery EXCEPT ![r] = FinalizedRow(delivery[r])]
              /\ UNCHANGED lastOp
           \/ /\ delivery[r].state = "absent"
              /\ delivery' = [delivery EXCEPT ![r] = EnqueuedRow(t)]
              /\ lastOp' = [lastOp EXCEPT ![r] = t]
           \/ /\ delivery[r].state = "absent"
              /\ \E skew \in 0..ImportSkew :
                   \E row \in {EnqueuedRow(t + skew), ImportedDelivered(t + skew)} :
                     delivery' = [delivery EXCEPT ![r] = row]
              /\ lastOp' = [lastOp EXCEPT ![r] = t]
  BY WriteCases, Zenon
<1>4. RowInv(delivery[r], issued[r], lastOp[r], now)
  BY <1>2, Zenon
<1>5. PICK row :
        /\ delivery' = [delivery EXCEPT ![r] = row]
        /\ \/ RowInv(row, issued[r], lastOp[r], now) /\ UNCHANGED lastOp
           \/ RowInv(row, issued[r], t, now) /\ lastOp' = [lastOp EXCEPT ![r] = t]
  <2>1. ASSUME delivery[r].state = "absent" PROVE issued[r] = {}
    <3>1. IsFiniteSet(issued[r]) /\ Cardinality(issued[r]) = 0
      BY <1>4, <2>1, Zenon DEF RowInv
    <3>2. QED
      BY <3>1, FS_EmptySet, Zenon
  <2>2. CASE /\ CanonicalPending(delivery[r])
             /\ delivery' = [delivery EXCEPT ![r] = FinalizedRow(delivery[r])]
             /\ UNCHANGED lastOp
    <3>1. RowInv(FinalizedRow(delivery[r]), issued[r], lastOp[r], now)
      BY <1>2, <1>4, <2>2, FinalizedRowInv, Zenon
    <3>2. QED
      BY <2>2, <3>1, Zenon
  <2>3. CASE /\ delivery[r].state = "absent"
             /\ delivery' = [delivery EXCEPT ![r] = EnqueuedRow(t)]
             /\ lastOp' = [lastOp EXCEPT ![r] = t]
    <3>1. t \in Nat /\ t <= t
      BY <1>2
    <3>2. RowInv(EnqueuedRow(t), {}, t, now)
      BY <1>2, <3>1, InsertedRowInv, Zenon
    <3>3. QED
      BY <2>1, <2>3, <3>2, Zenon
  <2>4. CASE /\ delivery[r].state = "absent"
             /\ \E skew \in 0..ImportSkew :
                  \E row \in {EnqueuedRow(t + skew), ImportedDelivered(t + skew)} :
                    delivery' = [delivery EXCEPT ![r] = row]
             /\ lastOp' = [lastOp EXCEPT ![r] = t]
    <3>1. PICK skew \in 0..ImportSkew :
            \E row \in {EnqueuedRow(t + skew), ImportedDelivered(t + skew)} :
              delivery' = [delivery EXCEPT ![r] = row]
      BY <2>4, Zenon
    <3>2. PICK row \in {EnqueuedRow(t + skew), ImportedDelivered(t + skew)} :
            delivery' = [delivery EXCEPT ![r] = row]
      BY <3>1, Zenon
    <3>3. t + skew \in Nat /\ t <= t + skew
      BY <1>2, DeliveryAssumption
    <3>4. RowInv(row, {}, t, now)
      BY <1>2, <3>3, InsertedRowInv, Zenon
    <3>5. QED
      BY <2>1, <2>4, <3>2, <3>4, Zenon
  <2>5. QED
    BY <1>3, <2>2, <2>3, <2>4, Zenon
<1>6. row \in DeliveryRow
  BY <1>5, Zenon DEF RowInv
<1>7. /\ delivery'[r] = row
      /\ \A q \in Rows \ {r} : delivery'[q] = delivery[q] /\ lastOp'[q] = lastOp[q]
  BY <1>2, <1>5, Zenon DEF TableTypes
<1>8. RowInv(row, issued[r], lastOp'[r], now)
  BY <1>2, <1>5, Zenon DEF TableTypes
<1>9. \A q \in Rows : RowInv(delivery[q], issued[q], lastOp[q], now)'
  BY <1>2, <1>3, <1>7, <1>8, Zenon
<1>10. TableTypes'
  BY <1>2, <1>3, <1>5, <1>6, Zenon DEF TableTypes
<1>11. \A q \in Rows : issued[q] \subseteq issued'[q]
  BY <1>3, Zenon
<1>12. QED
  BY <1>1, <1>3, <1>9, <1>10, <1>11, CommitKeeps, Zenon

-------------------------------------------------------------------------------
(* The theorems.                                                           *)

LEMMA InitInv ==
  ASSUME Init
  PROVE  IInv
<1>1. AbsentRow \in DeliveryRow /\ NoCall \in Calls /\ 0 \in 0..MaxTime
      /\ 0 \in 0..Retries /\ 0 \in 0..Timeout
  BY AbsentRowInv, DeliveryAssumption, SqliteAssumption DEF RowInv, NoCall, Calls
<1>2. TableTypes
  BY <1>1, Zenon DEF Init, TableTypes
<1>3. SessionTypes
  BY <1>1, Zenon DEF Init, SessionTypes, Places
<1>4. OneWriter /\ \A s \in Sessions : FreshTime(s) /\ SessionInv(s)
  BY SqliteAssumption DEF Init, OneWriter, FreshTime, SessionInv
<1>5. \A r \in Rows : RowInv(delivery[r], issued[r], lastOp[r], now)
  BY AbsentRowInv, Zenon DEF Init
<1>6. QED
  BY <1>2, <1>3, <1>4, <1>5, IInvParts, Zenon

\* Every step of a session, a pager or the clock keeps IInv.
LEMMA NextInv ==
  ASSUME IInv, [Next]_vars
  PROVE  IInv'
<1>1. ASSUME NEW s \in Sessions, StartClaim(s) \/ StartMutation(s) \/ StartWrite(s) PROVE IInv'
  BY <1>1, StartStep, Zenon
<1>2. ASSUME NEW s \in Sessions, Continue(s) PROVE IInv'
  BY <1>2, BeginStep, GiveUpStep, ReadClockStep, ExecuteClaimStep, ExecuteMutationStep,
     CommitClaimStep, CommitMutationStep, CommitWriteStep, Zenon DEF Continue
<1>3. ASSUME NEW s \in Sessions, CallerWork(s) \/ CallerCommit(s) \/ Abort(s) PROVE IInv'
  BY <1>3, CallerWorkStep, CallerCommitStep, GiveUpStep, Zenon
<1>4. CASE UNCHANGED vars
  <2>1. /\ UNCHANGED <<now, delivery, issued, lastOp>>
        /\ UNCHANGED <<writer, reading, pc, call, opTime, batch, tries, left, waited>>
    BY <1>4, Zenon DEF vars, tables
  <2>2. /\ TableTypes /\ SessionTypes /\ OneWriter
        /\ \A u \in Sessions : FreshTime(u) /\ SessionInv(u)
        /\ \A r \in Rows : RowInv(delivery[r], issued[r], lastOp[r], now)
    BY IInvParts, Zenon
  <2>3. TableTypes' /\ SessionTypes' /\ OneWriter'
    BY <2>1, <2>2, Zenon DEF TableTypes, SessionTypes, OneWriter
  <2>4. now \in Nat /\ \A u \in Sessions : opTime[u] \in Nat
    BY <2>2, DeliveryAssumption DEF TableTypes, SessionTypes
  <2>5. \A u \in Sessions : SessionInv(u)'
    BY <2>1, <2>2, <2>4, SessionKept
  <2>6. \A u \in Sessions : FreshTime(u)'
    BY <2>1, <2>2, Zenon DEF FreshTime
  <2>7. QED
    BY <2>1, <2>2, <2>3, <2>5, <2>6, IInvPartsNext, Zenon
<1>5. QED
  BY <1>1, <1>2, <1>3, <1>4, TickStep, SnapshotStep, Zenon DEF Next

\* The invariant of the SQLite adapter: one session is past BEGIN IMMEDIATE, what
\* it has read still holds, and the rows are well formed.
THEOREM SqliteInductive == Spec => []IInv
<1>1. Init => IInv
  BY InitInv, Zenon
<1>2. IInv /\ [Next]_vars => IInv'
  BY NextInv, Zenon
<1>3. QED
  BY <1>1, <1>2, PTL DEF Spec

\* database_time, read under the reservation, is never older than a change another
\* operation has committed.
THEOREM SqliteTimeFresh == Spec => []OpTimeFresh
<1>1. IInv => OpTimeFresh
  BY Zenon DEF IInv
<1>2. QED
  BY <1>1, SqliteInductive, PTL

\* Every other step of a session leaves the tables alone.
LEMMA TablesKept ==
  ASSUME NEW s \in Sessions,
         \/ StartClaim(s) \/ StartMutation(s) \/ StartWrite(s)
         \/ BeginImmediate(s) \/ BeginBusy(s) \/ ReadClock(s)
         \/ ExecuteClaim(s) \/ ExecuteMutation(s) \/ CommitBusy(s)
         \/ CallerWork(s) \/ CallerCommit(s) \/ Abort(s)
  PROVE  UNCHANGED tables
BY Zenon DEF StartClaim, StartMutation, StartWrite, Start, BeginImmediate, BeginBusy, ReadClock,
       ExecuteClaim, ExecuteMutation, CommitBusy, CallerWork, CallerCommit, Abort

\* A committed claim is one atomic claim of the contract, or nothing if it found
\* no candidates.
LEMMA ClaimRefines ==
  ASSUME IInv, NEW s \in Sessions, CommitClaim(s)
  PROVE  [Lifecycle!Next]_(Lifecycle!vars)
<1> DEFINE S == batch[s]
           t == opTime[s]
           lease == call[s].arg
           scope == call[s].scope
<1>1. pc[s] = "commit" /\ call[s].op = "claim" /\ UNCHANGED now
  BY Zenon DEF CommitClaim
<1>2. TableTypes /\ SessionTypes /\ CallInv(s) /\ WorkInv(s) /\ t \in 0..now
  BY <1>1, AtCommit, Zenon
<1>3. PICK token \in [S -> Tokens] :
        /\ \A r \in S : token[r] \notin issued[r]
        /\ \A r1, r2 \in S : r1 # r2 => token[r1] # token[r2]
        /\ delivery' = [r \in Rows |-> IF r \in S THEN ClaimedRow(delivery[r], token[r], t + lease)
                                                   ELSE delivery[r]]
        /\ issued' = [r \in Rows |-> IF r \in S THEN issued[r] \union {token[r]} ELSE issued[r]]
        /\ lastOp' = [r \in Rows |-> IF r \in S THEN t ELSE lastOp[r]]
  BY Zenon DEF CommitClaim
<1>4. lease \in Leases /\ scope \in Scopes /\ S \in SUBSET Rows
  BY <1>1, <1>2, DeliveryAssumption, Zenon DEF CallInv, CallerOps, MutationKind, SessionTypes
<1>5. \A r \in S : /\ InScope(scope, r) /\ Eligible(delivery[r], t)
                   /\ delivery[r].attempts < MaxAttempts
  BY <1>1, <1>2, Zenon DEF WorkInv, Candidates
<1>6. CASE S = {}
  <2>1. /\ \A r \in Rows : delivery'[r] = delivery[r] /\ issued'[r] = issued[r] /\ lastOp'[r] = lastOp[r]
        /\ delivery' = [r \in Rows |-> delivery'[r]] /\ issued' = [r \in Rows |-> issued'[r]]
        /\ lastOp' = [r \in Rows |-> lastOp'[r]]
    BY <1>3, <1>6, Zenon
  <2>2. delivery' = delivery /\ issued' = issued /\ lastOp' = lastOp
    BY <1>2, <2>1, Zenon DEF TableTypes
  <2>3. QED
    BY <1>1, <2>2, Zenon DEF Lifecycle!vars
<1>7. CASE S # {}
  <2>1. Lifecycle!Claim(scope, S, token, t, lease)
    BY <1>1, <1>3, <1>5, Zenon
       DEF Lifecycle!Claim, Lifecycle!InScope, InScope, Lifecycle!Eligible, Eligible,
           Lifecycle!ClaimedRow, ClaimedRow
  <2> HIDE DEF S, t, lease, scope
  <2>2. Lifecycle!ClaimSome
    BY <1>2, <1>3, <1>4, <1>7, <2>1, Zenon DEF Lifecycle!ClaimSome
  <2>3. QED
    BY <2>2, Zenon DEF Lifecycle!Next
<1>8. QED
  BY <1>6, <1>7, Zenon

\* A committed mutation is one fenced mutation of the contract.
LEMMA MutationRefines ==
  ASSUME IInv, NEW s \in Sessions, CommitMutation(s)
  PROVE  Lifecycle!Next
<1> DEFINE c == call[s]
           t == opTime[s]
<1>1. pc[s] = "commit" /\ c.op \in Kinds /\ UNCHANGED <<now, issued>>
  BY Zenon DEF CommitMutation
<1>2. /\ CallInv(s) /\ WorkInv(s) /\ t \in 0..now /\ \A q \in Rows : lastOp[q] <= t
  BY <1>1, AtCommit, Zenon
<1>3. /\ c.row \in Rows /\ c.scope \in Scopes /\ c.token \in issued[c.row]
      /\ c.arg \in MutationArgs(c.op)
  BY <1>1, <1>2, DeliveryAssumption, Zenon DEF CallInv, CallerOps, MutationKind
<1>4. InScope(c.scope, c.row) /\ Fenced(delivery[c.row], c.token, t)
  BY <1>1, <1>2, Zenon DEF WorkInv
<1>5. /\ delivery' = [delivery EXCEPT ![c.row] = MutatedRow(c.op, @, t, c.arg)]
      /\ lastOp' = [lastOp EXCEPT ![c.row] = t]
  BY Zenon DEF CommitMutation
<1>6. Lifecycle!Mutate(c.scope, c.op, c.row, c.token, t, c.arg)
  BY <1>1, <1>2, <1>3, <1>4, <1>5, Zenon
     DEF Lifecycle!Mutate, Lifecycle!InScope, InScope, Lifecycle!Fenced, Fenced,
         Lifecycle!MutatedRow, MutatedRow, Lifecycle!Unclaimed, Unclaimed,
         Lifecycle!NullTime, NullTime
<1>7. c.arg \in Lifecycle!MutationArgs(c.op)
  BY <1>3, Zenon DEF Lifecycle!MutationArgs, MutationArgs
<1> HIDE DEF c, t
<1>8. Lifecycle!MutateSome
  BY <1>1, <1>2, <1>3, <1>6, <1>7, Zenon DEF Lifecycle!MutateSome
<1>9. QED
  BY <1>8, Zenon DEF Lifecycle!Next

\* A caller's committed transaction is an enqueue, an import or a finalisation.
LEMMA WriteRefines ==
  ASSUME IInv, NEW s \in Sessions, CommitWrite(s)
  PROVE  Lifecycle!Next
<1>1. PICK r \in Rows, t \in 0..now :
        /\ UNCHANGED <<now, issued>>
        /\ \/ /\ CanonicalPending(delivery[r])
              /\ delivery' = [delivery EXCEPT ![r] = FinalizedRow(delivery[r])]
              /\ UNCHANGED lastOp
           \/ /\ delivery[r].state = "absent"
              /\ delivery' = [delivery EXCEPT ![r] = EnqueuedRow(t)]
              /\ lastOp' = [lastOp EXCEPT ![r] = t]
           \/ /\ delivery[r].state = "absent"
              /\ \E skew \in 0..ImportSkew :
                   \E row \in {EnqueuedRow(t + skew), ImportedDelivered(t + skew)} :
                     delivery' = [delivery EXCEPT ![r] = row]
              /\ lastOp' = [lastOp EXCEPT ![r] = t]
  BY WriteCases, Zenon
<1>2. ASSUME NEW a
      PROVE  /\ Lifecycle!EnqueuedRow(a) = EnqueuedRow(a)
             /\ Lifecycle!ImportedDelivered(a) = ImportedDelivered(a)
  BY Zenon DEF Lifecycle!EnqueuedRow, EnqueuedRow, Lifecycle!ImportedDelivered, ImportedDelivered,
         Lifecycle!AbsentRow, AbsentRow, Lifecycle!NullTime, NullTime
<1>3. CASE /\ CanonicalPending(delivery[r])
           /\ delivery' = [delivery EXCEPT ![r] = FinalizedRow(delivery[r])]
           /\ UNCHANGED lastOp
  <2>1. Lifecycle!Finalize(r)
    BY <1>1, <1>3, Zenon
       DEF Lifecycle!Finalize, Lifecycle!CanonicalPending, CanonicalPending,
           Lifecycle!Canonical, Canonical, Lifecycle!NullTime, NullTime,
           Lifecycle!FinalizedRow, FinalizedRow
  <2>2. QED
    BY <2>1, Zenon DEF Lifecycle!Next
<1>4. CASE /\ delivery[r].state = "absent"
           /\ delivery' = [delivery EXCEPT ![r] = EnqueuedRow(t)]
           /\ lastOp' = [lastOp EXCEPT ![r] = t]
  <2>1. Lifecycle!Enqueue(r)
    BY <1>1, <1>2, <1>4, Zenon DEF Lifecycle!Enqueue, Lifecycle!Insert
  <2>2. QED
    BY <2>1, Zenon DEF Lifecycle!Next
<1>5. CASE /\ delivery[r].state = "absent"
           /\ \E skew \in 0..ImportSkew :
                \E row \in {EnqueuedRow(t + skew), ImportedDelivered(t + skew)} :
                  delivery' = [delivery EXCEPT ![r] = row]
           /\ lastOp' = [lastOp EXCEPT ![r] = t]
  <2>1. PICK skew \in 0..ImportSkew :
          \E row \in {EnqueuedRow(t + skew), ImportedDelivered(t + skew)} :
            delivery' = [delivery EXCEPT ![r] = row]
    BY <1>5, Zenon
  <2>2. PICK row \in {EnqueuedRow(t + skew), ImportedDelivered(t + skew)} :
          delivery' = [delivery EXCEPT ![r] = row]
    BY <2>1, Zenon
  <2>3. /\ Lifecycle!Insert(r, t, row)
        /\ row \in {Lifecycle!EnqueuedRow(t + skew), Lifecycle!ImportedDelivered(t + skew)}
    BY <1>1, <1>2, <1>5, <2>2, Zenon DEF Lifecycle!Insert
  <2>4. Lifecycle!Import(r)
    BY <2>3, Zenon DEF Lifecycle!Import
  <2>5. QED
    BY <2>4, Zenon DEF Lifecycle!Next
<1>6. QED
  BY <1>1, <1>3, <1>4, <1>5, Zenon

\* The SQLite adapter implements the delivery lifecycle, whatever busy retries,
\* aborted attempts and open readers there are around its transactions.
THEOREM SqliteImplementsLifecycle == Spec => LifecycleRefined
<1>1. Init => Lifecycle!Init
  BY Zenon DEF Init, Lifecycle!Init, Lifecycle!AbsentRow, AbsentRow, Lifecycle!NullTime, NullTime
<1>2. IInv /\ [Next]_vars => [Lifecycle!Next]_(Lifecycle!vars)
  <2> SUFFICES ASSUME IInv, [Next]_vars PROVE [Lifecycle!Next]_(Lifecycle!vars)
    BY Zenon
  <2>1. ASSUME UNCHANGED tables PROVE UNCHANGED Lifecycle!vars
    BY <2>1, Zenon DEF tables, Lifecycle!vars
  <2>2. CASE Tick
    BY <2>2, Zenon DEF Tick, Lifecycle!Tick, Lifecycle!Next, Lifecycle!vars
  <2>3. ASSUME NEW s \in Sessions, CommitClaim(s) \/ CommitMutation(s) \/ CommitWrite(s)
        PROVE  [Lifecycle!Next]_(Lifecycle!vars)
    BY <2>3, ClaimRefines, MutationRefines, WriteRefines, Zenon
  <2>4. ASSUME NEW s \in Sessions,
               \/ StartClaim(s) \/ StartMutation(s) \/ StartWrite(s)
               \/ BeginImmediate(s) \/ BeginBusy(s) \/ ReadClock(s)
               \/ ExecuteClaim(s) \/ ExecuteMutation(s) \/ CommitBusy(s)
               \/ CallerWork(s) \/ CallerCommit(s) \/ Abort(s)
        PROVE  UNCHANGED Lifecycle!vars
    BY <2>1, <2>4, TablesKept, Zenon
  <2>5. ASSUME NEW p \in Readers, OpenSnapshot(p) \/ CloseSnapshot(p)
        PROVE  UNCHANGED Lifecycle!vars
    BY <2>1, <2>5, Zenon DEF OpenSnapshot, CloseSnapshot
  <2>6. CASE UNCHANGED vars
    BY <2>1, <2>6, Zenon DEF vars
  <2>7. QED
    BY <2>2, <2>3, <2>4, <2>5, <2>6, Zenon DEF Next, Continue
<1>3. QED
  BY <1>1, <1>2, SqliteInductive, PTL DEF Spec, LifecycleRefined, Lifecycle!Spec

\* The steps that change a delivery: a commit, of the session with the reservation.
LEMMA WritesAreCommits ==
  ASSUME IInv, [Next]_vars, delivery' # delivery
  PROVE  \E s \in Sessions :
           /\ pc[s] = "commit" /\ OthersUntouched(s)
           /\ \A u \in Sessions : pc[u] = "commit" => u = s
           /\ CommitClaim(s) \/ CommitMutation(s) \/ CommitWrite(s)
<1>1. PICK s \in Sessions : CommitClaim(s) \/ CommitMutation(s) \/ CommitWrite(s)
  <2>1. UNCHANGED tables => delivery' = delivery
    BY Zenon DEF tables
  <2>2. ~Tick /\ ~UNCHANGED vars
    BY <2>1, Zenon DEF Tick, vars
  <2>3. ~\E p \in Readers : OpenSnapshot(p) \/ CloseSnapshot(p)
    BY <2>1, Zenon DEF OpenSnapshot, CloseSnapshot
  <2>4. QED
    BY <2>1, <2>2, <2>3, TablesKept, Zenon DEF Next, Continue
<1>2. pc[s] = "commit" /\ \E a : End(s, a)
  BY <1>1, Zenon DEF CommitClaim, CommitMutation, CommitWrite
<1>3. SessionTypes /\ OneWriter /\ now \in Nat
  BY IInvParts, DeliveryAssumption DEF TableTypes
<1>4. OthersUntouched(s)
  BY <1>2, <1>3, EndSession, Zenon
<1>5. \A u \in Sessions : pc[u] = "commit" => u = s
  BY <1>2, <1>3, Zenon DEF OneWriter
<1>6. QED
  BY <1>1, <1>2, <1>4, <1>5, Zenon

LEMMA StepScoped ==
  ASSUME IInv, [Next]_vars
  PROVE  ScopedWritesStep
<1> SUFFICES ASSUME NEW u \in Sessions, pc[u] # "idle", pc'[u] = "idle",
                    NEW r \in Rows, delivery'[r] # delivery[r]
             PROVE  InScope(call[u].scope, r)
  BY Zenon DEF ScopedWritesStep
<1>1. PICK s \in Sessions :
        /\ pc[s] = "commit" /\ OthersUntouched(s)
        /\ CommitClaim(s) \/ CommitMutation(s) \/ CommitWrite(s)
  BY WritesAreCommits, Zenon
<1>2. u = s
  BY <1>1, Zenon DEF OthersUntouched
<1>3. TableTypes /\ CallInv(s) /\ WorkInv(s)
  BY <1>1, AtCommit, Zenon
<1>4. CASE CommitClaim(s)
  <2>1. r \in batch[s] /\ call[s].op = "claim"
    BY <1>4, Zenon DEF CommitClaim
  <2>2. QED
    BY <1>1, <1>2, <1>3, <2>1, Zenon DEF WorkInv, Candidates
<1>5. CASE CommitMutation(s)
  <2>1. r = call[s].row /\ call[s].op \in Kinds
    BY <1>3, <1>5, Zenon DEF CommitMutation, TableTypes
  <2>2. QED
    BY <1>1, <1>2, <1>3, <2>1, Zenon DEF WorkInv
<1>6. CASE CommitWrite(s)
  <2>1. call[s].op \in CallerOps
    BY <1>6, Zenon DEF CommitWrite
  <2>2. r = call[s].row
    <3>1. call[s].op = "finalize" => \E row : delivery' = [delivery EXCEPT ![call[s].row] = row]
      BY <1>6, Zenon DEF CommitWrite
    <3>2. call[s].op = "enqueue" => \E row : delivery' = [delivery EXCEPT ![call[s].row] = row]
      BY <1>6, Zenon DEF CommitWrite
    <3>3. call[s].op = "import" => \E row : delivery' = [delivery EXCEPT ![call[s].row] = row]
      BY <1>6, Zenon DEF CommitWrite
    <3>4. QED
      BY <1>3, <2>1, <3>1, <3>2, <3>3, Zenon DEF TableTypes, CallerOps
  <2>3. call[s].scope = TenantOf[r]
    BY <1>3, <2>1, <2>2, DeliveryAssumption, Zenon DEF CallInv, CallerOps, MutationKind
  <2>4. QED
    BY <1>2, <2>3, Zenon DEF InScope
<1>7. QED
  BY <1>1, <1>4, <1>5, <1>6, Zenon

\* A tenant's claim, mutation or write changes rows of that tenant only.
THEOREM SqliteScopedWrites == Spec => ScopedWrites
<1>1. IInv /\ [Next]_vars => [ScopedWritesStep]_vars
  BY StepScoped, Zenon
<1>2. QED
  BY <1>1, SqliteInductive, PTL DEF Spec, ScopedWrites

\* With a candidate, every older eligible row of the scope is a candidate.
LEMMA OlderIsCandidate ==
  ASSUME NEW s \in Sessions, NEW r \in Candidates(s), NEW q \in Rows, q < r,
         InScope(call[s].scope, q), Eligible(delivery[q], opTime[s]), call[s].limit \in Nat
  PROVE  q \in Candidates(s)
<1> DEFINE E == {p \in Rows : InScope(call[s].scope, p) /\ Eligible(delivery[p], opTime[s])}
           Older(x) == {p \in E : p < x}
<1>1. r \in Rows /\ q \in E /\ Cardinality(Older(r)) < call[s].limit
  BY Zenon DEF Candidates
<1>2. Rows \subseteq Nat
  BY DeliveryAssumption, Zenon
<1>3. Older(r) \subseteq 0..r /\ Older(q) \subseteq Older(r)
  <2>1. r \in Nat /\ q \in Nat
    BY <1>1, <1>2, Zenon
  <2>2. \A p \in Nat : (p < r => p \in 0..r) /\ (p < q => p < r)
    BY <2>1
  <2>3. QED
    BY <1>2, <2>2, Zenon
<1> HIDE DEF E
<1>4. IsFiniteSet(0..r)
  BY <1>1, <1>2, FS_Interval
<1>5. IsFiniteSet(Older(r))
  BY <1>3, <1>4, FS_Subset, Zenon
<1>6. /\ IsFiniteSet(Older(q)) /\ Cardinality(Older(q)) <= Cardinality(Older(r))
      /\ Cardinality(Older(q)) \in Nat /\ Cardinality(Older(r)) \in Nat
  BY <1>3, <1>5, FS_Subset, FS_CardinalityType, Zenon
<1>7. Cardinality(Older(q)) < call[s].limit
  BY <1>1, <1>6
<1>8. QED
  BY <1>1, <1>7, Zenon DEF Candidates, E

LEMMA StepOldest ==
  ASSUME IInv, [Next]_vars
  PROVE  OldestFirstStep
<1> SUFFICES ASSUME NEW u \in Sessions, pc[u] = "commit", call[u].op = "claim",
                    NEW r \in Rows, NEW q \in Rows, InScope(call[u].scope, q),
                    Eligible(delivery[q], opTime[u]), q < r,
                    delivery'[r].attempts > delivery[r].attempts
             PROVE  delivery'[q].attempts > delivery[q].attempts
  BY Zenon DEF OldestFirstStep
<1>1. TableTypes /\ SessionTypes /\ WorkInv(u)
  BY AtCommit, Zenon
<1>2. \A x \in Rows : delivery[x] \in DeliveryRow /\ delivery[x].attempts \in Nat
  BY <1>1, DeliveryAssumption DEF TableTypes, DeliveryRow
<1>3. delivery' # delivery
  BY <1>2
<1>4. CommitClaim(u) \/ CommitMutation(u) \/ CommitWrite(u)
  BY <1>3, WritesAreCommits, Zenon
<1>5. CommitClaim(u)
  BY <1>4, DeliveryAssumption, Zenon DEF CommitMutation, CommitWrite, CallerOps, MutationKind
<1>6. PICK token : delivery' = [x \in Rows |->
                     IF x \in batch[u] THEN ClaimedRow(delivery[x], token[x], opTime[u] + call[u].arg)
                                        ELSE delivery[x]]
  BY <1>5, Zenon DEF CommitClaim
<1>7. r \in batch[u]
  BY <1>2, <1>6
<1>8. q \in batch[u]
  <2>1. batch[u] = Candidates(u) /\ call[u].limit \in Nat
    BY <1>1, Zenon DEF WorkInv, SessionTypes, Calls
  <2>2. QED
    BY <1>7, <2>1, OlderIsCandidate, Zenon
<1>9. delivery'[q].attempts = delivery[q].attempts + 1
  BY <1>2, <1>6, <1>8, Zenon DEF ClaimedRow, DeliveryRow
<1>10. QED
  BY <1>2, <1>9

\* A committed claim of claim_once leaves no older eligible row of its scope.
THEOREM SqliteOldestFirst == Spec => OldestFirst
<1>1. IInv /\ [Next]_vars => [OldestFirstStep]_vars
  BY StepOldest, Zenon
<1>2. QED
  BY <1>1, SqliteInductive, PTL DEF Spec, OldestFirst

-------------------------------------------------------------------------------
(* Time spent blocked.                                                     *)

\* The time a call has spent blocked and may still spend on the lock it waits for:
\* a timeout for each BEGIN so far and one for each COMMIT.
WaitInv(s) ==
  LET failed == IF call[s].op \in CallerOps THEN tries[s] ELSE 2 * tries[s]
  IN  /\ pc[s] = "idle" => waited[s] = 0 /\ tries[s] = 0
      /\ pc[s] = "begin" => waited[s] + left[s] <= (failed + 1) * Timeout
      /\ pc[s] \in {"clock", "work", "caller", "written"} =>
           waited[s] <= (failed + 1) * Timeout
      /\ pc[s] = "commit" => waited[s] + left[s] <= (failed + 2) * Timeout

LEMMA Products ==
  ASSUME NEW m \in Nat, NEW n \in Nat, NEW T \in Nat
  PROVE  /\ m * T \in Nat /\ (m + 1) * T = m * T + T /\ (m + 2) * T = m * T + T + T
         /\ (m + 3) * T = m * T + T + T + T
         /\ m <= n => m * T <= n * T
OBVIOUS

\* The BEGINs and COMMITs of a call that have failed busy so far.
Failed(s) == IF call[s].op \in CallerOps THEN tries[s] ELSE 2 * tries[s]

LEMMA WaitParts ==
  ASSUME SessionTypes, NEW s \in Sessions
  PROVE  /\ Failed(s) \in Nat /\ left[s] \in Nat /\ waited[s] \in Nat /\ Timeout \in Nat
         /\ WaitInv(s) <=>
              /\ pc[s] = "idle" => waited[s] = 0 /\ tries[s] = 0
              /\ pc[s] = "begin" => waited[s] + left[s] <= Failed(s) * Timeout + Timeout
              /\ pc[s] \in {"clock", "work", "caller", "written"} =>
                   waited[s] <= Failed(s) * Timeout + Timeout
              /\ pc[s] = "commit" => waited[s] + left[s] <= Failed(s) * Timeout + Timeout + Timeout
<1>1. tries[s] \in Nat /\ left[s] \in Nat /\ waited[s] \in Nat /\ Timeout \in Nat
  BY SqliteAssumption DEF SessionTypes
<1>2. Failed(s) \in Nat
  BY <1>1 DEF Failed
<1>3. /\ (Failed(s) + 1) * Timeout = Failed(s) * Timeout + Timeout
      /\ (Failed(s) + 2) * Timeout = Failed(s) * Timeout + Timeout + Timeout
  BY <1>1, <1>2, Products, Zenon
<1>4. QED
  BY <1>1, <1>2, <1>3, Zenon DEF WaitInv, Failed

\* The same of the next state.
LEMMA WaitPartsNext ==
  ASSUME SessionTypes', NEW s \in Sessions, NEW F \in Nat, F = Failed(s)',
         pc'[s] = "idle" => waited'[s] = 0 /\ tries'[s] = 0,
         pc'[s] = "begin" => waited'[s] + left'[s] <= F * Timeout + Timeout,
         pc'[s] \in {"clock", "work", "caller", "written"} => waited'[s] <= F * Timeout + Timeout,
         pc'[s] = "commit" => waited'[s] + left'[s] <= F * Timeout + Timeout + Timeout
  PROVE  WaitInv(s)'
<1>1. (F + 1) * Timeout = F * Timeout + Timeout /\ (F + 2) * Timeout = F * Timeout + Timeout + Timeout
  BY SqliteAssumption, Products
<1>2. QED
  BY <1>1, Zenon DEF WaitInv, Failed

\* Nothing is owed by a session that has returned or has not moved.
LEMMA WaitKept ==
  ASSUME NEW u \in Sessions, WaitInv(u), pc'[u] = pc[u], call'[u] = call[u],
         tries'[u] = tries[u], left'[u] = left[u], waited'[u] = waited[u]
  PROVE  WaitInv(u)'
BY Zenon DEF WaitInv

LEMMA WaitEnd ==
  ASSUME SessionTypes, NEW s \in Sessions, NEW outcome, End(s, outcome)
  PROVE  WaitInv(s)'
BY Zenon DEF SessionTypes, End, WaitInv

\* A busy handler gave up: the retry has one more timeout to spend, on BEGIN, and
\* the failed attempt has used up its own.
LEMMA WaitBusyAgain ==
  ASSUME IInv, IInv', NEW s \in Sessions, WaitInv(s), BusyAgain(s), left[s] = 0,
         pc[s] = "begin" \/ (pc[s] = "commit" /\ call[s].op \notin CallerOps)
  PROVE  WaitInv(s)'
<1>1. SessionTypes /\ SessionTypes'
  BY IInvParts, Zenon DEF IInv, TypeOK, SessionTypes, Places
<1>2. CASE ~(tries[s] < Retries)
  BY <1>1, <1>2, WaitEnd, Zenon DEF BusyAgain
<1>3. CASE tries[s] < Retries
  <2> DEFINE F == IF call[s].op \in CallerOps THEN Failed(s) + 1 ELSE Failed(s) + 2
  <2>1. /\ pc'[s] = "begin" /\ left'[s] = Timeout /\ waited'[s] = waited[s]
        /\ tries'[s] = tries[s] + 1 /\ call' = call
    BY <1>1, <1>3 DEF BusyAgain, SessionTypes
  <2>2. Failed(s) \in Nat /\ waited[s] \in Nat /\ Timeout \in Nat /\ tries[s] \in Nat
    BY <1>1, WaitParts DEF SessionTypes
  <2>3. F = Failed(s)' /\ F \in Nat
    BY <2>1, <2>2 DEF Failed
  <2>4. /\ pc[s] = "begin" => waited[s] <= Failed(s) * Timeout + Timeout
        /\ pc[s] = "commit" => waited[s] <= Failed(s) * Timeout + Timeout + Timeout
    BY <1>1, <2>2, WaitParts
  <2>5. /\ (Failed(s) + 1) * Timeout = Failed(s) * Timeout + Timeout
        /\ (Failed(s) + 2) * Timeout = Failed(s) * Timeout + Timeout + Timeout
        /\ Failed(s) * Timeout \in Nat
    BY <2>2, Products
  <2>6. waited[s] + Timeout <= F * Timeout + Timeout
    <3>1. CASE call[s].op \in CallerOps
      BY <3>1, <2>2, <2>4, <2>5
    <3>2. CASE call[s].op \notin CallerOps
      BY <3>2, <2>2, <2>4, <2>5
    <3>3. QED
      BY <3>1, <3>2, Zenon
  <2> HIDE DEF F
  <2>7. QED
    BY <1>1, <2>1, <2>3, <2>6, WaitPartsNext, Zenon
<1>4. QED
  BY <1>2, <1>3, Zenon

\* A call that goes on within its attempt.
LEMMA WaitMove ==
  ASSUME IInv, IInv', NEW s \in Sessions, WaitInv(s), waited'[s] = waited[s], tries'[s] = tries[s],
         \/ /\ pc[s] = "idle" /\ pc'[s] = "begin" /\ left'[s] = Timeout
         \/ /\ pc[s] # "idle" /\ call'[s] = call[s]
            /\ \/ /\ pc[s] \in {"begin", "clock", "work", "caller", "written"}
                  /\ pc'[s] \in {"clock", "work", "caller", "written"}
               \/ /\ pc[s] \in {"clock", "work", "caller", "written"}
                  /\ pc'[s] = "commit" /\ left'[s] = Timeout
  PROVE  WaitInv(s)'
<1>1. SessionTypes /\ SessionTypes'
  BY IInvParts, Zenon DEF IInv, TypeOK, SessionTypes, Places
<1>2. Failed(s) \in Nat /\ waited[s] \in Nat /\ Timeout \in Nat /\ tries[s] \in Nat /\ left[s] \in Nat
  BY <1>1, WaitParts, SqliteAssumption DEF SessionTypes
<1>3. Failed(s) * Timeout \in Nat /\ 0 * Timeout = 0
  BY <1>2, Products
<1>4. CASE pc[s] = "idle"
  <2>1. waited'[s] = 0 /\ Failed(s)' = 0 /\ pc'[s] = "begin" /\ left'[s] = Timeout
    BY <1>1, <1>4, WaitParts DEF Failed
  <2>2. PICK F \in Nat : F = Failed(s)' /\ F * Timeout = 0
    BY <1>3, <2>1, Zenon
  <2>3. waited'[s] + left'[s] <= F * Timeout + Timeout
    BY <1>2, <2>1, <2>2
  <2>4. QED
    BY <1>1, <2>1, <2>2, <2>3, WaitPartsNext, Zenon
<1>5. CASE pc[s] # "idle"
  <2>1. PICK F \in Nat : F = Failed(s) /\ F = Failed(s)'
    BY <1>2, <1>5, Zenon DEF Failed
  <2>2. /\ pc[s] = "begin" => waited[s] + left[s] <= Failed(s) * Timeout + Timeout
        /\ pc[s] \in {"clock", "work", "caller", "written"} => waited[s] <= Failed(s) * Timeout + Timeout
    BY <1>1, WaitParts, Zenon
  <2>3. waited[s] <= Failed(s) * Timeout + Timeout
    BY <1>2, <1>3, <1>5, <2>2
  <2>4. F * Timeout \in Nat /\ waited[s] <= F * Timeout + Timeout
    BY <1>3, <2>1, <2>3, Zenon
  <2>5. /\ waited'[s] <= F * Timeout + Timeout
        /\ left'[s] = Timeout => waited'[s] + left'[s] <= F * Timeout + Timeout + Timeout
    BY <1>2, <2>4
  <2>6. QED
    BY <1>1, <1>5, <2>1, <2>5, WaitPartsNext, Zenon
<1>6. QED
  BY <1>4, <1>5, Zenon

\* A tick is charged only to a session that is blocked, hence waiting.
LEMMA WaitTick ==
  ASSUME IInv, IInv', NEW s \in Sessions, WaitInv(s), Tick
  PROVE  WaitInv(s)'
<1>1. SessionTypes /\ SessionTypes'
  BY IInvParts, Zenon DEF IInv, TypeOK, SessionTypes, Places
<1>2. /\ pc' = pc /\ call' = call /\ tries' = tries
      /\ Waiting(s) => left[s] > 0 /\ left'[s] = left[s] - 1
      /\ waited'[s] = IF Blocked(s) THEN waited[s] + 1 ELSE waited[s]
      /\ Blocked(s) => pc[s] \in {"begin", "commit"}
  BY Zenon DEF Tick, Blocked
<1>3. PICK F \in Nat : F = Failed(s) /\ F = Failed(s)'
  BY <1>1, <1>2, WaitParts, Zenon DEF Failed
<1>4. F * Timeout \in Nat /\ left[s] \in Nat /\ waited[s] \in Nat /\ Timeout \in Nat
  BY <1>1, WaitParts, Products, Zenon
<1>5. /\ pc[s] = "idle" => waited[s] = 0 /\ tries[s] = 0
      /\ pc[s] = "begin" => waited[s] + left[s] <= F * Timeout + Timeout
      /\ pc[s] \in {"clock", "work", "caller", "written"} => waited[s] <= F * Timeout + Timeout
      /\ pc[s] = "commit" => waited[s] + left[s] <= F * Timeout + Timeout + Timeout
  BY <1>1, <1>3, WaitParts, Zenon
<1>6. CASE pc[s] \in {"begin", "commit"}
  <2>1. waited'[s] + left'[s] <= waited[s] + left[s]
    BY <1>2, <1>4, <1>6 DEF Waiting
  <2>2. waited'[s] \in Nat /\ left'[s] \in Nat
    BY <1>1 DEF SessionTypes
  <2>3. /\ pc[s] = "begin" => waited'[s] + left'[s] <= F * Timeout + Timeout
        /\ pc[s] = "commit" => waited'[s] + left'[s] <= F * Timeout + Timeout + Timeout
    BY <1>4, <1>5, <2>1, <2>2
  <2>4. QED
    BY <1>1, <1>2, <1>3, <1>6, <2>3, WaitPartsNext, Zenon
<1>7. CASE pc[s] \notin {"begin", "commit"}
  <2>1. waited'[s] = waited[s]
    BY <1>2, <1>7, Zenon
  <2>2. QED
    BY <1>1, <1>2, <1>3, <1>5, <1>7, <2>1, WaitPartsNext, Zenon
<1>8. QED
  BY <1>6, <1>7, Zenon

\* The session that takes a step stays within its budget.
LEMMA WaitOwn ==
  ASSUME IInv, IInv', NEW s \in Sessions, WaitInv(s),
         \/ StartClaim(s) \/ StartMutation(s) \/ StartWrite(s)
         \/ Continue(s) \/ CallerWork(s) \/ CallerCommit(s) \/ Abort(s)
  PROVE  WaitInv(s)' /\ OthersUntouched(s)
<1>1. SessionTypes
  BY IInvParts, Zenon
<1> USE <1>1
<1>2. ASSUME NEW outcome, End(s, outcome) PROVE WaitInv(s)' /\ OthersUntouched(s)
  BY <1>2, WaitEnd, Zenon DEF End, SessionTypes, OthersUntouched
<1>3. ASSUME NEW c, Start(s, c) PROVE WaitInv(s)' /\ OthersUntouched(s)
  <2>1. /\ pc[s] = "idle" /\ pc'[s] = "begin" /\ left'[s] = Timeout
        /\ waited'[s] = waited[s] /\ tries'[s] = tries[s] /\ OthersUntouched(s)
    BY <1>3, Zenon DEF Start, SessionTypes, OthersUntouched
  <2>2. QED
    BY <2>1, WaitMove, Zenon
<1>4. ASSUME BusyAgain(s), left[s] = 0,
             pc[s] = "begin" \/ (pc[s] = "commit" /\ call[s].op \notin CallerOps)
      PROVE  WaitInv(s)' /\ OthersUntouched(s)
  <2>1. OthersUntouched(s)
    BY <1>4 DEF BusyAgain, End, SessionTypes, OthersUntouched
  <2>2. QED
    BY <1>4, <2>1, WaitBusyAgain, Zenon
<1>5. CASE StartClaim(s) \/ StartMutation(s) \/ StartWrite(s)
  BY <1>3, <1>5, Zenon DEF StartClaim, StartMutation, StartWrite
<1>6. CASE BeginImmediate(s)
  <2>1. /\ pc[s] = "begin" /\ pc'[s] \in {"clock", "caller"} /\ call'[s] = call[s]
        /\ waited'[s] = waited[s] /\ tries'[s] = tries[s] /\ OthersUntouched(s)
    BY <1>6, Zenon DEF BeginImmediate, SessionTypes, OthersUntouched
  <2>2. QED
    BY <2>1, WaitMove, Zenon
<1>7. CASE ReadClock(s)
  <2>1. /\ pc[s] = "clock" /\ pc'[s] = "work" /\ call'[s] = call[s]
        /\ waited'[s] = waited[s] /\ tries'[s] = tries[s] /\ OthersUntouched(s)
    BY <1>7, Zenon DEF ReadClock, SessionTypes, OthersUntouched
  <2>2. QED
    BY <2>1, WaitMove, Zenon
<1>8. ASSUME pc[s] \in {"work", "written"}, ToCommit(s), UNCHANGED <<call, opTime, tries, waited>>,
             \A u \in Sessions \ {s} : batch'[u] = batch[u]
      PROVE  WaitInv(s)' /\ OthersUntouched(s)
  <2>1. /\ pc'[s] = "commit" /\ left'[s] = Timeout /\ call'[s] = call[s]
        /\ waited'[s] = waited[s] /\ tries'[s] = tries[s] /\ OthersUntouched(s)
    BY <1>8, Zenon DEF ToCommit, SessionTypes, OthersUntouched
  <2>2. QED
    BY <1>8, <2>1, WaitMove, Zenon
<1>9. CASE ExecuteClaim(s)
  <2>1. CASE End(s, "CounterOverflow")
    BY <2>1, <1>2, Zenon
  <2>2. CASE ToCommit(s) /\ batch' = [batch EXCEPT ![s] = Candidates(s)]
             /\ UNCHANGED <<writer, reading, call, opTime, tries, waited>>
    <3>1. pc[s] = "work"
      BY <1>9, Zenon DEF ExecuteClaim
    <3>2. \A u \in Sessions \ {s} : batch'[u] = batch[u]
      BY <2>2, Zenon DEF SessionTypes
    <3>3. QED
      BY <2>2, <3>1, <3>2, <1>8, Zenon
  <2>3. QED
    BY <1>9, <2>1, <2>2, Zenon DEF ExecuteClaim
<1>10. CASE ExecuteMutation(s)
  BY <1>2, <1>8, <1>10, Zenon DEF ExecuteMutation
<1>11. CASE CallerWork(s)
  <2>1. CASE \E a : End(s, a)
    BY <2>1, <1>2, Zenon
  <2>2. CASE /\ pc[s] = "caller" /\ pc' = [pc EXCEPT ![s] = "written"]
             /\ opTime' = [opTime EXCEPT ![s] = OperationTime(s)]
             /\ UNCHANGED <<writer, reading, call, batch, tries, left, waited>>
    <3>1. /\ pc'[s] = "written" /\ call'[s] = call[s]
          /\ waited'[s] = waited[s] /\ tries'[s] = tries[s] /\ OthersUntouched(s)
      BY <2>2, Zenon DEF SessionTypes, OthersUntouched
    <3>2. QED
      BY <2>2, <3>1, WaitMove, Zenon
  <2>3. QED
    BY <1>11, <2>1, <2>2, Zenon DEF CallerWork
<1>12. CASE CallerCommit(s)
  BY <1>8, <1>12, Zenon DEF CallerCommit
<1>13. CASE CommitClaim(s) \/ CommitMutation(s) \/ CommitWrite(s) \/ Abort(s)
  BY <1>2, <1>13, Zenon DEF CommitClaim, CommitMutation, CommitWrite, Abort
<1>14. CASE BeginBusy(s)
  BY <1>4, <1>14, Zenon DEF BeginBusy
<1>15. CASE CommitBusy(s)
  BY <1>2, <1>4, <1>15, Zenon DEF CommitBusy
<1>16. QED
  BY <1>5, <1>6, <1>7, <1>9, <1>10, <1>11, <1>12, <1>13, <1>14, <1>15, Zenon DEF Continue

LEMMA WaitNext ==
  ASSUME IInv, IInv', [Next]_vars, \A s \in Sessions : WaitInv(s)
  PROVE  \A s \in Sessions : WaitInv(s)'
<1> SUFFICES ASSUME NEW u \in Sessions PROVE WaitInv(u)'
  BY Zenon
<1>1. ASSUME NEW s \in Sessions, WaitInv(s)' /\ OthersUntouched(s) PROVE WaitInv(u)'
  BY <1>1, WaitKept, Zenon DEF OthersUntouched
<1>2. CASE Tick
  BY <1>2, WaitTick, Zenon
<1>3. CASE \/ UNCHANGED vars
           \/ \E p \in Readers : OpenSnapshot(p) \/ CloseSnapshot(p)
  <2>1. UNCHANGED <<pc, call, tries, left, waited>>
    BY <1>3, Zenon DEF vars, OpenSnapshot, CloseSnapshot
  <2>2. QED
    BY <2>1, WaitKept, Zenon
<1>4. ASSUME NEW s \in Sessions,
             \/ StartClaim(s) \/ StartMutation(s) \/ StartWrite(s)
             \/ Continue(s) \/ CallerWork(s) \/ CallerCommit(s) \/ Abort(s)
      PROVE  WaitInv(u)'
  BY <1>1, <1>4, WaitOwn, Zenon
<1>5. QED
  BY <1>2, <1>3, <1>4, Zenon DEF Next

\* What is left of the budget when a call has failed busy as often as it may.
LEMMA WaitBounded ==
  ASSUME IInv, \A s \in Sessions : WaitInv(s)
  PROVE  WaitBound
<1> SUFFICES ASSUME NEW s \in Sessions
             PROVE  waited[s] <= IF call[s].op \in CallerOps THEN (Retries + 2) * Timeout
                                                              ELSE 2 * (Retries + 1) * Timeout
  BY Zenon DEF WaitBound
<1>1. SessionTypes
  BY IInvParts, Zenon
<1>2. /\ Failed(s) \in Nat /\ waited[s] \in Nat /\ left[s] \in Nat
      /\ Timeout \in Nat /\ Retries \in Nat /\ tries[s] \in 0..Retries
  BY <1>1, WaitParts, SqliteAssumption, Zenon DEF SessionTypes
<1>3. Failed(s) * Timeout \in Nat
  BY <1>2, Products, Zenon
<1>4. waited[s] <= Failed(s) * Timeout + Timeout + Timeout
  BY <1>1, <1>2, <1>3, WaitParts DEF SessionTypes, Places
<1>5. (Failed(s) + 2) * Timeout = Failed(s) * Timeout + Timeout + Timeout
  BY <1>2, Products
<1>6. PICK n \in Nat : n = Failed(s) + 2
  BY <1>2
<1>7. waited[s] <= n * Timeout
  BY <1>4, <1>5, <1>6, Zenon
<1>8. PICK m \in Nat : m = IF call[s].op \in CallerOps THEN Retries + 2 ELSE 2 * (Retries + 1)
  BY <1>2
<1>9. n <= m
  BY <1>2, <1>6, <1>8 DEF Failed
<1>10. n * Timeout <= m * Timeout /\ n * Timeout \in Nat /\ m * Timeout \in Nat
  BY <1>2, <1>9, Products, Zenon
<1>11. waited[s] <= m * Timeout
  BY <1>2, <1>7, <1>10
<1>12. QED
  BY <1>8, <1>11, Zenon

\* The busy handler's waits add up to one timeout per BEGIN IMMEDIATE and one per
\* COMMIT, for any number of retries and any timeout.
THEOREM SqliteWaitBound == Spec => []WaitBound
<1> DEFINE Within == \A s \in Sessions : WaitInv(s)
<1>1. Init => Within
  BY Zenon DEF Init, WaitInv
<1>2. IInv /\ IInv' /\ Within /\ [Next]_vars => Within'
  BY WaitNext, Zenon
<1>3. IInv /\ Within => WaitBound
  BY WaitBounded, Zenon
<1>4. QED
  BY <1>1, <1>2, <1>3, SqliteInductive, PTL DEF Spec

-------------------------------------------------------------------------------
(* SqliteTimestamp                                                         *)

(* An instant without its last digit, without its last two digits, and the *)
(* digits.                                                                 *)
TimeDigits == 0..(Base - 1)
Rest(n) == n \div Base
Rest2(n) == Rest(n) \div Base
D1(n) == Rest2(n) % Base
D2(n) == Rest(n) % Base
D3(n) == n % Base

(* A number is its leading part and its last digit.                        *)
LEMMA DivMod ==
    ASSUME NEW n \in Nat
    PROVE  Rest(n) \in Nat /\ n % Base \in TimeDigits /\ n = Rest(n) * Base + (n % Base)
BY TimestampAssumption DEF Rest, TimeDigits

(* Numbers are ordered by their leading parts, and by their last digits    *)
(* when these are the same.                                                *)
DivOrdered(m, n) ==
    /\ m <= n <=> Rest(m) < Rest(n) \/ (Rest(m) = Rest(n) /\ m % Base <= n % Base)
    /\ m < n <=> Rest(m) < Rest(n) \/ (Rest(m) = Rest(n) /\ m % Base < n % Base)
    /\ m = n <=> Rest(m) = Rest(n) /\ m % Base = n % Base

LEMMA DivOrder ==
    ASSUME NEW m \in Nat, NEW n \in Nat
    PROVE  DivOrdered(m, n)
<1> DEFINE x == Rest(m)
           y == Rest(n)
           d == m % Base
           e == n % Base
<1>1. /\ x \in Nat /\ y \in Nat /\ d \in 0..(Base - 1) /\ e \in 0..(Base - 1) /\ Base \in Nat
      /\ m = x * Base + d /\ n = y * Base + e
  BY DivMod, TimestampAssumption, Zenon DEF TimeDigits
<1> HIDE DEF x, y, d, e
<1>2. ASSUME NEW u \in Nat, NEW v \in Nat, u < v
      PROVE  u * Base + Base <= v * Base
  <2>1. v - (u + 1) \in Nat
    BY <1>2
  <2>2. (v - (u + 1)) * Base \in Nat /\ (v - (u + 1)) * Base = v * Base - (u * Base + Base)
    BY <1>1, <2>1
  <2> QED BY <1>1, <2>2
<1>3. x * Base \in Nat /\ y * Base \in Nat
  BY <1>1
<1>4. x < y => x * Base + Base <= y * Base
  BY <1>1, <1>2
<1>5. y < x => y * Base + Base <= x * Base
  BY <1>1, <1>2
<1>6. /\ m <= n <=> x < y \/ (x = y /\ d <= e)
      /\ m < n <=> x < y \/ (x = y /\ d < e)
      /\ m = n <=> x = y /\ d = e
  BY <1>1, <1>3, <1>4, <1>5
<1> QED BY <1>6, Zenon DEF DivOrdered, x, y, d, e

(* Adding to the leading part of a number whose last digit is zero.        *)
LEMMA DivShift ==
    ASSUME NEW m \in Nat, NEW n \in Nat, NEW j \in Nat, m % Base = 0
    PROVE  m + j * Base <= n <=> Rest(m) + j <= Rest(n)
<1> DEFINE x == Rest(m)
           y == Rest(n)
           e == n % Base
           k == m + j * Base
<1>1. x \in Nat /\ y \in Nat /\ e \in 0..(Base - 1) /\ Base \in Nat /\ Base > 0 /\ m = x * Base + 0
  <2>1. x \in Nat /\ y \in Nat /\ e \in TimeDigits /\ m = x * Base + 0
    BY DivMod, Zenon
  <2> QED BY <2>1, TimestampAssumption DEF TimeDigits
<1>2. k \in Nat /\ k = (x + j) * Base
  <2> HIDE DEF x
  <2> QED BY <1>1
<1>3. Rest(k) = x + j /\ k % Base = 0
  <2> HIDE DEF x, k
  <2>1. x + j \in Nat
    BY <1>1
  <2> QED BY <1>1, <1>2, <2>1 DEF Rest
<1>4. k <= n <=> Rest(k) < y \/ (Rest(k) = y /\ 0 <= e)
  <2> HIDE DEF k
  <2>1. DivOrdered(k, n)
    BY <1>2, DivOrder, Zenon
  <2> QED BY <1>3, <2>1, Zenon DEF DivOrdered
<1> HIDE DEF x, y, e, k
<1>5. k <= n <=> x + j <= y
  BY <1>1, <1>3, <1>4
<1> QED BY <1>5 DEF x, y, k

(* The second and the digits of an instant.                                *)
LEMMA InstantDigits ==
    ASSUME NEW n \in Nat
    PROVE  /\ SecondOf(n) \in Nat /\ Rest(n) \in Nat /\ Rest2(n) \in Nat
           /\ D1(n) \in TimeDigits /\ D2(n) \in TimeDigits /\ D3(n) \in TimeDigits
           /\ n = ((SecondOf(n) * Base + D1(n)) * Base + D2(n)) * Base + D3(n)
           /\ Fraction(n) = << D1(n) + 1, D2(n) + 1, D3(n) + 1 >>
<1>1. Rest(n) \in Nat /\ D3(n) \in TimeDigits /\ n = Rest(n) * Base + D3(n)
  BY DivMod, Zenon DEF D3
<1>2. Rest2(n) \in Nat /\ D2(n) \in TimeDigits /\ Rest(n) = Rest2(n) * Base + D2(n)
  BY <1>1, DivMod, Zenon DEF Rest2, Rest, D2
<1>3. SecondOf(n) \in Nat /\ D1(n) \in TimeDigits /\ Rest2(n) = SecondOf(n) * Base + D1(n)
  BY <1>2, DivMod, Zenon DEF SecondOf, Rest2, Rest, D1
<1>4. n = ((SecondOf(n) * Base + D1(n)) * Base + D2(n)) * Base + D3(n)
  BY <1>1, <1>2, <1>3, Zenon
<1>5. Fraction(n) = << D1(n) + 1, D2(n) + 1, D3(n) + 1 >>
  BY Zenon DEF Fraction, FractionDigit, D1, D2, D3, Rest, Rest2
<1> QED BY <1>1, <1>2, <1>3, <1>4, <1>5, Zenon

(* The text strftime writes, and the texts of import: all digits of the    *)
(* fraction, or the ones before its trailing zeros.                        *)
SqlText(s, a, b, c) == << s, 0, a + 1, b + 1, c + 1, 1, 1, 1, Base + 1 >>
Import0(s) == << s, Base + 1 >>
Import1(s, a) == << s, 0, a + 1, Base + 1 >>
Import2(s, a, b) == << s, 0, a + 1, b + 1, Base + 1 >>
Import3(s, a, b, c) == << s, 0, a + 1, b + 1, c + 1, Base + 1 >>

IsImport(x, s, a, b, c) ==
    \/ c # 0 /\ x = Import3(s, a, b, c)
    \/ c = 0 /\ b # 0 /\ x = Import2(s, a, b)
    \/ c = 0 /\ b = 0 /\ a # 0 /\ x = Import1(s, a)
    \/ c = 0 /\ b = 0 /\ a = 0 /\ x = Import0(s)

LEMMA Texts ==
    ASSUME NEW n \in Nat
    PROVE  /\ Strftime(n) = SqlText(SecondOf(n), D1(n), D2(n), D3(n))
           /\ IsImport(format_timestamp(n), SecondOf(n), D1(n), D2(n), D3(n))
<1> DEFINE f == Fraction(n)
<1>1. /\ D1(n) \in Int /\ D2(n) \in Int /\ D3(n) \in Int
      /\ f = << D1(n) + 1, D2(n) + 1, D3(n) + 1 >>
  BY InstantDigits, TimestampAssumption DEF TimeDigits
<1> HIDE DEF f
<1>2. f[1] = D1(n) + 1 /\ f[2] = D2(n) + 1 /\ f[3] = D3(n) + 1
  BY <1>1
<1>3. Zero = 1 /\ Point = 0 /\ Zulu = Base + 1
  BY TimestampAssumption DEF FractionDigit, Zero, Point, Zulu
<1>4. Strftime(n) = SqlText(SecondOf(n), D1(n), D2(n), D3(n))
  BY <1>2, <1>3, Zenon DEF Strftime, SqlText, f
<1>5. /\ f[3] = Zero <=> D3(n) = 0
      /\ f[2] = Zero <=> D2(n) = 0
      /\ f[1] = Zero <=> D1(n) = 0
  BY <1>1, <1>2, <1>3
<1>6. IsImport(format_timestamp(n), SecondOf(n), D1(n), D2(n), D3(n))
  BY <1>2, <1>3, <1>5 DEF format_timestamp, IsImport, Import0, Import1, Import2, Import3, f
<1> QED BY <1>4, <1>6, Zenon

(* The byte-wise order of the texts: the Z of a shorter one comes after    *)
(* whatever the text of strftime has in its place.                         *)
TextOrdered(s, a, b, c, t, d, e, f) ==
    /\ TextLeq(SqlText(s, a, b, c), SqlText(t, d, e, f)) <=>
         s < t \/ (s = t /\ a < d) \/ (s = t /\ a = d /\ b < e) \/ (s = t /\ a = d /\ b = e /\ c <= f)
    /\ TextLeq(Import3(s, a, b, c), SqlText(t, d, e, f)) <=>
         s < t \/ (s = t /\ a < d) \/ (s = t /\ a = d /\ b < e) \/ (s = t /\ a = d /\ b = e /\ c < f)
    /\ TextLeq(Import2(s, a, b), SqlText(t, d, e, f)) <=>
         s < t \/ (s = t /\ a < d) \/ (s = t /\ a = d /\ b < e)
    /\ TextLeq(Import1(s, a), SqlText(t, d, e, f)) <=> s < t \/ (s = t /\ a < d)
    /\ TextLeq(Import0(s), SqlText(t, d, e, f)) <=> s < t

LEMMA TextOrder ==
    ASSUME NEW s \in Int, NEW a \in Int, NEW b \in Int, NEW c \in Int,
           NEW t \in Int, NEW d \in Int, NEW e \in Int, NEW f \in Int,
           Base \in Int, Base > 1, e < Base, f < Base
    PROVE  TextOrdered(s, a, b, c, t, d, e, f)
<1>1. TextLeq(SqlText(s, a, b, c), SqlText(t, d, e, f)) <=>
                \/ s < t
                \/ s = t /\ a < d
                \/ s = t /\ a = d /\ b < e
                \/ s = t /\ a = d /\ b = e /\ c <= f
  BY DEF TextLeq, SqlText
<1>2. TextLeq(Import3(s, a, b, c), SqlText(t, d, e, f)) <=>
                \/ s < t
                \/ s = t /\ a < d
                \/ s = t /\ a = d /\ b < e
                \/ s = t /\ a = d /\ b = e /\ c < f
  BY DEF TextLeq, Import3, SqlText
<1>3. TextLeq(Import2(s, a, b), SqlText(t, d, e, f)) <=>
                \/ s < t
                \/ s = t /\ a < d
                \/ s = t /\ a = d /\ b < e
  BY DEF TextLeq, Import2, SqlText
<1>4. TextLeq(Import1(s, a), SqlText(t, d, e, f)) <=>
                \/ s < t
                \/ s = t /\ a < d
  BY DEF TextLeq, Import1, SqlText
<1>5. TextLeq(Import0(s), SqlText(t, d, e, f)) <=> s < t
  BY DEF TextLeq, Import0, SqlText
<1> QED BY <1>1, <1>2, <1>3, <1>4, <1>5, Zenon DEF TextOrdered

(* The order of texts and the order of instants, place by place.           *)
LEMMA Orders ==
    ASSUME NEW m \in Nat, NEW n \in Nat
    PROVE  /\ TextLeq(Strftime(m), Strftime(n)) <=> m <= n
           /\ TextLeq(Import3(SecondOf(m), D1(m), D2(m), D3(m)), Strftime(n)) <=> m < n
           /\ TextLeq(Import2(SecondOf(m), D1(m), D2(m)), Strftime(n)) <=> Rest(m) < Rest(n)
           /\ TextLeq(Import1(SecondOf(m), D1(m)), Strftime(n)) <=> Rest2(m) < Rest2(n)
           /\ TextLeq(Import0(SecondOf(m)), Strftime(n)) <=> SecondOf(m) < SecondOf(n)
<1>1. DivOrdered(m, n) /\ DivOrdered(Rest(m), Rest(n)) /\ DivOrdered(Rest2(m), Rest2(n))
  BY InstantDigits, DivOrder, Zenon
<1>2. /\ m <= n <=> Rest(m) < Rest(n) \/ (Rest(m) = Rest(n) /\ D3(m) <= D3(n))
      /\ m < n <=> Rest(m) < Rest(n) \/ (Rest(m) = Rest(n) /\ D3(m) < D3(n))
  BY <1>1, Zenon DEF DivOrdered, D3
<1>3. /\ Rest(m) < Rest(n) <=> Rest2(m) < Rest2(n) \/ (Rest2(m) = Rest2(n) /\ D2(m) < D2(n))
      /\ Rest(m) = Rest(n) <=> Rest2(m) = Rest2(n) /\ D2(m) = D2(n)
  BY <1>1, Zenon DEF DivOrdered, D2, Rest2, Rest
<1>4. /\ Rest2(m) < Rest2(n) <=>
           SecondOf(m) < SecondOf(n) \/ (SecondOf(m) = SecondOf(n) /\ D1(m) < D1(n))
      /\ Rest2(m) = Rest2(n) <=> SecondOf(m) = SecondOf(n) /\ D1(m) = D1(n)
  BY <1>1, Zenon DEF DivOrdered, D1, SecondOf, Rest2, Rest
<1> DEFINE s == SecondOf(m)
           a == D1(m)
           b == D2(m)
           c == D3(m)
           t == SecondOf(n)
           d == D1(n)
           e == D2(n)
           f == D3(n)
<1>5. /\ s \in Nat /\ a \in TimeDigits /\ b \in TimeDigits /\ c \in TimeDigits
      /\ t \in Nat /\ d \in TimeDigits /\ e \in TimeDigits /\ f \in TimeDigits
  BY InstantDigits, Zenon
<1>6. Strftime(m) = SqlText(s, a, b, c) /\ Strftime(n) = SqlText(t, d, e, f)
  BY Texts, Zenon
<1> HIDE DEF s, a, b, c, t, d, e, f
<1>7. /\ s \in Int /\ a \in Int /\ b \in Int /\ c \in Int /\ t \in Int /\ d \in Int /\ e \in Int
      /\ f \in Int /\ Base \in Int /\ Base > 1 /\ e < Base /\ f < Base
  BY <1>5, TimestampAssumption DEF TimeDigits
<1>8. TextOrdered(s, a, b, c, t, d, e, f)
  BY <1>7, TextOrder, Zenon
<1>9. /\ m <= n <=> Rest(m) < Rest(n) \/ (Rest(m) = Rest(n) /\ c <= f)
      /\ m < n <=> Rest(m) < Rest(n) \/ (Rest(m) = Rest(n) /\ c < f)
      /\ Rest(m) < Rest(n) <=> Rest2(m) < Rest2(n) \/ (Rest2(m) = Rest2(n) /\ b < e)
      /\ Rest(m) = Rest(n) <=> Rest2(m) = Rest2(n) /\ b = e
      /\ Rest2(m) < Rest2(n) <=> s < t \/ (s = t /\ a < d)
      /\ Rest2(m) = Rest2(n) <=> s = t /\ a = d
  BY <1>2, <1>3, <1>4, Zenon DEF s, a, b, c, t, d, e, f
<1>10. /\ TextLeq(SqlText(s, a, b, c), SqlText(t, d, e, f)) <=> m <= n
       /\ TextLeq(Import3(s, a, b, c), SqlText(t, d, e, f)) <=> m < n
       /\ TextLeq(Import2(s, a, b), SqlText(t, d, e, f)) <=> Rest(m) < Rest(n)
       /\ TextLeq(Import1(s, a), SqlText(t, d, e, f)) <=> Rest2(m) < Rest2(n)
       /\ TextLeq(Import0(s), SqlText(t, d, e, f)) <=> s < t
  BY <1>8, <1>9, Zenon DEF TextOrdered
<1> QED BY <1>6, <1>10, Zenon DEF s, a, b, c, t

(* Both forms of a text are read back.                                     *)
ReadBack(s, a, b, c, n) ==
    /\ parse_timestamp(SqlText(s, a, b, c)) = n
    /\ \A x : IsImport(x, s, a, b, c) => parse_timestamp(x) = n

LEMMA ParseTexts ==
    ASSUME NEW s \in Int, NEW a \in Int, NEW b \in Int, NEW c \in Int, Base \in Int
    PROVE  ReadBack(s, a, b, c, ((s * Base + a) * Base + b) * Base + c)
<1>1. parse_timestamp(SqlText(s, a, b, c)) = ((s * Base + a) * Base + b) * Base + c
  BY DEF parse_timestamp, SqlText
<1>2. parse_timestamp(Import3(s, a, b, c)) = ((s * Base + a) * Base + b) * Base + c
  BY DEF parse_timestamp, Import3
<1>3. parse_timestamp(Import2(s, a, b)) = ((s * Base + a) * Base + b) * Base + 0
  BY DEF parse_timestamp, Import2
<1>4. parse_timestamp(Import1(s, a)) = ((s * Base + a) * Base + 0) * Base + 0
  BY DEF parse_timestamp, Import1
<1>5. parse_timestamp(Import0(s)) = ((s * Base + 0) * Base + 0) * Base + 0
  BY DEF parse_timestamp, Import0
<1> QED BY <1>1, <1>2, <1>3, <1>4, <1>5, Zenon DEF IsImport, ReadBack

LEMMA ParseBack ==
    ASSUME NEW n \in Nat
    PROVE  /\ parse_timestamp(Strftime(n)) = n
           /\ parse_timestamp(format_timestamp(n)) = n
<1>1. /\ SecondOf(n) \in Int /\ D1(n) \in Int /\ D2(n) \in Int /\ D3(n) \in Int /\ Base \in Int
  BY InstantDigits, TimestampAssumption DEF TimeDigits
<1>2. ReadBack(SecondOf(n), D1(n), D2(n), D3(n),
               ((SecondOf(n) * Base + D1(n)) * Base + D2(n)) * Base + D3(n))
  BY <1>1, ParseTexts, Zenon
<1>3. ReadBack(SecondOf(n), D1(n), D2(n), D3(n), n)
  BY <1>2, InstantDigits, Zenon
<1> QED BY <1>3, Texts, Zenon DEF ReadBack

(* Import's texts put an instant at most a second later.                   *)
Skew(n) ==
    IF D3(n) # 0 THEN 1
    ELSE IF D2(n) # 0 THEN Base ELSE IF D1(n) # 0 THEN Base * Base ELSE Second

LEMMA SkewBound == ASSUME NEW n \in Nat PROVE Skew(n) \in 0..Second
<1>1. Base \in Nat /\ Base >= 2 /\ Base * Base \in Nat /\ Base * Base >= Base
  <2>1. Base \in Nat /\ Base >= 2 /\ Base - 1 \in Nat
    BY TimestampAssumption
  <2>2. (Base - 1) * Base \in Nat /\ (Base - 1) * Base = Base * Base - Base
    BY <2>1
  <2> QED BY <2>1, <2>2
<1>2. Second \in Nat /\ Second >= Base * Base
  <2> DEFINE q == Base * Base
  <2> HIDE DEF q
  <2>1. q \in Nat /\ Base - 1 \in Nat
    BY <1>1 DEF q
  <2>2. q * (Base - 1) \in Nat /\ q * (Base - 1) = q * Base - q /\ q * Base \in Nat
    BY <1>1, <2>1
  <2>3. Second = q * Base
    BY Zenon DEF Second, q
  <2>4. q * Base >= q
    BY <1>1, <2>1, <2>2
  <2> QED BY <2>2, <2>3, <2>4 DEF q
<1> DEFINE q == Base * Base
           r == Second
<1> HIDE DEF q, r
<1>3. q \in Nat /\ r \in Nat /\ q >= Base /\ r >= q
  BY <1>1, <1>2 DEF q, r
<1>4. 1 \in 0..r /\ Base \in 0..r /\ q \in 0..r /\ r \in 0..r
  BY <1>1, <1>3
<1> QED BY <1>4, Zenon DEF Skew, q, r

LEMMA ImportOrder ==
    ASSUME NEW m \in Nat, NEW n \in Nat
    PROVE  TextLeq(format_timestamp(m), Strftime(n)) <=> m + Skew(m) <= n
<1>1. /\ Rest(m) \in Nat /\ Rest2(m) \in Nat /\ SecondOf(m) \in Nat
      /\ Rest(n) \in Nat /\ Rest2(n) \in Nat /\ SecondOf(n) \in Nat
  BY InstantDigits, Zenon
<1>2. Base \in Nat /\ Base * Base \in Nat /\ 1 \in Nat
  BY TimestampAssumption
<1>3. D3(m) = 0 => \A j \in Nat : m + j * Base <= n <=> Rest(m) + j <= Rest(n)
  BY DivShift, Zenon DEF D3
<1>4. D2(m) = 0 => \A j \in Nat : Rest(m) + j * Base <= Rest(n) <=> Rest2(m) + j <= Rest2(n)
  BY <1>1, DivShift, Zenon DEF D2, Rest2, Rest
<1>5. D1(m) = 0 => \A j \in Nat : Rest2(m) + j * Base <= Rest2(n) <=> SecondOf(m) + j <= SecondOf(n)
  BY <1>1, DivShift, Zenon DEF D1, SecondOf, Rest2, Rest
<1>6. 1 * Base = Base
  BY <1>2
<1>7. /\ m + 1 <= n <=> m < n
      /\ Rest(m) + 1 <= Rest(n) <=> Rest(m) < Rest(n)
      /\ Rest2(m) + 1 <= Rest2(n) <=> Rest2(m) < Rest2(n)
      /\ SecondOf(m) + 1 <= SecondOf(n) <=> SecondOf(m) < SecondOf(n)
  BY <1>1
<1>8. /\ D3(m) = 0 => (m + Base <= n <=> Rest(m) < Rest(n))
      /\ D3(m) = 0 /\ D2(m) = 0 => (m + Base * Base <= n <=> Rest2(m) < Rest2(n))
      /\ D3(m) = 0 /\ D2(m) = 0 /\ D1(m) = 0 =>
           (m + Base * Base * Base <= n <=> SecondOf(m) < SecondOf(n))
  <2>1. D3(m) = 0 => (m + Base <= n <=> Rest(m) < Rest(n))
    BY <1>2, <1>3, <1>6, <1>7, Zenon
  <2>2. D3(m) = 0 /\ D2(m) = 0 => (m + Base * Base <= n <=> Rest2(m) < Rest2(n))
    <3>1. D2(m) = 0 => (Rest(m) + Base <= Rest(n) <=> Rest2(m) < Rest2(n))
      BY <1>2, <1>4, <1>6, <1>7, Zenon
    <3> QED BY <1>2, <1>3, <3>1, Zenon
  <2>3. D3(m) = 0 /\ D2(m) = 0 /\ D1(m) = 0 =>
           (m + Base * Base * Base <= n <=> SecondOf(m) < SecondOf(n))
    <3>1. D1(m) = 0 => (Rest2(m) + Base <= Rest2(n) <=> SecondOf(m) < SecondOf(n))
      BY <1>2, <1>5, <1>6, <1>7, Zenon
    <3>2. D2(m) = 0 => (Rest(m) + Base * Base <= Rest(n) <=> Rest2(m) + Base <= Rest2(n))
      BY <1>2, <1>4, Zenon
    <3> QED BY <1>2, <1>3, <3>1, <3>2, Zenon
  <2> QED BY <2>1, <2>2, <2>3, Zenon
<1>9. IsImport(format_timestamp(m), SecondOf(m), D1(m), D2(m), D3(m))
  BY Texts, Zenon
<1> QED BY <1>7, <1>8, <1>9, Orders, Zenon DEF IsImport, Skew, Second

(* The column always holds the text of the instant that was meant.         *)
TimestampInv ==
    /\ wallClock \in Nat /\ meantAt \in Nat
    /\ \/ madeBy \in {"none", "enqueued", "released"} /\ availableText = Strftime(meantAt)
       \/ madeBy = "imported" /\ availableText = format_timestamp(meantAt)

LEMMA InstantsAreNat == Instants \subseteq Nat
<1>1. Second \in Int /\ Seconds * Second - 1 \in Int
  BY TimestampAssumption DEF Second
<1> DEFINE q == Seconds * Second - 1
<1> HIDE DEF q
<1>2. 0..q \subseteq Nat
  BY <1>1 DEF q
<1> QED BY <1>2, Zenon DEF Instants, q

LEMMA TimestampInitInv == TimestampInit => TimestampInv
<1>1. 0 \in Nat
  OBVIOUS
<1> QED BY <1>1, Zenon DEF TimestampInit, TimestampInv

LEMMA TimestampStep ==
    ASSUME TimestampInv, [TimestampNext]_(timestampvars)
    PROVE  TimestampInv'
<1>1. CASE TimestampTick
  <2>1. wallClock' \in Nat
    BY <1>1, InstantsAreNat, Zenon DEF TimestampTick
  <2> QED BY <1>1, <2>1, Zenon DEF TimestampTick, TimestampInv
<1>2. CASE EnqueueText
  BY <1>2, Zenon DEF EnqueueText, TimestampInv
<1>3. CASE ImportRow
  <2>1. ImportText(wallClock) = format_timestamp(wallClock)
    BY ParseBack, Zenon DEF ImportText, TimestampInv
  <2> QED BY <1>3, <2>1, Zenon DEF ImportRow, TimestampInv
<1>4. CASE ClaimAndReleaseText
  <2>1. meantAt' \in Nat /\ availableText' = Strftime(meantAt')
    BY <1>4, InstantsAreNat, Zenon DEF ClaimAndReleaseText
  <2> QED BY <1>4, <2>1, Zenon DEF ClaimAndReleaseText, TimestampInv
<1>5. CASE UNCHANGED timestampvars
  BY <1>5, Zenon DEF timestampvars, TimestampInv
<1> QED BY <1>1, <1>2, <1>3, <1>4, <1>5, Zenon DEF TimestampNext

LEMMA TimestampSafe == TimestampInv => TimestampsFaithful
<1> SUFFICES ASSUME TimestampInv PROVE TimestampsFaithful
  OBVIOUS
<1>0. meantAt \in Nat
  BY Zenon DEF TimestampInv
<1>1. ReadsBack
  BY <1>0, ParseBack, Zenon DEF ReadsBack, TimestampInv
<1>2. ASSUME madeBy \in {"enqueued", "released"}
      PROVE  \A n \in Instants : EligibleText(n) <=> meantAt <= n
  <2>1. availableText = Strftime(meantAt)
    BY <1>2 DEF TimestampInv
  <2> QED BY <1>0, <2>1, InstantsAreNat, Orders, Zenon DEF EligibleText
<1>3. ASSUME madeBy = "imported"
      PROVE  \E skew \in 0..Second :
               \A n \in Instants : EligibleText(n) <=> meantAt + skew <= n
  <2>1. availableText = format_timestamp(meantAt)
    BY <1>3 DEF TimestampInv
  <2>2. \A n \in Instants : EligibleText(n) <=> meantAt + Skew(meantAt) <= n
    BY <1>0, <2>1, InstantsAreNat, ImportOrder, Zenon DEF EligibleText
  <2> QED BY <1>0, <2>2, SkewBound, Zenon
<1> QED BY <1>1, <1>2, <1>3, Zenon DEF TimestampsFaithful, TextOrderIsTimeOrder, ImportSkewBounded

\* SQLite's comparison of timestamp texts is the comparison of instants for every time
\* strftime wrote, both forms of a text are read back as the instant that was meant, and
\* an imported row (format_timestamp drops trailing zeros) becomes claimable no earlier
\* than its import and at most a second later: for a clock of any length, digits of any
\* base and any delays.
THEOREM TimestampsAlwaysFaithful == TimestampSpec => []TimestampsFaithful
<1>1. TimestampInv /\ [TimestampNext]_(timestampvars) => TimestampInv'
  BY TimestampStep, Zenon
<1> QED BY TimestampInitInv, <1>1, TimestampSafe, PTL DEF TimestampSpec

--------------------------------------------------------------------------------
(* From the contract to the adapter: the theorems of TableProofs about the   *)
(* contract hold of whatever implements DeliveryLifecycle.  Its pagers play  *)
(* no part in them.                                                          *)

Contract == INSTANCE TableProofs
               WITH Owners <- {}, AllOwners <- 0, Readers <- {}, Limits <- {}, MaxRow <- 0,
                    BadRows <- {}, handle <- 0, rows <- 0, live <- 0, pager <- 0, adapter <- 0

\* The contract the adapter implements is the one these theorems are about.
LEMMA SameContract ==
  /\ Lifecycle!Init => Contract!Init
  /\ Lifecycle!Next => Contract!Next
  /\ Lifecycle!vars = Contract!vars
<1>1. Lifecycle!Init => Contract!Init
  BY Zenon DEF Lifecycle!Init, Contract!Init, Lifecycle!AbsentRow, Contract!AbsentRow,
               Lifecycle!NullTime, Contract!NullTime
<1>2. Lifecycle!Tick => Contract!Tick
  BY Zenon DEF Lifecycle!Tick, Contract!Tick
<1>3. \A r \in Rows : Lifecycle!Enqueue(r) => Contract!Enqueue(r)
  BY Zenon DEF Lifecycle!Enqueue, Contract!Enqueue, Lifecycle!Insert, Contract!Insert,
               Lifecycle!EnqueuedRow, Contract!EnqueuedRow, Lifecycle!AbsentRow,
               Contract!AbsentRow, Lifecycle!NullTime, Contract!NullTime
<1>4. \A r \in Rows : Lifecycle!Import(r) => Contract!Import(r)
  BY Zenon DEF Lifecycle!Import, Contract!Import, Lifecycle!Insert, Contract!Insert,
               Lifecycle!EnqueuedRow, Contract!EnqueuedRow, Lifecycle!AbsentRow,
               Contract!AbsentRow, Lifecycle!NullTime, Contract!NullTime,
               Lifecycle!ImportedDelivered, Contract!ImportedDelivered
<1>5. Lifecycle!ClaimSome => Contract!ClaimSome
  BY Zenon DEF Lifecycle!ClaimSome, Contract!ClaimSome, Lifecycle!Claim, Contract!Claim,
               Lifecycle!InScope, Contract!InScope, Lifecycle!Eligible, Contract!Eligible,
               Lifecycle!ClaimedRow, Contract!ClaimedRow
<1>6. Lifecycle!MutateSome => Contract!MutateSome
  BY Zenon DEF Lifecycle!MutateSome, Contract!MutateSome, Lifecycle!Mutate, Contract!Mutate,
               Lifecycle!InScope, Contract!InScope, Lifecycle!Fenced, Contract!Fenced,
               Lifecycle!MutatedRow, Contract!MutatedRow, Lifecycle!Unclaimed,
               Contract!Unclaimed, Lifecycle!NullTime, Contract!NullTime,
               Lifecycle!MutationArgs, Contract!MutationArgs
<1>7. \A r \in Rows : Lifecycle!Finalize(r) => Contract!Finalize(r)
  BY Zenon DEF Lifecycle!Finalize, Contract!Finalize, Lifecycle!CanonicalPending,
               Contract!CanonicalPending, Lifecycle!Canonical, Contract!Canonical,
               Lifecycle!NullTime, Contract!NullTime, Lifecycle!FinalizedRow,
               Contract!FinalizedRow
<1>8. QED
  BY <1>1, <1>2, <1>3, <1>4, <1>5, <1>6, <1>7, Zenon
     DEF Lifecycle!Next, Contract!Next, Lifecycle!vars, Contract!vars

\* And so are its promises.
LEMMA SamePromise ==
  /\ Contract!LeaseHonouredStep => Lifecycle!LeaseHonouredStep
  /\ Contract!DelayHonouredStep => Lifecycle!DelayHonouredStep
  /\ Contract!TerminalStableStep => Lifecycle!TerminalStableStep
  /\ Contract!AttemptsCountClaims => Lifecycle!AttemptsCountClaims
BY Zenon DEF Lifecycle!LeaseHonouredStep, Contract!LeaseHonouredStep, Lifecycle!DelayHonouredStep,
  Contract!DelayHonouredStep, Lifecycle!TerminalStableStep, Contract!TerminalStableStep,
  Lifecycle!Terminal, Contract!Terminal, Lifecycle!AttemptsCountClaims, Contract!AttemptsCountClaims,
  Lifecycle!IsFiniteSet, Contract!IsFiniteSet, Lifecycle!Cardinality, Contract!Cardinality

\* What a caller of the SQLite adapter gets, down to its statements: no live lease
\* is taken over, no row is claimed before its delay has passed, delivered and
\* quarantined rows are final, and attempts counts the committed claims.
THEOREM SqliteKeepsPromises ==
  Spec => /\ Lifecycle!LeaseHonoured
          /\ Lifecycle!DelayHonoured
          /\ Lifecycle!TerminalStable
          /\ []Lifecycle!AttemptsCountClaims
<1>1. /\ Contract!Spec => Contract!LeaseHonoured
      /\ Contract!Spec => Contract!DelayHonoured
      /\ Contract!Spec => Contract!TerminalStable
      /\ Contract!Spec => []Contract!AttemptsCountClaims
  BY Contract!LeasesAreHonoured, Contract!DelaysAreHonoured, Contract!TerminalRowsAreStable,
     Contract!AttemptsAreClaims, DeliveryAssumption
     DEF Contract!LeasesAreHonoured, Contract!DelaysAreHonoured, Contract!TerminalRowsAreStable,
         Contract!AttemptsAreClaims, MutationKind, Contract!MutationKind
<1>2. Lifecycle!vars = Contract!vars /\ Lifecycle!vars' = Contract!vars'
  BY Zenon DEF Lifecycle!vars, Contract!vars
<1>3. [Lifecycle!Next]_(Lifecycle!vars) => [Contract!Next]_(Contract!vars)
  BY SameContract, <1>2
<1>4. /\ [Contract!LeaseHonouredStep]_(Contract!vars) => [Lifecycle!LeaseHonouredStep]_(Lifecycle!vars)
      /\ [Contract!DelayHonouredStep]_(Contract!vars) => [Lifecycle!DelayHonouredStep]_(Lifecycle!vars)
      /\ [Contract!TerminalStableStep]_(Contract!vars) => [Lifecycle!TerminalStableStep]_(Lifecycle!vars)
  BY SamePromise, <1>2
<1>5. QED
  BY SqliteImplementsLifecycle, SameContract, SamePromise, <1>1, <1>3, <1>4, PTL
     DEF LifecycleRefined, Lifecycle!Spec, Contract!Spec, Lifecycle!LeaseHonoured,
         Contract!LeaseHonoured, Lifecycle!DelayHonoured, Contract!DelayHonoured,
         Lifecycle!TerminalStable, Contract!TerminalStable
================================================================================
