----------------------------- MODULE BoundaryProofs -----------------------------
(***************************************************************************)
(* What Boundary promises of its parts, for every value of the constants:  *)
(* the identity encoding is injective for texts of any length the tables   *)
(* admit, an operation works only in a sound MySQL session, a tenant's     *)
(* handle serves its tenant's rows and no other, and a page shows exactly  *)
(* the rows the library could have written.                                *)
(***************************************************************************)
EXTENDS Boundary, SequenceTheorems, FiniteSetTheorems, TLAPS

-------------------------------------------------------------------------------
(* IdentityKey                                                             *)

(* Two concatenations whose first parts are equally long are equal only    *)
(* when both parts are: the step that reads identity_key back.             *)
LEMMA ConcatSplit ==
    ASSUME NEW S, NEW a \in Seq(S), NEW b \in Seq(S), NEW c \in Seq(S), NEW d \in Seq(S),
           Len(a) = Len(b), a \o c = b \o d
    PROVE  a = b /\ c = d
<1>1. Len(c) = Len(d)
  <2>1. Len(a \o c) = Len(a) + Len(c) /\ Len(b \o d) = Len(b) + Len(d)
    BY ConcatProperties, Zenon
  <2> QED BY <2>1, LenProperties
<1>2. a = b
  <2>1. \A i \in 1..Len(a) : (a \o c)[i] = a[i] /\ (b \o d)[i] = b[i]
    BY ConcatProperties, LenProperties
  <2>2. \A i \in 1..Len(a) : a[i] = b[i]
    BY <2>1, Zenon
  <2> QED BY <2>2, SeqEqual, Zenon
<1>3. c = d
  <2>1. ASSUME NEW i \in 1..Len(c)
        PROVE  c[i] = d[i]
    <3>1. /\ Len(a) \in Nat /\ Len(c) \in Nat
          /\ Len(a) + i \in 1..(Len(a) + Len(c)) /\ ~(Len(a) + i <= Len(a))
          /\ (Len(a) + i) - Len(a) = i
      BY LenProperties
    <3>2. (a \o c)[Len(a) + i] = c[i]
      BY <3>1, ConcatProperties
    <3>3. (b \o d)[Len(a) + i] = d[i]
      BY <1>1, <3>1, ConcatProperties
    <3> QED BY <3>2, <3>3, Zenon
  <2> QED BY <1>1, <2>1, SeqEqual, Zenon
<1> QED BY <1>2, <1>3, Zenon

(* A number is its last digit and the number before it.                    *)
LEMMA LastDigit ==
    ASSUME NEW n \in Nat
    PROVE  n \div 10 \in Nat /\ n = 10 * (n \div 10) + (n % 10)
OBVIOUS

(* Numbers with the same last digit and the same number before it are the  *)
(* same, and so are their last digits when the bytes of these are.         *)
LEMMA AppendDigit ==
    ASSUME NEW m \in Nat, NEW n \in Nat,
           m \div 10 = n \div 10, Digit(m) = Digit(n)
    PROVE  m = n
BY LastDigit DEF Digit

(* A number of one digit is known from its byte.                           *)
LEMMA OneDigit ==
    ASSUME NEW m \in Nat, NEW n \in Nat, m < 10, n < 10, Digit(m) = Digit(n)
    PROVE  m = n
BY DEF Digit

(* Within its width, the padded length of a tenant determines the length.  *)
LEMMA PaddedThree ==
    ASSUME NEW m \in Numbers3, NEW n \in Numbers3, LPAD3(m) = LPAD3(n)
    PROVE  m = n
<1>1. /\ Digit(m) = Digit(n) /\ Digit(m \div 10) = Digit(n \div 10)
      /\ Digit((m \div 10) \div 10) = Digit((n \div 10) \div 10)
  BY Zenon DEF LPAD3
<1>2. ASSUME NEW k \in Numbers3
      PROVE  k \in Nat /\ k \div 10 \in Nat /\ (k \div 10) \div 10 \in Nat /\ (k \div 10) \div 10 < 10
  BY DEF Numbers3
<1>3. (m \div 10) \div 10 = (n \div 10) \div 10
  BY <1>1, <1>2, OneDigit, Zenon
<1>4. m \div 10 = n \div 10
  BY <1>1, <1>2, <1>3, AppendDigit, Zenon
<1> QED BY <1>1, <1>2, <1>4, AppendDigit, Zenon

(* Within its width, the padded length of a source determines the length.  *)
LEMMA PaddedFour ==
    ASSUME NEW m \in Numbers4, NEW n \in Numbers4, LPAD4(m) = LPAD4(n)
    PROVE  m = n
<1>1. Digit(m) = Digit(n) /\ LPAD3(m \div 10) = LPAD3(n \div 10)
  BY Zenon DEF LPAD4, LPAD3
<1>2. ASSUME NEW k \in Numbers4
      PROVE  k \in Nat /\ k \div 10 \in Numbers3
  BY DEF Numbers4, Numbers3
<1>3. m \div 10 = n \div 10
  BY <1>1, <1>2, PaddedThree, Zenon
<1> QED BY <1>1, <1>2, <1>3, AppendDigit, Zenon

(* The padded lengths have the width of their fields.                      *)
LEMMA PaddedWidth ==
    ASSUME NEW n \in Numbers4
    PROVE  /\ LPAD3(n) \in Seq(Nat) /\ Len(LPAD3(n)) = 3
           /\ LPAD4(n) \in Seq(Nat) /\ Len(LPAD4(n)) = 4
<1>1. /\ n \in Nat /\ n \div 10 \in Nat /\ (n \div 10) \div 10 \in Nat
      /\ ((n \div 10) \div 10) \div 10 \in Nat
  BY DEF Numbers4
<1>2. \A k \in Nat : Digit(k) \in Nat
  BY DEF Digit
<1> QED BY <1>1, <1>2 DEF LPAD3, LPAD4

(* The comment on the column: "The length prefixes make the identity       *)
(* encoding injective", for all texts within the tables' size CHECKs.      *)
THEOREM IdentityKeyInjective ==
    ASSUME NEW x \in Identity, NEW y \in Identity, identity_key(x) = identity_key(y)
    PROVE  x = y
<1> DEFINE All == Bytes \cup Nat
           Parts(z) == /\ z.tenant \in Seq(All) /\ Len(z.tenant) \in Numbers3
                       /\ z.source \in Seq(All) /\ Len(z.source) \in Numbers4
                       /\ z.event_id \in Seq(All)
           Suffix(z) == z.source \o z.event_id
           Rest(z) == LPAD4(Len(z.source)) \o Suffix(z)
<1>1. ASSUME NEW z \in Identity
      PROVE  Parts(z)
  <2>1. /\ z.tenant \in Seq(Bytes) /\ Len(z.tenant) <= MaxTenant
        /\ z.source \in Seq(Bytes) /\ Len(z.source) <= MaxSource
        /\ z.event_id \in Seq(Bytes)
    BY Zenon DEF Identity
  <2>2. Bytes \subseteq All
    BY Zenon
  <2> HIDE DEF All
  <2>3. z.tenant \in Seq(All) /\ z.source \in Seq(All) /\ z.event_id \in Seq(All)
    BY <2>1, <2>2, SeqMonotonic, Zenon
  <2>4. Len(z.tenant) \in Numbers3 /\ Len(z.source) \in Numbers4
    BY <2>1, WidthAssumption, LenProperties DEF Numbers3, Numbers4
  <2> QED BY <2>3, <2>4, Zenon
<1>9. \A n \in Numbers3 : n \in Numbers4
  BY DEF Numbers3, Numbers4
<1>2. Parts(x) /\ Parts(y)
  BY <1>1, Zenon
<1>3. ASSUME NEW n \in Numbers4
      PROVE  /\ LPAD3(n) \in Seq(All) /\ Len(LPAD3(n)) = 3
             /\ LPAD4(n) \in Seq(All) /\ Len(LPAD4(n)) = 4
  <2>1. Nat \subseteq All
    BY Zenon
  <2> HIDE DEF All
  <2> QED BY <2>1, PaddedWidth, SeqMonotonic, Zenon
<1> HIDE DEF All
<1>4. ASSUME NEW z, Parts(z)
      PROVE  Suffix(z) \in Seq(All) /\ Rest(z) \in Seq(All)
  BY <1>3, <1>4, ConcatProperties, Zenon
<1>5. LPAD3(Len(x.tenant)) \o (x.tenant \o Rest(x)) = LPAD3(Len(y.tenant)) \o (y.tenant \o Rest(y))
  BY Zenon DEF identity_key
<1>6. Suffix(x) \in Seq(All) /\ Rest(x) \in Seq(All) /\ Suffix(y) \in Seq(All) /\ Rest(y) \in Seq(All)
  BY <1>2, <1>4, Zenon
<1> HIDE DEF Rest
<1>7. x.tenant = y.tenant /\ Rest(x) = Rest(y)
  <2>1. LPAD3(Len(x.tenant)) = LPAD3(Len(y.tenant)) => Len(x.tenant) = Len(y.tenant)
    BY <1>2, PaddedThree, Zenon
  <2>2. /\ LPAD3(Len(x.tenant)) \in Seq(All) /\ LPAD3(Len(y.tenant)) \in Seq(All)
        /\ Len(LPAD3(Len(x.tenant))) = Len(LPAD3(Len(y.tenant)))
    BY <1>2, <1>3, <1>9, Zenon
  <2> DEFINE p == LPAD3(Len(x.tenant))
             q == LPAD3(Len(y.tenant))
             v == x.tenant \o Rest(x)
             w == y.tenant \o Rest(y)
  <2>3. /\ p \in Seq(All) /\ q \in Seq(All) /\ Len(p) = Len(q)
        /\ v \in Seq(All) /\ w \in Seq(All) /\ p \o v = q \o w
    BY <1>2, <1>5, <1>6, <2>2, ConcatProperties
  <2> HIDE DEF p, q, v, w
  <2>4. p = q /\ v = w
    BY <2>3, ConcatSplit, Zenon
  <2>5. Len(x.tenant) = Len(y.tenant) /\ x.tenant \o Rest(x) = y.tenant \o Rest(y)
    BY <2>1, <2>4, Zenon DEF p, q, v, w
  <2> QED BY <1>2, <1>6, <2>5, ConcatSplit
<1>8. x.source = y.source /\ x.event_id = y.event_id
  <2>1. LPAD4(Len(x.source)) = LPAD4(Len(y.source)) => Len(x.source) = Len(y.source)
    BY <1>2, PaddedFour, Zenon
  <2>2. /\ LPAD4(Len(x.source)) \in Seq(All) /\ LPAD4(Len(y.source)) \in Seq(All)
        /\ Len(LPAD4(Len(x.source))) = Len(LPAD4(Len(y.source)))
    BY <1>2, <1>3, <1>9, Zenon
  <2>3. LPAD4(Len(x.source)) \o (x.source \o x.event_id)
          = LPAD4(Len(y.source)) \o (y.source \o y.event_id)
    BY <1>7, Zenon DEF Rest
  <2> DEFINE p == LPAD4(Len(x.source))
             q == LPAD4(Len(y.source))
             v == x.source \o x.event_id
             w == y.source \o y.event_id
  <2>4. /\ p \in Seq(All) /\ q \in Seq(All) /\ Len(p) = Len(q)
        /\ v \in Seq(All) /\ w \in Seq(All) /\ p \o v = q \o w
    BY <1>2, <1>5, <1>6, <2>2, <2>3, ConcatProperties
  <2> HIDE DEF p, q, v, w
  <2>5. p = q /\ v = w
    BY <2>4, ConcatSplit, Zenon
  <2>6. Len(x.source) = Len(y.source) /\ x.source \o x.event_id = y.source \o y.event_id
    BY <2>1, <2>5, Zenon DEF p, q, v, w
  <2> QED BY <1>2, <1>6, <2>6, ConcatSplit
<1> QED BY <1>7, <1>8 DEF Identity

-----------------------------------------------------------------------------
(* Only identities within the CHECKs are stored.                           *)
OnlyIdentities == rows \subseteq Identity

(* Texts enumerates the sequences Identity admits.                         *)
LEMMA TextsAreSequences ==
    ASSUME NEW most \in Nat, NEW t \in Texts(most)
    PROVE  t \in Seq(Bytes) /\ Len(t) <= most
<1>1. PICK n \in 0..most : t \in [1..n -> Bytes]
  BY Zenon DEF Texts
<1> QED BY <1>1

(* The INSERT of enqueue reports a duplicate exactly when the identity is  *)
(* stored already, whatever the texts.                                     *)
THEOREM DuplicateExact == Spec => DuplicateExactly
<1>1. Init => OnlyIdentities
  BY Zenon DEF Init, OnlyIdentities
<1>2. ASSUME OnlyIdentities, Next
      PROVE  OnlyIdentities' /\ (answer'.outcome = "duplicate" <=> answer'.asked \in rows)
  <2>1. PICK x \in Identity : Insert(x)
    <3>1. PICK t \in Texts(MaxTenant) : \E s \in Texts(MaxSource), e \in Texts(MaxEventId) :
                Insert([tenant |-> t, source |-> s, event_id |-> e])
      BY <1>2, Zenon DEF Next
    <3>2. PICK s \in Texts(MaxSource) : \E e \in Texts(MaxEventId) :
                Insert([tenant |-> t, source |-> s, event_id |-> e])
      BY <3>1, Zenon
    <3>3. PICK e \in Texts(MaxEventId) :
                Insert([tenant |-> t, source |-> s, event_id |-> e])
      BY <3>2, Zenon
    <3>4. [tenant |-> t, source |-> s, event_id |-> e] \in Identity
      <4>1. MaxTenant \in Nat /\ MaxSource \in Nat /\ MaxEventId \in Nat
        BY WidthAssumption, Zenon DEF Numbers3, Numbers4
      <4>2. /\ t \in Seq(Bytes) /\ Len(t) <= MaxTenant
            /\ s \in Seq(Bytes) /\ Len(s) <= MaxSource
            /\ e \in Seq(Bytes) /\ Len(e) <= MaxEventId
        BY <4>1, TextsAreSequences, Zenon
      <4> QED BY <4>2, Zenon DEF Identity
    <3> QED BY <3>3, <3>4, Zenon
  <2>2. (\E r \in rows : identity_key(r) = identity_key(x)) <=> x \in rows
    BY <1>2, IdentityKeyInjective, Zenon DEF OnlyIdentities
  <2>3. OnlyIdentities'
    BY <1>2, <2>1, Zenon DEF Insert, OnlyIdentities
  <2>4. answer'.outcome = "duplicate" <=> answer'.asked \in rows
    BY <2>1, <2>2 DEF Insert
  <2> QED BY <2>3, <2>4, Zenon
<1>3. OnlyIdentities /\ UNCHANGED vars => OnlyIdentities'
  BY Zenon DEF OnlyIdentities, vars
<1>4. OnlyIdentities /\ [Next]_vars
        => [answer'.outcome = "duplicate" <=> answer'.asked \in rows]_vars
  BY <1>2, Zenon
<1> QED BY <1>1, <1>2, <1>3, <1>4, PTL DEF Spec, DuplicateExactly
-------------------------------------------------------------------------------
(* MysqlSessions                                                           *)

Operations ==
  {Sessions!Idle} \union [kind : {"owned", "snapshot", "caller"}, at : {"detect", "work"}]

SessionsTypeOK ==
  /\ session \in [Connections -> Sessions!Session]
  /\ oneShot \in [Connections -> Sessions!Isolations \union {"none"}]
  /\ begun \in [Connections -> Sessions!Isolations \union {"none"}]
  /\ named \in [Connections -> BOOLEAN]
  /\ op \in [Connections -> Operations]

\* An operation at work has probed the session as it still is, since nobody sets a
\* session that an operation has.
Probed == \A c \in Connections : op[c].at = "work" => Sessions!detect_on_connection(session[c])

\* The transaction an operation began runs at its session's level unless SET TRANSACTION
\* named another.
BegunAsSet ==
  \A c \in Connections :
      op[c].kind \in {"owned", "snapshot"} /\ ~named[c] => begun[c] = session[c].transaction_isolation

SessionsInv == SessionsTypeOK /\ Probed /\ BegunAsSet

LEMMA FreshSession ==
  ASSUME NEW server \in Servers
  PROVE  [server |-> server, time_zone |-> "UTC", sql_mode |-> {"STRICT_TRANS_TABLES"},
          transaction_isolation |-> "REPEATABLE-READ", character_set |-> "utf8mb4"]
           \in Sessions!Session
BY Zenon DEF Sessions!Session, Sessions!Isolations

LEMMA SetField ==
  ASSUME NEW s \in Sessions!Session, NEW s2 \in Sessions!Session,
         NEW field \in {"time_zone", "sql_mode", "transaction_isolation", "character_set"}
  PROVE  [s EXCEPT ![field] = s2[field]] \in Sessions!Session
<1>1. CASE field = "time_zone"
  BY <1>1, Zenon DEF Sessions!Session
<1>2. CASE field = "sql_mode"
  BY <1>2, Zenon DEF Sessions!Session
<1>3. CASE field = "transaction_isolation"
  BY <1>3, Zenon DEF Sessions!Session
<1>4. CASE field = "character_set"
  BY <1>4, Zenon DEF Sessions!Session
<1> QED BY <1>1, <1>2, <1>3, <1>4

LEMMA SessionsInit == Sessions!Init => SessionsInv
<1> SUFFICES ASSUME Sessions!Init PROVE SessionsInv
  BY Zenon
<1>1. session \in [Connections -> Sessions!Session]
  BY FreshSession, Zenon DEF Sessions!Init
<1> QED
  BY <1>1, Zenon DEF Sessions!Init, SessionsInv, SessionsTypeOK, Operations, Probed, BegunAsSet, Sessions!Idle

LEMMA SessionsStep == SessionsInv /\ [Sessions!Next]_(Sessions!vars) => SessionsInv'
<1> SUFFICES ASSUME SessionsInv, [Sessions!Next]_(Sessions!vars) PROVE SessionsInv'
  BY Zenon
<1> USE DEF SessionsInv, SessionsTypeOK
<1>1. CASE UNCHANGED Sessions!vars
  BY <1>1, Zenon DEF Sessions!vars, Sessions!transaction, Probed, BegunAsSet
<1>2. ASSUME NEW c \in Connections,
             NEW field \in {"time_zone", "sql_mode", "transaction_isolation", "character_set"},
             NEW s \in Sessions!Session, Sessions!SetSession(c, field, s[field])
      PROVE  SessionsInv'
  <2>1. /\ op[c] = Sessions!Idle /\ UNCHANGED <<begun, named, op>>
        /\ oneShot' = oneShot \/ oneShot' = [oneShot EXCEPT ![c] = "none"]
    BY <1>2, Zenon DEF Sessions!SetSession, Sessions!transaction
  <2>2. session' = [session EXCEPT ![c] = [session[c] EXCEPT ![field] = s[field]]]
    BY <1>2, Zenon DEF Sessions!SetSession
  <2>3. [session[c] EXCEPT ![field] = s[field]] \in Sessions!Session
    BY <1>2, SetField, Zenon
  <2>4. SessionsTypeOK'
    BY <2>1, <2>2, <2>3, Zenon
  <2>5. Probed' /\ BegunAsSet'
    BY <2>1, <2>2 DEF Probed, BegunAsSet, Sessions!Idle
  <2> QED BY <2>4, <2>5, Zenon
<1>3. ASSUME NEW c \in Connections, NEW server \in Servers, Sessions!Reconnect(c, server)
      PROVE  SessionsInv'
  <2>1. /\ op[c] = Sessions!Idle /\ UNCHANGED op
        /\ oneShot' = [oneShot EXCEPT ![c] = "none"]
        /\ begun' = [begun EXCEPT ![c] = "none"] /\ named' = [named EXCEPT ![c] = FALSE]
    BY <1>3, Zenon DEF Sessions!Reconnect, Sessions!End
  <2>2. PICK s \in Sessions!Session : session' = [session EXCEPT ![c] = s]
    BY <1>3, FreshSession, Zenon DEF Sessions!Reconnect
  <2>3. SessionsTypeOK'
    BY <2>1, <2>2, Zenon
  <2>4. Probed' /\ BegunAsSet'
    BY <2>1, <2>2 DEF Probed, BegunAsSet, Sessions!Idle
  <2> QED BY <2>3, <2>4, Zenon
<1>4. ASSUME NEW c \in Connections, NEW isolation \in Sessions!Isolations,
             Sessions!SetTransaction(c, isolation)
      PROVE  SessionsInv'
  <2>1. UNCHANGED <<session, begun, named, op>> /\ oneShot' = [oneShot EXCEPT ![c] = isolation]
    BY <1>4, Zenon DEF Sessions!SetTransaction, Sessions!transaction
  <2> QED BY <2>1, Zenon DEF Probed, BegunAsSet
<1>5. ASSUME NEW c \in Connections, Sessions!Begin(c)
      PROVE  /\ op[c] = Sessions!Idle /\ UNCHANGED session
             /\ oneShot' = [oneShot EXCEPT ![c] = "none"]
             /\ \E isolation \in Sessions!Isolations, n \in BOOLEAN :
                  /\ begun' = [begun EXCEPT ![c] = isolation]
                  /\ named' = [named EXCEPT ![c] = n]
                  /\ n \/ isolation = session[c].transaction_isolation
  <2>1. session[c].transaction_isolation \in Sessions!Isolations
    BY Zenon DEF Sessions!Session
  <2>2. oneShot[c] # "none" => oneShot[c] \in Sessions!Isolations
    BY Zenon
  <2> QED BY <1>5, <2>1, <2>2, Zenon DEF Sessions!Begin
<1>6. ASSUME NEW c \in Connections, Sessions!CallerBegin(c)
      PROVE  SessionsInv'
  <2>1. Sessions!Begin(c) /\ UNCHANGED op
    BY <1>6, Zenon DEF Sessions!CallerBegin
  <2>2. PICK isolation \in Sessions!Isolations, n \in BOOLEAN :
          begun' = [begun EXCEPT ![c] = isolation] /\ named' = [named EXCEPT ![c] = n]
    BY <1>5, <2>1, Zenon
  <2>3. op[c] = Sessions!Idle /\ UNCHANGED <<op, session>> /\ oneShot' = [oneShot EXCEPT ![c] = "none"]
    BY <1>5, <2>1, Zenon
  <2>4. SessionsTypeOK'
    BY <2>2, <2>3, Zenon
  <2>5. Probed' /\ BegunAsSet'
    BY <2>2, <2>3 DEF Probed, BegunAsSet, Sessions!Idle
  <2> QED BY <2>4, <2>5, Zenon
<1>7. ASSUME NEW c \in Connections, Sessions!CallerEnd(c)
      PROVE  SessionsInv'
  <2>1. /\ op[c] = Sessions!Idle /\ UNCHANGED <<op, session, oneShot>>
        /\ begun' = [begun EXCEPT ![c] = "none"] /\ named' = [named EXCEPT ![c] = FALSE]
    BY <1>7, Zenon DEF Sessions!CallerEnd, Sessions!End
  <2>2. SessionsTypeOK'
    BY <2>1, Zenon
  <2>3. Probed' /\ BegunAsSet'
    BY <2>1 DEF Probed, BegunAsSet, Sessions!Idle
  <2> QED BY <2>2, <2>3, Zenon
<1>8. ASSUME NEW c \in Connections, NEW k \in {"owned", "snapshot"}, Sessions!PoolBegin(c, k)
      PROVE  SessionsInv'
  <2>1. Sessions!Begin(c) /\ op' = [op EXCEPT ![c] = [kind |-> k, at |-> "detect"]]
    BY <1>8, Zenon DEF Sessions!PoolBegin
  <2>2. PICK isolation \in Sessions!Isolations, n \in BOOLEAN :
          /\ begun' = [begun EXCEPT ![c] = isolation] /\ named' = [named EXCEPT ![c] = n]
          /\ n \/ isolation = session[c].transaction_isolation
    BY <1>5, <2>1, Zenon
  <2>3. UNCHANGED session /\ oneShot' = [oneShot EXCEPT ![c] = "none"]
    BY <1>5, <2>1, Zenon
  <2>4. [kind |-> k, at |-> "detect"] \in Operations
    BY Zenon DEF Operations
  <2>5. SessionsTypeOK'
    BY <2>1, <2>2, <2>3, <2>4, Zenon
  <2>6. Probed'
    BY <2>1, <2>3, Zenon DEF Probed
  <2>7. BegunAsSet'
    BY <2>1, <2>2, <2>3, Zenon DEF BegunAsSet
  <2> QED BY <2>5, <2>6, <2>7, Zenon
<1>9. ASSUME NEW c \in Connections, Sessions!Call(c)
      PROVE  SessionsInv'
  <2>1. /\ UNCHANGED <<session, oneShot, begun, named>>
        /\ op' = [op EXCEPT ![c] = [kind |-> "caller", at |-> "detect"]]
    BY <1>9, Zenon DEF Sessions!Call, Sessions!transaction
  <2>2. [kind |-> "caller", at |-> "detect"] \in Operations
    BY Zenon DEF Operations
  <2>3. SessionsTypeOK'
    BY <2>1, <2>2, Zenon
  <2>4. Probed' /\ BegunAsSet'
    BY <2>1 DEF Probed, BegunAsSet
  <2> QED BY <2>3, <2>4, Zenon
<1>10. ASSUME NEW c \in Connections, Sessions!Refuse(c)
       PROVE  SessionsInv'
  <2>1. /\ UNCHANGED <<session, oneShot>> /\ op' = [op EXCEPT ![c] = Sessions!Idle]
        /\ \/ UNCHANGED <<begun, named>>
           \/ begun' = [begun EXCEPT ![c] = "none"] /\ named' = [named EXCEPT ![c] = FALSE]
    BY <1>10, Zenon DEF Sessions!Refuse, Sessions!End, Sessions!transaction
  <2>2. Sessions!Idle \in Operations /\ Sessions!Idle.at = "idle" /\ Sessions!Idle.kind = "none"
    BY Zenon DEF Operations, Sessions!Idle
  <2>3. SessionsTypeOK'
    BY <2>1, <2>2, Zenon
  <2>4. Probed' /\ BegunAsSet'
    BY <2>1, <2>2 DEF Probed, BegunAsSet
  <2> QED BY <2>3, <2>4, Zenon
<1>11. ASSUME NEW c \in Connections, op[c].at = "detect", Sessions!Probe(c),
              op' = [op EXCEPT ![c].at = "work"], UNCHANGED <<session, oneShot, begun, named>>
       PROVE  SessionsInv'
  <2>1. op[c] \in [kind : {"owned", "snapshot", "caller"}, at : {"detect", "work"}]
    BY <1>11 DEF Operations, Sessions!Idle
  <2>2. op' = [op EXCEPT ![c] = [op[c] EXCEPT !.at = "work"]]
    BY <1>11, Zenon
  <2>3. [op[c] EXCEPT !.at = "work"] \in Operations /\ [op[c] EXCEPT !.at = "work"].kind = op[c].kind
    BY <2>1, Zenon DEF Operations
  <2>4. SessionsTypeOK'
    BY <1>11, <2>2, <2>3, Zenon
  <2>5. Probed'
    BY <1>11, <2>2, <2>3, Zenon DEF Probed, Sessions!Probe
  <2>6. BegunAsSet'
    BY <1>11, <2>2, <2>3, Zenon DEF BegunAsSet
  <2> QED BY <2>4, <2>5, <2>6, Zenon
<1>12. ASSUME NEW c \in Connections, Sessions!Detect(c)
       PROVE  SessionsInv'
  BY <1>10, <1>11, <1>12, Zenon DEF Sessions!Detect, Sessions!transaction
<1>13. ASSUME NEW c \in Connections, Sessions!Finish(c)
       PROVE  SessionsInv'
  BY <1>10, <1>13, Zenon DEF Sessions!Finish
<1> QED
  BY <1>1, <1>2, <1>3, <1>4, <1>6, <1>7, <1>8, <1>9, <1>12, <1>13 DEF Sessions!Next

LEMMA SessionsInvSafe == SessionsInv => SessionsSafe
<1> SUFFICES ASSUME SessionsInv, NEW c \in Connections, op[c].at = "work"
             PROVE  /\ session[c].time_zone = "UTC" /\ session[c].character_set = "utf8mb4"
                    /\ session[c].sql_mode = {"STRICT_TRANS_TABLES"}
                    /\ \/ session[c].server[1] = "mysql" /\ Sessions!AtLeast(session[c].server, 8, 4)
                       \/ session[c].server[1] = "mariadb" /\ Sessions!AtLeast(session[c].server, 11, 8)
                    /\ op[c].kind # "caller" /\ ~named[c] => begun[c] = "REPEATABLE-READ"
  BY Zenon DEF SessionsSafe, Sessions!WorkIsSafe, Sessions!RunsAsProbed
<1>1. Sessions!detect_on_connection(session[c])
  BY Zenon DEF SessionsInv, Probed
<1>2. /\ session[c].time_zone = "UTC" /\ session[c].character_set = "utf8mb4"
      /\ session[c].transaction_isolation = "REPEATABLE-READ"
      /\ {"STRICT_TRANS_TABLES", "STRICT_ALL_TABLES"} \cap session[c].sql_mode # {}
      /\ "NO_AUTO_VALUE_ON_ZERO" \notin session[c].sql_mode
      /\ Sessions!kind(session[c].server) # "unidentified"
      /\ Sessions!supported(Sessions!kind(session[c].server), session[c].server)
  BY <1>1, Zenon DEF Sessions!detect_on_connection
<1>3. session[c].sql_mode \in {{"STRICT_TRANS_TABLES"}, {}, {"STRICT_ALL_TABLES", "NO_AUTO_VALUE_ON_ZERO"}}
  BY Zenon DEF SessionsInv, SessionsTypeOK, Sessions!Session
<1>4. session[c].sql_mode = {"STRICT_TRANS_TABLES"}
  BY <1>2, <1>3, Zenon
<1>5. \/ session[c].server[1] = "mysql" /\ Sessions!AtLeast(session[c].server, 8, 4)
      \/ session[c].server[1] = "mariadb" /\ Sessions!AtLeast(session[c].server, 11, 8)
  BY <1>2, Zenon DEF Sessions!kind, Sessions!supported
<1>6. op[c].kind # "caller" /\ ~named[c] => begun[c] = "REPEATABLE-READ"
  <2>1. op[c].kind \in {"owned", "snapshot", "caller"}
    BY DEF SessionsInv, SessionsTypeOK, Operations, Sessions!Idle
  <2> QED BY <1>2, <2>1, Zenon DEF SessionsInv, BegunAsSet
<1> QED BY <1>2, <1>4, <1>5, <1>6, Zenon

\* Whatever the application sets in the sessions of the pool and whichever servers it
\* reaches, no statement of an operation runs in a session that detect_on_connection would
\* refuse; and the transactions that claims, mutations and snapshot pagers begin run at
\* REPEATABLE READ, but for those whose level SET TRANSACTION named, unseen by the probe.
THEOREM SessionsAlwaysSafe == Sessions!Spec => []SessionsSafe
<1>1. Sessions!Init => SessionsInv
  BY SessionsInit, Zenon
<1>2. SessionsInv /\ [Sessions!Next]_(Sessions!vars) => SessionsInv'
  BY SessionsStep, Zenon
<1>3. SessionsInv => SessionsSafe
  BY SessionsInvSafe, Zenon
<1> QED
  BY <1>1, <1>2, <1>3, PTL DEF Sessions!Spec
-------------------------------------------------------------------------------
(* TenantScopes                                                            *)

Versions == {Scopes!Nothing} \union [tenant : Tenants, state : Scopes!AllStates]

ScopesTypeOK ==
  /\ adapter \in {"postgres", "mysql", "sqlite"}
  /\ rls \in BOOLEAN
  /\ rls => adapter = "postgres"
  /\ setting \in [Conns -> Tenants \union {NULL, ""}]
  /\ tx \in [Conns -> BOOLEAN]
  /\ deliveries \in [Ids -> [new : Versions, old : Versions, by : Conns \union {NULL}]]

\* No write gives a row to another tenant: a version seen by some transaction and the
\* version another is about to commit are of one tenant.
TenantFixed ==
  \A i \in Ids : deliveries[i].old.tenant \in Tenants
                   => deliveries[i].new.tenant = deliveries[i].old.tenant

ScopesInv == ScopesTypeOK /\ TenantFixed /\ TenantsApart

\* The predicate of a call admits the tenants its caller means, and on PostgreSQL a
\* tenant's handle binds its tenant.
LEMMA CallScope ==
  ASSUME ScopesTypeOK, NEW tenant \in Tenants, NEW handle \in Scopes!Handles(tenant),
         NEW o \in Scopes!PoolOps \union {"enqueue", "import", "finalize"}
  PROVE  /\ Scopes!Call(handle, tenant, o).admits = Scopes!Meant(handle, tenant, o)
         /\ Scopes!Call(handle, tenant, o).binds \in {NULL, tenant}
         /\ rls /\ handle # Admin => Scopes!Call(handle, tenant, o).binds = tenant
         /\ Scopes!Meant(handle, tenant, o) \subseteq Tenants
         /\ o \in {"enqueue", "import"} => Scopes!Meant(handle, tenant, o) = {tenant}
<1>1. handle # Admin => handle = tenant
  BY Zenon DEF Scopes!Handles
<1>2. /\ Scopes!Meant(handle, tenant, o) \subseteq Tenants
      /\ o \in {"enqueue", "import"} => Scopes!Meant(handle, tenant, o) = {tenant}
  BY <1>1, Zenon DEF Scopes!Meant, Scopes!Reads
<1>3. CASE adapter = "postgres"
  BY <1>1, <1>2, <1>3 DEF ScopesTypeOK, Scopes!Call, Scopes!Meant, Scopes!PoolOps, Scopes!Reads, Scopes!Mutations,
     Scopes!PgTenantOnPool, Scopes!PgTenantInTransaction, Scopes!PgAdminOnPool, Scopes!PgAdminInTransaction
<1>4. CASE adapter = "mysql"
  BY <1>1, <1>2, <1>4 DEF ScopesTypeOK, Scopes!Call, Scopes!Meant, Scopes!PoolOps, Scopes!Reads, Scopes!Mutations,
     Scopes!MysqlTenantOnPool, Scopes!MysqlTenantInTransaction, Scopes!MysqlAdminOnPool, Scopes!MysqlAdminInTransaction
<1>5. CASE adapter = "sqlite"
  BY <1>1, <1>2, <1>5 DEF ScopesTypeOK, Scopes!Call, Scopes!Meant, Scopes!PoolOps, Scopes!Reads, Scopes!Mutations,
     Scopes!SqliteTenantOnPool, Scopes!SqliteTenantInTransaction, Scopes!SqliteAdminOnPool, Scopes!SqliteAdminInTransaction
<1> QED BY <1>3, <1>4, <1>5, Zenon DEF ScopesTypeOK

\* The policy withholds nothing from a caller that is bound or exempt.
LEMMA PolicyAdmits ==
  ASSUME ScopesTypeOK, NEW tenant \in Tenants, NEW handle \in Scopes!Handles(tenant), NEW c \in Conns,
         NEW o \in Scopes!PoolOps \union {"enqueue", "import", "finalize"},
         handle # Admin \/ ~rls \/ c \in AdminConns
  PROVE  Scopes!Meant(handle, tenant, o)
           \subseteq Scopes!Policy(c, Scopes!bind_tenant(c, Scopes!Call(handle, tenant, o).binds))
<1>1. CASE rls /\ c \notin AdminConns
  <2>1. Scopes!Meant(handle, tenant, o) = {tenant}
    BY <1>1, Zenon DEF Scopes!Meant, Scopes!Handles
  <2>2. Scopes!Call(handle, tenant, o).binds = tenant
    BY <1>1, CallScope, Zenon
  <2>3. Scopes!bind_tenant(c, tenant) = tenant
    BY BoundaryAssumption, Zenon DEF Scopes!bind_tenant
  <2> QED BY <1>1, <2>1, <2>2, <2>3 DEF Scopes!Policy
<1>2. CASE ~(rls /\ c \notin AdminConns)
  BY <1>2, CallScope, Zenon DEF Scopes!Policy
<1> QED BY <1>1, <1>2, Zenon

LEMMA BoundValue ==
  ASSUME ScopesTypeOK, NEW tenant \in Tenants, NEW handle \in Scopes!Handles(tenant), NEW c \in Conns,
         NEW o \in Scopes!PoolOps \union {"enqueue", "import", "finalize"}
  PROVE  /\ Scopes!bind_tenant(c, Scopes!Call(handle, tenant, o).binds) \in Tenants \union {NULL, ""}
         /\ Scopes!unbound(Scopes!bind_tenant(c, Scopes!Call(handle, tenant, o).binds)) \in {NULL, ""}
<1>1. PICK b \in {NULL, tenant} : Scopes!Call(handle, tenant, o).binds = b
  BY CallScope, Zenon
<1>2. Scopes!bind_tenant(c, b) \in Tenants \union {NULL, ""}
  BY Zenon DEF Scopes!bind_tenant, ScopesTypeOK
<1> QED BY <1>1, <1>2, Zenon DEF Scopes!unbound

\* A row that a statement sees has the tenant the statement sees.
LEMMA SeenTenant ==
  ASSUME ScopesTypeOK, TenantFixed, NEW c \in Conns, NEW i \in Ids, NEW tenants \in SUBSET Tenants,
         i \in Scopes!OfTenants(c, tenants)
  PROVE  deliveries[i].new.tenant \in tenants
BY Zenon DEF ScopesTypeOK, TenantFixed, Scopes!OfTenants, Scopes!Seen

LEMMA ScopesInit == Scopes!Init => ScopesInv
<1> SUFFICES ASSUME Scopes!Init PROVE ScopesInv
  BY Zenon
<1>1. ScopesTypeOK
  BY Zenon DEF ScopesTypeOK, Scopes!Init, Versions
<1>2. TenantFixed
  BY Zenon DEF TenantFixed, Scopes!Init
<1>3. TenantsApart
  BY BoundaryAssumption, Zenon DEF TenantsApart, Scopes!Isolated, Scopes!NothingWithheld, Scopes!NoLeftBinding, Scopes!Init, Scopes!Quiet
<1> QED BY <1>1, <1>2, <1>3, Zenon DEF ScopesInv
LEMMA NothingOfNoTenant == Scopes!Nothing.tenant \notin Tenants
BY BoundaryAssumption, Zenon DEF Scopes!Nothing

\* What an operation that reports due and served rows must show of them.
LEMMA Reported ==
  ASSUME NEW handle, NEW tenant, NEW o, NEW c, NEW due, NEW served, rls' = rls,
         last' = [handle |-> handle, op |-> o, tenant |-> tenant, conn |-> c, due |-> due, served |-> served],
         \A i \in served : deliveries'[i].new.tenant \in Scopes!Meant(handle, tenant, o),
         handle # Admin \/ ~rls \/ c \in AdminConns => due \subseteq served
  PROVE  Scopes!Isolated' /\ Scopes!NothingWithheld'
<1>1. Scopes!Isolated'
  BY Zenon DEF Scopes!Isolated
<1>2. Scopes!NothingWithheld'
  BY Zenon DEF Scopes!NothingWithheld
<1> QED BY <1>1, <1>2, Zenon

LEMMA OnPoolKeeps ==
  ASSUME ScopesInv, NEW c \in Conns, NEW tenant \in Tenants, NEW handle \in Scopes!Handles(tenant),
         NEW o \in Scopes!PoolOps, NEW m \in SUBSET Ids, NEW s \in Scopes!AllStates \union {"same"},
         Scopes!OnPool(c, handle, tenant, o, m, s)
  PROVE  ScopesInv'
<1> DEFINE binds == Scopes!Call(handle, tenant, o).binds
           value == Scopes!bind_tenant(c, binds)
           meant == Scopes!Meant(handle, tenant, o)
<1>0. ScopesTypeOK /\ TenantFixed /\ o \in Scopes!PoolOps \union {"enqueue", "import", "finalize"}
  BY Zenon DEF ScopesInv
<1>1. PICK served : served = m \intersect Scopes!OfTenants(c, meant \intersect Scopes!Policy(c, value))
  BY Zenon
<1>2. PICK due : due = m \intersect Scopes!OfTenants(c, meant)
  BY Zenon
<1>3. /\ ~tx[c]
      /\ last' = [handle |-> handle, op |-> o, tenant |-> tenant, conn |-> c, due |-> due, served |-> served]
      /\ deliveries' = IF s = "same" THEN deliveries ELSE Scopes!PutCommitted(served, s)
      /\ setting' = [setting EXCEPT ![c] = Scopes!unbound(value)]
      /\ UNCHANGED <<adapter, rls, tx>>
  <2>1. Scopes!Call(handle, tenant, o).admits = meant
    BY <1>0, CallScope, Zenon
  <2> QED BY <1>1, <1>2, <2>1 DEF Scopes!OnPool, Scopes!Report
<1>4. meant \subseteq Tenants
  BY <1>0, CallScope, Zenon
<1>5. served \subseteq Ids /\ \A i \in served : deliveries[i].new.tenant \in meant
  BY <1>0, <1>1, <1>4, SeenTenant
<1>6. handle # Admin \/ ~rls \/ c \in AdminConns => due \subseteq served
  <2> SUFFICES ASSUME handle # Admin \/ ~rls \/ c \in AdminConns PROVE due \subseteq served
    BY Zenon
  <2>1. meant \subseteq Scopes!Policy(c, value)
    BY <1>0, PolicyAdmits, Zenon
  <2> QED BY <1>1, <1>2, <2>1, Zenon DEF Scopes!OfTenants
<1>7. Scopes!unbound(value) \in {NULL, ""}
  BY <1>0, BoundValue, Zenon
<1> HIDE DEF binds, value, meant
<1>8. \A i \in Ids : /\ deliveries'[i] \in [new : Versions, old : Versions, by : Conns \union {NULL}]
                     /\ deliveries'[i].new.tenant = deliveries[i].new.tenant
                     /\ \/ deliveries'[i].old = deliveries[i].old
                        \/ deliveries'[i].old = deliveries'[i].new
  <2>1. CASE s = "same"
    BY <1>0, <1>3, <2>1, Zenon DEF ScopesTypeOK
  <2>2. CASE s # "same"
    <3> SUFFICES ASSUME NEW i \in Ids
                 PROVE  /\ deliveries'[i] \in [new : Versions, old : Versions, by : Conns \union {NULL}]
                        /\ deliveries'[i].new.tenant = deliveries[i].new.tenant
                        /\ \/ deliveries'[i].old = deliveries[i].old
                           \/ deliveries'[i].old = deliveries'[i].new
      BY Zenon
    <3>1. CASE i \notin served
      BY <1>0, <1>3, <2>2, <3>1, Zenon DEF ScopesTypeOK, Scopes!PutCommitted
    <3>2. CASE i \in served
      <4>1. deliveries[i].new \in [tenant : Tenants, state : Scopes!AllStates]
        <5>1. deliveries[i].new \in Versions
          BY <1>0, Zenon DEF ScopesTypeOK
        <5>2. deliveries[i].new.tenant \in Tenants
          BY <1>4, <1>5, <3>2, Zenon
        <5> QED BY <5>1, <5>2, NothingOfNoTenant DEF Versions
      <4>2. PICK r : r = [deliveries[i].new EXCEPT !.state = s]
        BY Zenon
      <4>3. r \in Versions /\ r.tenant = deliveries[i].new.tenant
        BY <2>2, <4>1, <4>2, Zenon DEF Versions
      <4>4. deliveries'[i] = [new |-> r, old |-> r, by |-> NULL]
        BY <1>3, <2>2, <3>2, <4>2 DEF Scopes!PutCommitted
      <4> QED BY <4>3, <4>4
    <3> QED BY <3>1, <3>2, Zenon
  <2> QED BY <2>1, <2>2, Zenon
<1>9. deliveries' \in [Ids -> [new : Versions, old : Versions, by : Conns \union {NULL}]]
  BY <1>0, <1>3, <1>8, Zenon DEF ScopesTypeOK, Scopes!PutCommitted
<1>10. setting' \in [Conns -> Tenants \union {NULL, ""}]
  BY <1>0, <1>3, <1>7, Zenon DEF ScopesTypeOK
<1>11. ScopesTypeOK'
  BY <1>0, <1>3, <1>9, <1>10 DEF ScopesTypeOK
<1>12. TenantFixed'
  BY <1>0, <1>8, Zenon DEF TenantFixed
<1>13. Scopes!Isolated' /\ Scopes!NothingWithheld'
  <2>1. \A i \in served : deliveries'[i].new.tenant \in Scopes!Meant(handle, tenant, o)
    BY <1>5, <1>8, Zenon DEF meant
  <2> QED BY <1>3, <1>6, <2>1, Reported
<1>14. Scopes!NoLeftBinding'
  BY <1>0, <1>3, <1>7, BoundaryAssumption DEF ScopesInv, TenantsApart, Scopes!NoLeftBinding, ScopesTypeOK
<1> QED BY <1>11, <1>12, <1>13, <1>14 DEF ScopesInv, TenantsApart
LEMMA PageKeeps ==
  ASSUME ScopesInv, NEW c \in Conns, NEW tenant \in Tenants, NEW handle \in Scopes!Handles(tenant),
         NEW o \in Scopes!Reads, Scopes!Page(c, handle, tenant, o)
  PROVE  ScopesInv'
<1>1. PICK m \in SUBSET Ids : m = Scopes!InState(c, Scopes!AllStates)
  BY Zenon DEF Scopes!InState
<1>2. Scopes!OnPool(c, handle, tenant, o, m, "same")
  BY <1>1, Zenon DEF Scopes!Page
<1> QED BY <1>2, OnPoolKeeps, Zenon DEF Scopes!PoolOps

LEMMA ClaimKeeps ==
  ASSUME ScopesInv, NEW c \in Conns, NEW tenant \in Tenants, NEW handle \in Scopes!Handles(tenant),
         Scopes!Claim(c, handle, tenant)
  PROVE  ScopesInv'
<1>1. PICK m \in SUBSET Ids : m = Scopes!InState(c, {"pending"}) \intersect Scopes!Unlocked
  BY Zenon DEF Scopes!InState
<1>2. Scopes!OnPool(c, handle, tenant, "claim", m, "claimed")
  BY <1>1, Zenon DEF Scopes!Claim
<1>3. "claim" \in Scopes!PoolOps /\ "claimed" \in Scopes!AllStates
  BY Zenon DEF Scopes!PoolOps, Scopes!AllStates
<1> QED BY <1>2, <1>3, OnPoolKeeps, Zenon

LEMMA MutateKeeps ==
  ASSUME ScopesInv, NEW c \in Conns, NEW tenant \in Tenants, NEW handle \in Scopes!Handles(tenant),
         NEW o \in Scopes!Mutations, NEW i \in Ids, Scopes!Mutate(c, handle, tenant, o, i)
  PROVE  ScopesInv'
<1>1. PICK m \in SUBSET Ids : m = {i} \intersect Scopes!InState(c, {"claimed"})
  BY Zenon DEF Scopes!InState
<1>2. Scopes!OnPool(c, handle, tenant, o, m, Scopes!After(o))
  BY <1>1, Zenon DEF Scopes!Mutate
<1>3. o \in Scopes!PoolOps /\ Scopes!After(o) \in Scopes!AllStates
  BY Zenon DEF Scopes!PoolOps, Scopes!AllStates, Scopes!After, Scopes!Mutations
<1> QED BY <1>2, <1>3, OnPoolKeeps, Zenon

\* The end of a caller's transaction, whichever way it ends.
LEMMA EndKeeps ==
  ASSUME ScopesInv, NEW c \in Conns, NEW value \in {NULL, ""},
         deliveries' = Scopes!Committed(c) \/ deliveries' = Scopes!RolledBack(c),
         tx' = [tx EXCEPT ![c] = FALSE], setting' = [setting EXCEPT ![c] = value],
         UNCHANGED <<adapter, rls>>
  PROVE  ScopesTypeOK' /\ TenantFixed' /\ Scopes!NoLeftBinding'
<1>0. ScopesTypeOK /\ TenantFixed
  BY Zenon DEF ScopesInv
<1>1. \A i \in Ids : /\ deliveries'[i] \in [new : Versions, old : Versions, by : Conns \union {NULL}]
                     /\ deliveries'[i] = deliveries[i] \/ deliveries'[i].new = deliveries'[i].old
  <2> SUFFICES ASSUME NEW i \in Ids
               PROVE  /\ deliveries'[i] \in [new : Versions, old : Versions, by : Conns \union {NULL}]
                      /\ deliveries'[i] = deliveries[i] \/ deliveries'[i].new = deliveries'[i].old
    BY Zenon
  <2>1. deliveries[i] \in [new : Versions, old : Versions, by : Conns \union {NULL}]
    BY <1>0, Zenon DEF ScopesTypeOK
  <2>2. \/ deliveries'[i] = deliveries[i]
        \/ deliveries'[i] = [deliveries[i] EXCEPT !.old = deliveries[i].new, !.by = NULL]
        \/ deliveries'[i] = [deliveries[i] EXCEPT !.new = deliveries[i].old, !.by = NULL]
    BY Zenon DEF Scopes!Committed, Scopes!RolledBack
  <2> QED BY <2>1, <2>2, Zenon
<1>2. deliveries' \in [Ids -> [new : Versions, old : Versions, by : Conns \union {NULL}]]
  BY <1>1, Zenon DEF Scopes!Committed, Scopes!RolledBack
<1>3. ScopesTypeOK'
  BY <1>0, <1>2, Zenon DEF ScopesTypeOK
<1>4. TenantFixed'
  BY <1>0, <1>1, Zenon DEF TenantFixed
<1>5. Scopes!NoLeftBinding'
  BY <1>0, BoundaryAssumption, Zenon DEF ScopesInv, TenantsApart, Scopes!NoLeftBinding, ScopesTypeOK
<1> QED BY <1>3, <1>4, <1>5, Zenon

\* One row written inside a caller's transaction, keeping the row's tenant if it had one.
LEMMA PutKeeps ==
  ASSUME ScopesInv, NEW c \in Conns, NEW i \in Ids, NEW r \in Versions, NEW value \in Tenants \union {NULL, ""},
         tx[c], r.tenant = deliveries[i].new.tenant \/ deliveries[i].new = Scopes!Nothing,
         deliveries' = Scopes!Put(c, i, r), setting' = [setting EXCEPT ![c] = value],
         UNCHANGED <<adapter, rls, tx>>
  PROVE  ScopesTypeOK' /\ TenantFixed' /\ Scopes!NoLeftBinding' /\ deliveries'[i].new = r
<1>0. ScopesTypeOK /\ TenantFixed
  BY Zenon DEF ScopesInv
<1>1. deliveries' = [deliveries EXCEPT ![i] = [deliveries[i] EXCEPT !.new = r, !.by = c]]
  BY <1>0, Zenon DEF ScopesTypeOK, Scopes!Put
<1>2. PICK d : d = [deliveries[i] EXCEPT !.new = r, !.by = c]
  BY Zenon
<1>3. /\ d \in [new : Versions, old : Versions, by : Conns \union {NULL}]
      /\ d.new = r /\ d.old = deliveries[i].old
  BY <1>0, <1>2, Zenon DEF ScopesTypeOK
<1>4. ScopesTypeOK'
  <2>1. deliveries' \in [Ids -> [new : Versions, old : Versions, by : Conns \union {NULL}]]
    BY <1>0, <1>1, <1>2, <1>3 DEF ScopesTypeOK
  <2>2. setting' \in [Conns -> Tenants \union {NULL, ""}]
    BY <1>0, Zenon DEF ScopesTypeOK
  <2> QED BY <1>0, <2>1, <2>2 DEF ScopesTypeOK
<1>5. d.old.tenant \in Tenants => d.new.tenant = d.old.tenant
  BY <1>0, <1>3, NothingOfNoTenant DEF TenantFixed
<1>6. TenantFixed'
  BY <1>0, <1>1, <1>2, <1>5 DEF TenantFixed, ScopesTypeOK
<1>7. Scopes!NoLeftBinding'
  BY <1>0, Zenon DEF ScopesInv, TenantsApart, Scopes!NoLeftBinding, ScopesTypeOK
<1>8. deliveries'[i].new = r
  BY <1>0, <1>1, <1>2, <1>3 DEF ScopesTypeOK
<1> QED BY <1>4, <1>6, <1>7, <1>8
LEMMA InsertKeeps ==
  ASSUME ScopesInv, NEW c \in Conns, NEW tenant \in Tenants, NEW handle \in Scopes!Handles(tenant),
         NEW o \in {"enqueue", "import"}, NEW i \in Ids, Scopes!Insert(c, handle, tenant, o, i)
  PROVE  ScopesInv'
<1> DEFINE value == Scopes!bind_tenant(c, Scopes!Call(handle, tenant, o).binds)
           allowed == tenant \in Scopes!Policy(c, value)
<1>0. ScopesTypeOK /\ TenantFixed /\ o \in Scopes!PoolOps \union {"enqueue", "import", "finalize"}
  BY Zenon DEF ScopesInv
<1>1. Scopes!Meant(handle, tenant, o) = {tenant} /\ Scopes!Call(handle, tenant, o).admits = {tenant}
  BY <1>0, CallScope
<1>2. (CHOOSE t \in {tenant} : TRUE) = tenant
  BY Zenon
<1>3. /\ tx[c] /\ deliveries[i].new = Scopes!Nothing
      /\ last' = [handle |-> handle, op |-> o, tenant |-> tenant, conn |-> c, due |-> {i},
                  served |-> IF allowed THEN {i} ELSE {}]
      /\ \/ /\ allowed
            /\ deliveries' = Scopes!Put(c, i, [tenant |-> tenant, state |-> "pending"])
            /\ setting' = [setting EXCEPT ![c] = value]
            /\ UNCHANGED tx
         \/ /\ ~allowed
            /\ deliveries' = Scopes!RolledBack(c) /\ tx' = [tx EXCEPT ![c] = FALSE]
            /\ setting' = [setting EXCEPT ![c] = Scopes!unbound(value)]
      /\ UNCHANGED <<adapter, rls>>
  BY <1>1, <1>2, Zenon DEF Scopes!Insert, Scopes!Report, Scopes!EndTransaction
<1>4. value \in Tenants \union {NULL, ""} /\ Scopes!unbound(value) \in {NULL, ""}
  BY <1>0, BoundValue, Zenon
<1>5. handle # Admin \/ ~rls \/ c \in AdminConns => allowed
  BY <1>0, <1>1, PolicyAdmits, Zenon
<1> HIDE DEF value, allowed
<1>6. CASE allowed
  <2>1. PICK r \in Versions : r = [tenant |-> tenant, state |-> "pending"]
    BY Zenon DEF Versions, Scopes!AllStates
  <2>2. /\ deliveries' = Scopes!Put(c, i, r) /\ setting' = [setting EXCEPT ![c] = value]
        /\ UNCHANGED <<adapter, rls, tx>> /\ tx[c] /\ deliveries[i].new = Scopes!Nothing
    BY <1>3, <1>6, <2>1, Zenon
  <2>3. ScopesTypeOK' /\ TenantFixed' /\ Scopes!NoLeftBinding' /\ deliveries'[i].new = r
    BY <1>4, <2>2, PutKeeps, Zenon
  <2>4. last' = [handle |-> handle, op |-> o, tenant |-> tenant, conn |-> c, due |-> {i}, served |-> {i}]
    BY <1>3, <1>6, Zenon
  <2>5. \A j \in {i} : deliveries'[j].new.tenant \in Scopes!Meant(handle, tenant, o)
    BY <1>1, <2>1, <2>3
  <2>6. Scopes!Isolated' /\ Scopes!NothingWithheld'
    BY <2>2, <2>4, <2>5, Reported
  <2> QED BY <2>3, <2>6, Zenon DEF ScopesInv, TenantsApart
<1>7. CASE ~allowed
  <2>1. /\ deliveries' = Scopes!RolledBack(c) /\ tx' = [tx EXCEPT ![c] = FALSE]
        /\ setting' = [setting EXCEPT ![c] = Scopes!unbound(value)] /\ UNCHANGED <<adapter, rls>>
    BY <1>3, <1>7, Zenon
  <2>2. ScopesTypeOK' /\ TenantFixed' /\ Scopes!NoLeftBinding'
    BY <1>4, <2>1, EndKeeps
  <2>3. last' = [handle |-> handle, op |-> o, tenant |-> tenant, conn |-> c, due |-> {i}, served |-> {}]
    BY <1>3, <1>7, Zenon
  <2>4. Scopes!Isolated' /\ Scopes!NothingWithheld'
    BY <1>5, <1>7, <2>1, <2>3, Reported
  <2> QED BY <2>2, <2>4, Zenon DEF ScopesInv, TenantsApart
<1> QED BY <1>6, <1>7, Zenon

LEMMA FinalizeKeeps ==
  ASSUME ScopesInv, NEW c \in Conns, NEW tenant \in Tenants, NEW handle \in Scopes!Handles(tenant),
         NEW i \in Ids, Scopes!Finalize(c, handle, tenant, i)
  PROVE  ScopesInv'
<1> DEFINE value == Scopes!bind_tenant(c, Scopes!Call(handle, tenant, "finalize").binds)
           meant == Scopes!Meant(handle, tenant, "finalize")
           found == i \in Scopes!OfTenants(c, meant \intersect Scopes!Policy(c, value))
                            \intersect Scopes!InState(c, {"pending"})
<1>0. ScopesTypeOK /\ TenantFixed /\ "finalize" \in Scopes!PoolOps \union {"enqueue", "import", "finalize"}
  BY Zenon DEF ScopesInv
<1>1. Scopes!Call(handle, tenant, "finalize").admits = meant /\ meant \subseteq Tenants
  BY <1>0, CallScope, Zenon
<1>2. PICK due : due = {i} \intersect Scopes!OfTenants(c, meant) \intersect Scopes!InState(c, {"pending"})
  BY Zenon
<1>3. /\ tx[c] /\ deliveries[i].by \in {NULL, c}
      /\ last' = [handle |-> handle, op |-> "finalize", tenant |-> tenant, conn |-> c, due |-> due,
                  served |-> IF found THEN {i} ELSE {}]
      /\ deliveries' = IF found THEN Scopes!Put(c, i, [Scopes!Seen(c, i) EXCEPT !.state = "delivered"])
                                ELSE deliveries
      /\ setting' = [setting EXCEPT ![c] = value]
      /\ UNCHANGED <<adapter, rls, tx>>
  BY <1>1, <1>2, Zenon DEF Scopes!Finalize, Scopes!Report
<1>4. value \in Tenants \union {NULL, ""}
  BY <1>0, BoundValue, Zenon
<1>5. (handle # Admin \/ ~rls \/ c \in AdminConns) /\ due # {} => found
  <2> SUFFICES ASSUME handle # Admin \/ ~rls \/ c \in AdminConns, due # {} PROVE found
    BY Zenon
  <2>1. meant \subseteq Scopes!Policy(c, value)
    BY <1>0, PolicyAdmits, Zenon
  <2>2. meant \intersect Scopes!Policy(c, value) = meant
    BY <2>1, Zenon
  <2> QED BY <1>2, <2>2, Zenon
<1>6. found => deliveries[i].new.tenant \in meant
  BY <1>0, <1>1, SeenTenant
<1>7. due \subseteq {i}
  BY <1>2, Zenon
<1> HIDE DEF value, found
<1>8. CASE found
  <2>1. Scopes!Seen(c, i) = deliveries[i].new
    BY <1>3, Zenon DEF Scopes!Seen
  <2>2. deliveries[i].new \in [tenant : Tenants, state : Scopes!AllStates]
    <3>1. deliveries[i].new \in Versions
      BY <1>0, Zenon DEF ScopesTypeOK
    <3> QED BY <1>1, <1>6, <1>8, <3>1, NothingOfNoTenant, Zenon DEF Versions
  <2>3. PICK r : r = [deliveries[i].new EXCEPT !.state = "delivered"]
    BY Zenon
  <2>4. r \in Versions /\ r.tenant = deliveries[i].new.tenant
    BY <2>2, <2>3, Zenon DEF Versions, Scopes!AllStates
  <2>5. /\ deliveries' = Scopes!Put(c, i, r) /\ setting' = [setting EXCEPT ![c] = value]
        /\ UNCHANGED <<adapter, rls, tx>> /\ tx[c]
    BY <1>3, <1>8, <2>1, <2>3, Zenon
  <2>6. ScopesTypeOK' /\ TenantFixed' /\ Scopes!NoLeftBinding' /\ deliveries'[i].new = r
    BY <1>4, <2>4, <2>5, PutKeeps, Zenon
  <2>7. \A j \in {i} : deliveries'[j].new.tenant \in Scopes!Meant(handle, tenant, "finalize")
    BY <1>6, <1>8, <2>4, <2>6, Zenon
  <2>8. last' = [handle |-> handle, op |-> "finalize", tenant |-> tenant, conn |-> c, due |-> due, served |-> {i}]
    BY <1>3, <1>8, Zenon
  <2>9. Scopes!Isolated' /\ Scopes!NothingWithheld'
    BY <1>7, <2>5, <2>7, <2>8, Reported
  <2> QED BY <2>6, <2>9, Zenon DEF ScopesInv, TenantsApart
<1>9. CASE ~found
  <2>1. /\ deliveries' = deliveries /\ setting' = [setting EXCEPT ![c] = value]
        /\ UNCHANGED <<adapter, rls, tx>> /\ tx[c]
    BY <1>3, <1>9, Zenon
  <2>2. ScopesTypeOK'
    BY <1>0, <1>4, <2>1, Zenon DEF ScopesTypeOK
  <2>3. TenantFixed'
    BY <1>0, <2>1, Zenon DEF TenantFixed
  <2>4. Scopes!NoLeftBinding'
    BY <1>0, <2>1, Zenon DEF ScopesInv, TenantsApart, Scopes!NoLeftBinding, ScopesTypeOK
  <2>5. last' = [handle |-> handle, op |-> "finalize", tenant |-> tenant, conn |-> c, due |-> due, served |-> {}]
    BY <1>3, <1>9, Zenon
  <2>6. Scopes!Isolated' /\ Scopes!NothingWithheld'
    BY <1>5, <1>9, <2>1, <2>5, Reported
  <2> QED BY <2>2, <2>3, <2>4, <2>6, Zenon DEF ScopesInv, TenantsApart
<1> QED BY <1>8, <1>9, Zenon
LEMMA ScopesStep == ScopesInv /\ [Scopes!Next]_(Scopes!vars) => ScopesInv'
<1> SUFFICES ASSUME ScopesInv, [Scopes!Next]_(Scopes!vars) PROVE ScopesInv'
  BY Zenon
<1>0. ScopesTypeOK /\ TenantFixed /\ TenantsApart
  BY Zenon DEF ScopesInv
<1>1. CASE UNCHANGED Scopes!vars
  <2>1. ScopesTypeOK' /\ TenantFixed'
    BY <1>0, <1>1, Zenon DEF Scopes!vars, ScopesTypeOK, TenantFixed
  <2>2. TenantsApart'
    BY <1>0, <1>1, Zenon DEF Scopes!vars, TenantsApart, Scopes!Isolated, Scopes!NothingWithheld, Scopes!NoLeftBinding
  <2> QED BY <2>1, <2>2, Zenon DEF ScopesInv
<1>2. ASSUME last' = Scopes!Quiet PROVE Scopes!Isolated' /\ Scopes!NothingWithheld'
  BY <1>2, Zenon DEF Scopes!Quiet, Scopes!Isolated, Scopes!NothingWithheld
<1>3. ASSUME NEW c \in Conns, Scopes!Begin(c) PROVE ScopesInv'
  <2>1. ScopesTypeOK' /\ TenantFixed'
    BY <1>0, <1>3, Zenon DEF Scopes!Begin, ScopesTypeOK, TenantFixed
  <2>2. Scopes!NoLeftBinding'
    BY <1>0, <1>3, Zenon DEF Scopes!Begin, TenantsApart, Scopes!NoLeftBinding, ScopesTypeOK
  <2> QED BY <1>2, <1>3, <2>1, <2>2 DEF Scopes!Begin, ScopesInv, TenantsApart
<1>4. ASSUME NEW c \in Conns, Scopes!Commit(c) \/ Scopes!Rollback(c) PROVE ScopesInv'
  <2>1. PICK value \in {NULL, ""} : value = Scopes!unbound(setting[c])
    BY Zenon DEF Scopes!unbound
  <2>2. /\ deliveries' = Scopes!Committed(c) \/ deliveries' = Scopes!RolledBack(c)
        /\ tx' = [tx EXCEPT ![c] = FALSE] /\ setting' = [setting EXCEPT ![c] = value]
        /\ UNCHANGED <<adapter, rls>> /\ last' = Scopes!Quiet
    BY <1>0, <1>4, <2>1, Zenon DEF Scopes!Commit, Scopes!Rollback, Scopes!EndTransaction
  <2>3. ScopesTypeOK' /\ TenantFixed' /\ Scopes!NoLeftBinding'
    BY <2>2, EndKeeps, Zenon
  <2> QED BY <1>2, <2>2, <2>3, Zenon DEF ScopesInv, TenantsApart
<1>5. ASSUME NEW c \in Conns, NEW tenant \in Tenants, NEW handle \in Scopes!Handles(tenant),
             \/ \E o \in {"enqueue", "import"}, i \in Ids : Scopes!Insert(c, handle, tenant, o, i)
             \/ \E i \in Ids : Scopes!Finalize(c, handle, tenant, i)
             \/ \E o \in Scopes!Reads : Scopes!Page(c, handle, tenant, o)
             \/ Scopes!Claim(c, handle, tenant)
             \/ \E o \in Scopes!Mutations, i \in Ids : Scopes!Mutate(c, handle, tenant, o, i)
      PROVE  ScopesInv'
  BY <1>5, InsertKeeps, FinalizeKeeps, PageKeeps, ClaimKeeps, MutateKeeps
<1> QED BY <1>1, <1>3, <1>4, <1>5, Zenon DEF Scopes!Next

\* A tenant's handle serves no row of another tenant, the RLS profile withholds none of
\* its own, and no tenant stays bound to a pooled connection: for any tenants, handles
\* and connections, in every interleaving of caller-owned transactions, and on each
\* adapter (the scope each method of TenantDovecote and AdminDovecote passes on).
THEOREM TenantsAlwaysApart == Scopes!Spec => []TenantsApart
<1>1. Scopes!Init => ScopesInv
  BY ScopesInit, Zenon
<1>2. ScopesInv /\ [Scopes!Next]_(Scopes!vars) => ScopesInv'
  BY ScopesStep, Zenon
<1>3. ScopesInv => TenantsApart
  BY Zenon DEF ScopesInv
<1> QED
  BY <1>1, <1>2, <1>3, PTL DEF Scopes!Spec

-------------------------------------------------------------------------------
(* StoredRows                                                              *)

Rows ==
  [state : {"pending", "claimed", "delivered", "quarantined"},
   available_at : Int, attempts : Int,
   claim_token : {NULL, "16 bytes", "15 bytes"}, claimed_by : {NULL, "", "ok", "not UTF-8"},
   claim_expires_at : Int \union {NULL},
   last_failure : {NULL, "", "ok"} \X {NULL, "", "ok"},
   delivered_at : Int \union {NULL}, quarantined_at : Int \union {NULL},
   quarantine_reason : {NULL, "", "ok"}]

StoredTypeOK ==
  /\ adapter \in Stored!Adapters
  /\ now \in 0..MaxInstant
  /\ row \in Rows
  /\ adapter # "mysql" => row.claimed_by # "not UTF-8"

\* What a page shows: the right-hand side of ReadableExactly, column by column.
FailureUsable ==
  \/ row.last_failure[1] = NULL /\ row.last_failure[2] = NULL
  \/ row.last_failure[1] = "ok" /\ row.last_failure[2] = "ok"

NoClaim == row.claim_token = NULL /\ row.claimed_by = NULL /\ row.claim_expires_at = NULL
NoQuarantine == row.quarantined_at = NULL /\ row.quarantine_reason = NULL

StateUsable ==
  \/ row.state = "pending" /\ NoClaim /\ row.delivered_at = NULL /\ NoQuarantine
  \/ /\ row.state = "claimed" /\ row.claim_token = "16 bytes" /\ row.claimed_by = "ok"
     /\ row.claim_expires_at \in 0..MaxInstant /\ row.delivered_at = NULL /\ NoQuarantine
  \/ row.state = "delivered" /\ NoClaim /\ row.delivered_at \in 0..MaxInstant /\ NoQuarantine
  \/ /\ row.state = "quarantined" /\ NoClaim /\ row.delivered_at = NULL
     /\ row.quarantined_at \in 0..MaxInstant /\ row.quarantine_reason = "ok"

Usable ==
  row.attempts >= 0 /\ row.available_at \in 0..MaxInstant /\ FailureUsable /\ StateUsable

\* What the CHECKs ask of a row, column by column.
Shaped ==
  /\ row.attempts >= 0 /\ row.claim_token # "15 bytes"
  /\ (row.last_failure[1] = NULL) = (row.last_failure[2] = NULL)
  /\ \/ row.state = "pending" /\ NoClaim /\ row.delivered_at = NULL /\ NoQuarantine
     \/ /\ row.state = "claimed" /\ row.claim_token # NULL /\ row.claimed_by # NULL
        /\ row.claim_expires_at # NULL /\ row.delivered_at = NULL /\ NoQuarantine
     \/ row.state = "delivered" /\ NoClaim /\ row.delivered_at # NULL /\ NoQuarantine
     \/ /\ row.state = "quarantined" /\ NoClaim /\ row.delivered_at = NULL
        /\ row.quarantined_at # NULL /\ row.quarantine_reason # NULL

\* What every operation leaves of a usable row.
Kept == Usable \/ (Stored!PastTheEnd /\ Shaped)

LEMMA Pairs ==
  ASSUME NEW S, NEW f \in S \X S
  PROVE  /\ f[1] \in S /\ f[2] \in S
         /\ f = <<NULL, NULL>> <=> f[1] = NULL /\ f[2] = NULL
<1>1. f[1] \in S /\ f[2] \in S
  BY Zenon
<1>2. f = <<NULL, NULL>> <=> f[1] = NULL /\ f[2] = NULL
  OBVIOUS
<1> QED BY <1>1, <1>2, Zenon

LEMMA NullIsNoInstant == NULL \notin 0..MaxInstant
<1>1. NULL \notin Int /\ MaxInstant \in Nat
  BY BoundaryAssumption, Zenon
<1> QED BY <1>1

LEMMA SnapshotIsNoError ==
  ASSUME StoredTypeOK
  PROVE  Stored!DeliverySnapshot(row) # Stored!Error
<1>1. "state" \in Stored!Fields(row.state)
  BY Zenon DEF Stored!Fields
<1>2. Stored!DeliverySnapshot(row)["state"] = row.state
  BY <1>1, Zenon DEF Stored!DeliverySnapshot
<1>3. row.state # "error"
  BY Zenon DEF StoredTypeOK, Rows
<1>4. Stored!Error["state"] = "error"
  BY Zenon DEF Stored!Error
<1> QED BY <1>2, <1>3, <1>4, Zenon

LEMMA HydratesUsable ==
  ASSUME StoredTypeOK, NEW undecodable, undecodable = {} \/ undecodable = Stored!NoText,
         row.claimed_by = "not UTF-8" => undecodable = Stored!NoText
  PROVE  Stored!Hydrate(row, undecodable) # Stored!Error <=> Usable
<1> DEFINE ready ==
     /\ Stored!AttemptCount(row.attempts)
     /\ Stored!parse_failure(row.last_failure, undecodable)
     /\ Stored!validate_instant(row.available_at)
     /\ \/ row.state = "pending" /\ Stored!Absent(row, Stored!ClaimColumns \union {"delivered_at"} \union Stored!QuarantineColumns)
        \/ /\ row.state = "claimed"
           /\ Stored!require_token_width(row.claim_token)
           /\ row.claimed_by # NULL /\ row.claimed_by \notin undecodable /\ Stored!WorkerId(row.claimed_by)
           /\ row.claim_expires_at # NULL /\ Stored!validate_instant(row.claim_expires_at)
           /\ Stored!Absent(row, {"delivered_at"} \union Stored!QuarantineColumns)
        \/ /\ row.state = "delivered" /\ Stored!Absent(row, Stored!ClaimColumns \union Stored!QuarantineColumns)
           /\ row.delivered_at # NULL /\ Stored!validate_instant(row.delivered_at)
        \/ /\ row.state = "quarantined" /\ Stored!Absent(row, Stored!ClaimColumns \union {"delivered_at"})
           /\ row.quarantined_at # NULL /\ Stored!validate_instant(row.quarantined_at)
           /\ row.quarantine_reason # NULL /\ row.quarantine_reason \notin undecodable
           /\ Stored!QuarantineReason(row.quarantine_reason)
<1>1. Stored!Hydrate(row, undecodable) # Stored!Error <=> ready
  BY SnapshotIsNoError, Zenon DEF Stored!Hydrate
<1>2. Stored!parse_failure(row.last_failure, undecodable) <=> FailureUsable
  <2>1. /\ row.last_failure[1] \in {NULL, "", "ok"} /\ row.last_failure[2] \in {NULL, "", "ok"}
        /\ row.last_failure = <<NULL, NULL>> <=> row.last_failure[1] = NULL /\ row.last_failure[2] = NULL
    <3>1. row.last_failure \in {NULL, "", "ok"} \X {NULL, "", "ok"}
      BY Zenon DEF StoredTypeOK, Rows
    <3> QED BY <3>1, Pairs, Zenon
  <2>2. NULL \notin {"", "ok"}
    BY BoundaryAssumption, Zenon
  <2>3. "" \notin undecodable /\ "ok" \notin undecodable
    BY Zenon DEF Stored!NoText
  <2> QED BY <2>1, <2>2, <2>3
            DEF Stored!parse_failure, Stored!Failure, Stored!validate_string, FailureUsable
<1>3. /\ Stored!Absent(row, Stored!ClaimColumns \union {"delivered_at"} \union Stored!QuarantineColumns)
            <=> NoClaim /\ row.delivered_at = NULL /\ NoQuarantine
      /\ Stored!Absent(row, {"delivered_at"} \union Stored!QuarantineColumns) <=> row.delivered_at = NULL /\ NoQuarantine
      /\ Stored!Absent(row, Stored!ClaimColumns \union Stored!QuarantineColumns) <=> NoClaim /\ NoQuarantine
      /\ Stored!Absent(row, Stored!ClaimColumns \union {"delivered_at"}) <=> NoClaim /\ row.delivered_at = NULL
  BY Zenon DEF Stored!Absent, Stored!ClaimColumns, Stored!QuarantineColumns, NoClaim, NoQuarantine
<1>4. /\ row.claimed_by # NULL /\ row.claimed_by \notin undecodable /\ Stored!WorkerId(row.claimed_by)
            <=> row.claimed_by = "ok"
      /\ row.quarantine_reason # NULL /\ row.quarantine_reason \notin undecodable
           /\ Stored!QuarantineReason(row.quarantine_reason) <=> row.quarantine_reason = "ok"
  BY BoundaryAssumption, Zenon DEF StoredTypeOK, Rows, Stored!WorkerId, Stored!QuarantineReason, Stored!validate_string, Stored!NoText
<1>5. \A t : t # NULL /\ Stored!validate_instant(t) <=> t \in 0..MaxInstant
  <2> QED BY NullIsNoInstant, Zenon DEF Stored!validate_instant
<1> QED
  BY <1>1, <1>2, <1>3, <1>4, <1>5 DEF Usable, StateUsable, Stored!AttemptCount, Stored!require_token_width, Stored!validate_instant
LEMMA ReadIffUsable == StoredTypeOK => (Stored!Read <=> Usable)
<1> SUFFICES ASSUME StoredTypeOK PROVE Stored!Read <=> Usable
  BY Zenon
<1>1. CASE adapter = "mysql"
  BY <1>1, HydratesUsable, Zenon DEF Stored!Read, Stored!hydrate_page, Stored!mysql_hydrate_page
<1>2. CASE adapter = "postgres"
  BY <1>2, HydratesUsable, Zenon DEF Stored!Read, Stored!hydrate_page, Stored!pg_hydrate_page, StoredTypeOK, Rows
<1>3. CASE adapter = "sqlite"
  BY <1>3, HydratesUsable, Zenon DEF Stored!Read, Stored!hydrate_page, Stored!sqlite_hydrate_page, StoredTypeOK, Rows
<1> QED BY <1>1, <1>2, <1>3 DEF StoredTypeOK, Rows, Stored!Adapters

LEMMA CheckIsShape == Stored!Check(row) <=> Shaped
BY DEF Stored!Check, Stored!Absent, Stored!Present, Stored!ClaimColumns, Stored!QuarantineColumns,
       Shaped, NoClaim, NoQuarantine

LEMMA UsableIsChecked ==
  ASSUME StoredTypeOK
  PROVE  Usable <=> /\ Stored!Check(row)
                    /\ Stored!validate_instant(row.available_at)
                    /\ \A c \in {"claim_expires_at", "delivered_at", "quarantined_at"} :
                          row[c] = NULL \/ Stored!validate_instant(row[c])
                    /\ \A text \in {row.claimed_by, row.quarantine_reason, row.last_failure[1],
                                    row.last_failure[2]} : text = NULL \/ text = "ok"
<1>1. /\ row.state \in {"pending", "claimed", "delivered", "quarantined"}
      /\ row.claim_token \in {NULL, "16 bytes", "15 bytes"}
      /\ row.last_failure[1] \in {NULL, "", "ok"} /\ row.last_failure[2] \in {NULL, "", "ok"}
  BY Zenon DEF StoredTypeOK, Rows
<1>2. NULL \notin 0..MaxInstant /\ NULL \notin {"", "ok", "not UTF-8", "16 bytes", "15 bytes"}
  BY BoundaryAssumption, NullIsNoInstant, Zenon
<1>3. (\A c \in {"claim_expires_at", "delivered_at", "quarantined_at"} :
          row[c] = NULL \/ Stored!validate_instant(row[c]))
        <=> /\ row.claim_expires_at = NULL \/ row.claim_expires_at \in 0..MaxInstant
            /\ row.delivered_at = NULL \/ row.delivered_at \in 0..MaxInstant
            /\ row.quarantined_at = NULL \/ row.quarantined_at \in 0..MaxInstant
  BY Zenon DEF Stored!validate_instant
<1>4. Stored!Check(row) <=> Shaped
  BY CheckIsShape, Zenon
<1>5. FailureUsable <=> /\ (row.last_failure[1] = NULL) = (row.last_failure[2] = NULL)
                        /\ row.last_failure[1] = NULL \/ row.last_failure[1] = "ok"
                        /\ row.last_failure[2] = NULL \/ row.last_failure[2] = "ok"
  BY <1>1, <1>2, Zenon DEF FailureUsable
<1>6. StateUsable <=>
        /\ row.claim_token # "15 bytes"
        /\ \/ row.state = "pending" /\ NoClaim /\ row.delivered_at = NULL /\ NoQuarantine
           \/ /\ row.state = "claimed" /\ row.claim_token # NULL /\ row.claimed_by # NULL
              /\ row.claim_expires_at # NULL /\ row.delivered_at = NULL /\ NoQuarantine
           \/ row.state = "delivered" /\ NoClaim /\ row.delivered_at # NULL /\ NoQuarantine
           \/ /\ row.state = "quarantined" /\ NoClaim /\ row.delivered_at = NULL
              /\ row.quarantined_at # NULL /\ row.quarantine_reason # NULL
        /\ row.claim_expires_at = NULL \/ row.claim_expires_at \in 0..MaxInstant
        /\ row.delivered_at = NULL \/ row.delivered_at \in 0..MaxInstant
        /\ row.quarantined_at = NULL \/ row.quarantined_at \in 0..MaxInstant
        /\ row.claimed_by = NULL \/ row.claimed_by = "ok"
        /\ row.quarantine_reason = NULL \/ row.quarantine_reason = "ok"
  BY <1>1, <1>2, Zenon DEF StateUsable, NoClaim, NoQuarantine
<1> QED
  BY <1>3, <1>4, <1>5, <1>6 DEF Usable, Shaped, Stored!validate_instant

LEMMA AddedExactly ==
  ASSUME StoredTypeOK, NEW d \in Durations, Stored!Lease(d) \/ Stored!Delay(d)
  PROVE  Stored!Added(adapter, d) = d
<1>1. d \in Nat /\ d % 2 = 0
  BY BoundaryAssumption, Zenon DEF Stored!Lease, Stored!Delay, Stored!validate_duration
<1>2. 2 * (d \div 2) = d
  BY <1>1
<1> QED BY <1>1, <1>2, Zenon DEF Stored!Added, Stored!checked_milliseconds

LEMMA RowsUsableNow == StoredTypeOK => RowsUsable
<1> SUFFICES ASSUME StoredTypeOK PROVE RowsUsable
  BY Zenon
<1>1. Stored!ReadableExactly
  BY ReadIffUsable, UsableIsChecked, Zenon DEF Stored!ReadableExactly
<1>2. Stored!DurationsExact
  BY AddedExactly, Zenon DEF Stored!DurationsExact
<1>3. Stored!ReadableIsClaimable
  <2> SUFFICES ASSUME Stored!Read, Stored!Due(row), row.attempts < MaxAttempts PROVE Stored!ClaimTakes(row)
    BY Zenon DEF Stored!ReadableIsClaimable
  <2>1. Usable
    BY ReadIffUsable, Zenon
  <2>2. Stored!AttemptCount(row.attempts + 1)
    <3>1. row.attempts \in Int /\ row.attempts >= 0
      BY <2>1, Zenon DEF Usable, StoredTypeOK, Rows
    <3> QED BY <3>1 DEF Stored!AttemptCount
  <2>3. Stored!mysql_validate_delivery(row)
    <3>1. CASE row.state = "pending"
      BY <2>1, <3>1, Zenon DEF Usable, StateUsable, NoClaim, Stored!Due, Stored!mysql_validate_delivery, Stored!Absent, Stored!ClaimColumns
    <3>2. CASE row.state = "claimed"
      BY <2>1, <3>2, BoundaryAssumption DEF Usable, StateUsable, Stored!Due, Stored!mysql_validate_delivery,
         Stored!require_token_width, Stored!strv, Stored!NoText, Stored!WorkerId, Stored!validate_string
    <3> QED BY <3>1, <3>2, Zenon DEF Stored!Due
  <2> QED BY <2>2, <2>3, Zenon DEF Stored!ClaimTakes
<1> QED BY <1>1, <1>2, <1>3 DEF RowsUsable
LEMMA StoredInit == Stored!Init => StoredTypeOK
<1> SUFFICES ASSUME Stored!Init PROVE StoredTypeOK
  BY Zenon
<1>1. row \in Stored!Stored(adapter) /\ adapter \in Stored!Adapters /\ now = 0
  BY Zenon DEF Stored!Init
<1>2. 0 \in 0..MaxInstant /\ MaxAttempts \in Int
  <2>1. MaxInstant \in Nat /\ MaxAttempts \in Nat
    BY BoundaryAssumption, Zenon
  <2> QED BY <2>1
<1>3. /\ Stored!Texts(adapter) \subseteq {"", "ok", "not UTF-8"}
      /\ adapter # "mysql" => Stored!Texts(adapter) = {"", "ok"}
      /\ Stored!Tokens(adapter) \subseteq {"16 bytes", "15 bytes"}
  BY Zenon DEF Stored!Texts, Stored!Tokens
<1>4. {<<NULL, NULL>>, <<"ok", NULL>>, <<"", "ok">>, <<"ok", "ok">>} \subseteq {NULL, "", "ok"} \X {NULL, "", "ok"}
  <2>1. /\ <<NULL, NULL>> \in {NULL, "", "ok"} \X {NULL, "", "ok"}
        /\ <<"ok", NULL>> \in {NULL, "", "ok"} \X {NULL, "", "ok"}
        /\ <<"", "ok">> \in {NULL, "", "ok"} \X {NULL, "", "ok"}
        /\ <<"ok", "ok">> \in {NULL, "", "ok"} \X {NULL, "", "ok"}
    BY Zenon
  <2> QED BY <2>1, Zenon
<1>5. /\ row.state \in {"pending", "claimed", "delivered", "quarantined"}
      /\ row.available_at \in Int /\ row.attempts \in Int
      /\ row.claim_expires_at \in Int \union {NULL}
      /\ row.delivered_at \in Int \union {NULL} /\ row.quarantined_at \in Int \union {NULL}
  <2>1. /\ row.state \in {"pending", "claimed", "delivered", "quarantined"}
        /\ row.available_at \in {0, -1} /\ row.attempts \in {-1, 0, MaxAttempts}
        /\ row.claim_expires_at \in {NULL, 0, -1}
        /\ row.delivered_at \in {NULL, 0} /\ row.quarantined_at \in {NULL, 0}
    BY <1>1, Zenon DEF Stored!Stored, Stored!BadInstant
  <2>2. row.claim_expires_at \in Int \union {NULL}
    BY <2>1
  <2>3. row.delivered_at \in Int \union {NULL} /\ row.quarantined_at \in Int \union {NULL}
    BY <2>1
  <2>4. row.available_at \in Int /\ row.attempts \in Int
    BY <1>2, <2>1
  <2> QED BY <2>1, <2>2, <2>3, <2>4
<1>6. /\ row.claim_token \in {NULL, "16 bytes", "15 bytes"}
      /\ row.claimed_by \in {NULL, "", "ok", "not UTF-8"}
      /\ row.quarantine_reason \in {NULL, "", "ok"}
      /\ row.last_failure \in {NULL, "", "ok"} \X {NULL, "", "ok"}
  BY <1>1, <1>3, <1>4, Zenon DEF Stored!Stored
<1>7. adapter # "mysql" => row.claimed_by # "not UTF-8"
  BY <1>1, <1>3, BoundaryAssumption, Zenon DEF Stored!Stored
<1>8. row = [state |-> row.state, available_at |-> row.available_at, attempts |-> row.attempts,
             claim_token |-> row.claim_token, claimed_by |-> row.claimed_by,
             claim_expires_at |-> row.claim_expires_at, last_failure |-> row.last_failure,
             delivered_at |-> row.delivered_at, quarantined_at |-> row.quarantined_at,
             quarantine_reason |-> row.quarantine_reason]
  BY <1>1, Zenon DEF Stored!Stored
<1> QED BY <1>1, <1>2, <1>5, <1>6, <1>7, <1>8 DEF StoredTypeOK, Rows
\* What a step that writes row r must show.
RowKept(r) ==
  /\ row' = r /\ r \in Rows /\ UNCHANGED <<adapter, now>>
  /\ r.claimed_by = "not UTF-8" => row.claimed_by = "not UTF-8"

LEMMA RowKeptTypes ==
  ASSUME StoredTypeOK, NEW r, RowKept(r)
  PROVE  StoredTypeOK'
BY Zenon DEF StoredTypeOK, RowKept

LEMMA ClaimStep ==
  ASSUME StoredTypeOK, NEW d \in Durations, Stored!claim(d)
  PROVE  StoredTypeOK' /\ (Usable => Usable') /\ row'.last_failure = row.last_failure
<1>1. row.attempts \in Int
  BY Zenon DEF StoredTypeOK, Rows
<1>2. PICK e : e = now + Stored!Added(adapter, d)
  BY Zenon
<1>3. e \in 0..MaxInstant
  BY <1>2, Zenon DEF Stored!claim, Stored!ClaimedEvent, Stored!validate_instant
<1>4. PICK r : r = [row EXCEPT !.state = "claimed", !.attempts = row.attempts + 1, !.claim_token = "16 bytes",
                               !.claimed_by = "ok", !.claim_expires_at = e]
  BY Zenon
<1>5. row' = r /\ UNCHANGED <<adapter, now>>
  BY <1>2, <1>4, Zenon DEF Stored!claim, Stored!Write
<1>6. e \in Int \union {NULL} /\ row.attempts + 1 \in Int
  BY <1>1, <1>3
<1>7. r \in Rows
  BY <1>4, <1>6, Zenon DEF StoredTypeOK, Rows
<1>8. /\ r.state = "claimed" /\ r.attempts = row.attempts + 1 /\ r.claim_token = "16 bytes"
      /\ r.claimed_by = "ok" /\ r.claim_expires_at = e /\ r.available_at = row.available_at
      /\ r.last_failure = row.last_failure /\ r.delivered_at = row.delivered_at
      /\ r.quarantined_at = row.quarantined_at /\ r.quarantine_reason = row.quarantine_reason
  BY <1>4, Zenon DEF StoredTypeOK, Rows
<1>9. StoredTypeOK'
  BY <1>5, <1>7, <1>8, RowKeptTypes DEF RowKept
<1>10. ASSUME Usable PROVE Usable'
  <2>1. r.attempts >= 0
    <3>1. row.attempts >= 0
      BY <1>10, Zenon DEF Usable
    <3>2. r.attempts = row.attempts + 1
      BY <1>8, Zenon
    <3> QED BY <1>1, <3>1, <3>2
  <2>2. row.state \in {"pending", "claimed"}
    BY Zenon DEF Stored!claim, Stored!Due
  <2> QED BY <1>3, <1>5, <1>8, <1>10, <2>1, <2>2 DEF Usable, FailureUsable, StateUsable, NoQuarantine
<1> QED BY <1>5, <1>8, <1>9, <1>10, Zenon

\* The instant a renewal, a retry or a release computes.
LEMMA NewInstant ==
  ASSUME StoredTypeOK, NEW d \in Durations, Stored!Lease(d) \/ Stored!Delay(d),
         Stored!Storable(now + Stored!Added(adapter, d))
  PROVE  \E e \in Nat : /\ e = now + Stored!Added(adapter, d)
                        /\ e \in 0..MaxInstant \/ (adapter = "postgres" /\ e > MaxInstant)
<1>1. Stored!Added(adapter, d) = d
  BY AddedExactly, Zenon
<1>2. d \in Nat /\ MaxInstant \in Nat
  BY BoundaryAssumption, Zenon
<1>3. now \in 0..MaxInstant
  BY Zenon DEF StoredTypeOK
<1>4. PICK e : e = now + d
  BY Zenon
<1>5. adapter = "postgres" \/ e <= MaxInstant
  BY <1>1, <1>4, Zenon DEF Stored!Storable
<1>6. e \in Nat /\ (e \in 0..MaxInstant \/ e > MaxInstant)
  BY <1>2, <1>3, <1>4
<1>7. e <= MaxInstant => e \in 0..MaxInstant
  BY <1>2, <1>6
<1> QED BY <1>1, <1>4, <1>5, <1>6, <1>7, Zenon

LEMMA RenewStep ==
  ASSUME StoredTypeOK, NEW d \in Durations, Stored!renew(d)
  PROVE  StoredTypeOK' /\ (Usable => Kept') /\ row'.last_failure = row.last_failure
<1>1. Stored!Lease(d) /\ Stored!Storable(now + Stored!Added(adapter, d))
  BY Zenon DEF Stored!renew
<1>2. PICK e \in Nat : /\ e = now + Stored!Added(adapter, d)
                       /\ e \in 0..MaxInstant \/ (adapter = "postgres" /\ e > MaxInstant)
  BY <1>1, NewInstant, Zenon
<1>4. PICK r : r = [row EXCEPT !.claim_expires_at = e]
  BY Zenon
<1>5. row' = r /\ UNCHANGED <<adapter, now>>
  BY <1>2, <1>4, Zenon DEF Stored!renew, Stored!Write
<1>6. r \in Rows
  <2>1. e \in Int \union {NULL}
    BY <1>2
  <2> QED BY <1>4, <2>1, Zenon DEF StoredTypeOK, Rows
<1>7. /\ r.state = row.state /\ r.attempts = row.attempts /\ r.claim_token = row.claim_token
      /\ r.claimed_by = row.claimed_by /\ r.claim_expires_at = e /\ r.available_at = row.available_at
      /\ r.last_failure = row.last_failure /\ r.delivered_at = row.delivered_at
      /\ r.quarantined_at = row.quarantined_at /\ r.quarantine_reason = row.quarantine_reason
  BY <1>4, Zenon DEF StoredTypeOK, Rows
<1>8. StoredTypeOK'
  BY <1>5, <1>6, <1>7, RowKeptTypes DEF RowKept
<1>9. ASSUME Usable, e \in 0..MaxInstant PROVE Usable'
  BY <1>5, <1>7, <1>9 DEF Stored!renew, Stored!Held, Usable, FailureUsable, StateUsable, NoQuarantine
<1>10. ASSUME Usable, adapter = "postgres", e > MaxInstant PROVE Stored!PastTheEnd' /\ Shaped'
  <2>1. row.state = "claimed" /\ StateUsable /\ row.attempts >= 0 /\ FailureUsable
    BY <1>10, Zenon DEF Stored!renew, Stored!Held, Usable
  <2>2. e # NULL
    <3>1. NULL \notin Int
      BY BoundaryAssumption, Zenon
    <3> QED BY <1>2, <3>1
  <2>3. Shaped'
    BY <1>5, <1>7, <2>1, <2>2, BoundaryAssumption DEF Shaped, FailureUsable, StateUsable, NoClaim, NoQuarantine
  <2>4. Stored!PastTheEnd'
    BY <1>5, <1>7, <1>10, <2>1, Zenon DEF Stored!PastTheEnd
  <2> QED BY <2>3, <2>4
<1> QED BY <1>2, <1>5, <1>7, <1>8, <1>9, <1>10, Zenon DEF Kept
LEMMA NullIsNoText == NULL # "not UTF-8"
BY BoundaryAssumption, Zenon

LEMMA AckStep ==
  ASSUME StoredTypeOK, Stored!ack
  PROVE  StoredTypeOK' /\ (Usable => Usable') /\ row'.last_failure = row.last_failure
<1>1. PICK e \in 0..MaxInstant : e = now
  BY Zenon DEF StoredTypeOK
<1>2. PICK r : r = [row EXCEPT !.claim_token = NULL, !.claimed_by = NULL, !.claim_expires_at = NULL,
                               !.state = "delivered", !.delivered_at = e]
  BY Zenon
<1>3. row' = r /\ UNCHANGED <<adapter, now>>
  BY <1>1, <1>2 DEF Stored!ack, Stored!Unclaimed, Stored!Write
<1>4. r \in Rows
  <2>1. e \in Int \union {NULL}
    BY <1>1
  <2> QED BY <1>2, <2>1, Zenon DEF StoredTypeOK, Rows
<1>5. /\ r.state = "delivered" /\ r.attempts = row.attempts /\ r.claim_token = NULL
      /\ r.claimed_by = NULL /\ r.claim_expires_at = NULL /\ r.available_at = row.available_at
      /\ r.last_failure = row.last_failure /\ r.delivered_at = e /\ r.quarantined_at = row.quarantined_at
      /\ r.quarantine_reason = row.quarantine_reason
  BY <1>2, Zenon DEF StoredTypeOK, Rows
<1>6. StoredTypeOK'
  BY <1>3, <1>4, <1>5, NullIsNoText, RowKeptTypes DEF RowKept
<1>7. ASSUME Usable PROVE Usable'
  BY <1>1, <1>3, <1>5, <1>7 DEF Stored!ack, Stored!Held, Usable, FailureUsable, StateUsable, NoClaim, NoQuarantine
<1> QED BY <1>3, <1>5, <1>6, <1>7

LEMMA QuarantineStep ==
  ASSUME StoredTypeOK, Stored!quarantine
  PROVE  StoredTypeOK' /\ (Usable => Usable') /\ row'.last_failure = row.last_failure
<1>1. PICK e \in 0..MaxInstant : e = now
  BY Zenon DEF StoredTypeOK
<1>2. PICK r : r = [row EXCEPT !.claim_token = NULL, !.claimed_by = NULL, !.claim_expires_at = NULL,
                               !.state = "quarantined", !.quarantined_at = e, !.quarantine_reason = "ok"]
  BY Zenon
<1>3. row' = r /\ UNCHANGED <<adapter, now>>
  BY <1>1, <1>2, Zenon DEF Stored!quarantine, Stored!Unclaimed, Stored!Write
<1>4. r \in Rows
  <2>1. e \in Int \union {NULL}
    BY <1>1
  <2> QED BY <1>2, <2>1 DEF StoredTypeOK, Rows
<1>5. /\ r.state = "quarantined" /\ r.attempts = row.attempts /\ r.claim_token = NULL
      /\ r.claimed_by = NULL /\ r.claim_expires_at = NULL /\ r.available_at = row.available_at
      /\ r.last_failure = row.last_failure /\ r.delivered_at = row.delivered_at /\ r.quarantined_at = e
      /\ r.quarantine_reason = "ok"
  BY <1>2, Zenon DEF StoredTypeOK, Rows
<1>6. StoredTypeOK'
  BY <1>3, <1>4, <1>5, NullIsNoText, RowKeptTypes DEF RowKept
<1>7. ASSUME Usable PROVE Usable'
  BY <1>1, <1>3, <1>5, <1>7 DEF Stored!quarantine, Stored!Held, Usable, FailureUsable, StateUsable, NoClaim, NoQuarantine
<1> QED BY <1>3, <1>5, <1>6, <1>7

LEMMA ReleaseStep ==
  ASSUME StoredTypeOK, NEW d \in Durations, Stored!release(d)
  PROVE  StoredTypeOK' /\ (Usable => Kept') /\ row'.last_failure = row.last_failure
<1>1. PICK e \in Nat : /\ e = now + Stored!Added(adapter, d)
                       /\ e \in 0..MaxInstant \/ (adapter = "postgres" /\ e > MaxInstant)
  <2>1. Stored!Delay(d) /\ Stored!Storable(now + Stored!Added(adapter, d))
    BY Zenon DEF Stored!release
  <2> QED BY <2>1, NewInstant, Zenon
<1>2. PICK r : r = [row EXCEPT !.claim_token = NULL, !.claimed_by = NULL, !.claim_expires_at = NULL,
                               !.state = "pending", !.available_at = e]
  BY Zenon
<1>3. row' = r /\ UNCHANGED <<adapter, now>>
  BY <1>1, <1>2, Zenon DEF Stored!release, Stored!Unclaimed, Stored!Write
<1>4. r \in Rows
  <2>2. e \in Int
    BY <1>1
  <2> QED BY <1>2, <2>2, Zenon DEF StoredTypeOK, Rows
<1>5. /\ r.state = "pending" /\ r.attempts = row.attempts /\ r.claim_token = NULL
      /\ r.claimed_by = NULL /\ r.claim_expires_at = NULL /\ r.available_at = e
      /\ r.last_failure = row.last_failure /\ r.delivered_at = row.delivered_at /\ r.quarantined_at = row.quarantined_at
      /\ r.quarantine_reason = row.quarantine_reason
  BY <1>2, Zenon DEF StoredTypeOK, Rows
<1>6. StoredTypeOK'
  BY <1>3, <1>4, <1>5, NullIsNoText, RowKeptTypes DEF RowKept
<1>7. ASSUME Usable, e \in 0..MaxInstant PROVE Usable'
  BY <1>1, <1>3, <1>5, <1>7 DEF Stored!release, Stored!Held, Usable, FailureUsable, StateUsable, NoClaim, NoQuarantine
<1>10. ASSUME Usable, adapter = "postgres", e > MaxInstant PROVE Stored!PastTheEnd' /\ Shaped'
  <2>1. row.state = "claimed" /\ StateUsable /\ row.attempts >= 0 /\ FailureUsable
    BY <1>10, Zenon DEF Stored!release, Stored!Held, Usable
  <2>2. Shaped'
    BY <1>3, <1>5, <2>1, BoundaryAssumption DEF Shaped, FailureUsable, StateUsable, NoClaim, NoQuarantine
  <2>3. Stored!PastTheEnd'
    BY <1>3, <1>5, <1>10, Zenon DEF Stored!PastTheEnd
  <2> QED BY <2>2, <2>3
<1>11. Usable => Kept'
  BY <1>1, <1>7, <1>10, Zenon DEF Kept
<1> QED BY <1>3, <1>5, <1>6, <1>11

LEMMA RetryStep ==
  ASSUME StoredTypeOK, NEW d \in Durations, Stored!retry(d)
  PROVE  StoredTypeOK' /\ (Usable => Kept') /\ row.state = "claimed" /\ row'.state = "pending" /\ row'.last_failure[1] # NULL
<1>1. PICK e \in Nat : /\ e = now + Stored!Added(adapter, d)
                       /\ e \in 0..MaxInstant \/ (adapter = "postgres" /\ e > MaxInstant)
  <2>1. Stored!Delay(d) /\ Stored!Storable(now + Stored!Added(adapter, d))
    BY Zenon DEF Stored!retry
  <2> QED BY <2>1, NewInstant, Zenon
<1>2. PICK r : r = [row EXCEPT !.claim_token = NULL, !.claimed_by = NULL, !.claim_expires_at = NULL,
                               !.state = "pending", !.available_at = e, !.last_failure = <<"ok", "ok">>]
  BY Zenon
<1>3. row' = r /\ UNCHANGED <<adapter, now>>
  BY <1>1, <1>2, Zenon DEF Stored!retry, Stored!Unclaimed, Stored!Write
<1>4. r \in Rows
  <2>2. e \in Int
    BY <1>1
  <2>3. <<"ok", "ok">> \in {NULL, "", "ok"} \X {NULL, "", "ok"}
    BY Zenon
  <2> QED BY <1>2, <2>2, <2>3 DEF StoredTypeOK, Rows
<1>5. /\ r.state = "pending" /\ r.attempts = row.attempts /\ r.claim_token = NULL
      /\ r.claimed_by = NULL /\ r.claim_expires_at = NULL /\ r.available_at = e
      /\ r.last_failure = <<"ok", "ok">> /\ r.delivered_at = row.delivered_at /\ r.quarantined_at = row.quarantined_at
      /\ r.quarantine_reason = row.quarantine_reason
  BY <1>2, Zenon DEF StoredTypeOK, Rows
<1>6. StoredTypeOK'
  BY <1>3, <1>4, <1>5, NullIsNoText, RowKeptTypes DEF RowKept
<1>7. r.last_failure[1] = "ok" /\ r.last_failure[2] = "ok"
  BY <1>5
<1>8. ASSUME Usable, e \in 0..MaxInstant PROVE Usable'
  BY <1>1, <1>3, <1>5, <1>7, <1>8 DEF Stored!retry, Stored!Held, Usable, FailureUsable, StateUsable, NoClaim, NoQuarantine
<1>9. "ok" # NULL
  BY BoundaryAssumption, Zenon
<1>10. ASSUME Usable, adapter = "postgres", e > MaxInstant PROVE Stored!PastTheEnd' /\ Shaped'
  <2>1. row.state = "claimed" /\ StateUsable /\ row.attempts >= 0 /\ FailureUsable
    BY <1>10, Zenon DEF Stored!retry, Stored!Held, Usable
  <2>2. Shaped'
    BY <1>3, <1>5, <1>7, <2>1, BoundaryAssumption DEF Shaped, FailureUsable, StateUsable, NoClaim, NoQuarantine
  <2>3. Stored!PastTheEnd'
    BY <1>3, <1>5, <1>10, Zenon DEF Stored!PastTheEnd
  <2> QED BY <2>2, <2>3
<1>11. Usable => Kept'
  BY <1>1, <1>8, <1>10, Zenon DEF Kept
<1> QED BY <1>3, <1>5, <1>6, <1>7, <1>9, <1>11 DEF Stored!retry, Stored!Held

LEMMA FinalizeStep ==
  ASSUME StoredTypeOK, NEW t, Stored!finalize(t)
  PROVE  StoredTypeOK' /\ (Usable => Usable') /\ row'.last_failure = row.last_failure
<1>1. PICK e \in 0..MaxInstant : e = t
  BY Zenon DEF Stored!finalize, Stored!validate_instant
<1>2. PICK r : r = [row EXCEPT !.state = "delivered", !.delivered_at = e]
  BY Zenon
<1>3. row' = r /\ UNCHANGED <<adapter, now>>
  BY <1>1, <1>2, Zenon DEF Stored!finalize, Stored!Write
<1>4. r \in Rows
  <2>1. e \in Int \union {NULL}
    BY <1>1
  <2> QED BY <1>2, <2>1, Zenon DEF StoredTypeOK, Rows
<1>5. /\ r.state = "delivered" /\ r.attempts = row.attempts /\ r.claim_token = row.claim_token
      /\ r.claimed_by = row.claimed_by /\ r.claim_expires_at = row.claim_expires_at /\ r.available_at = row.available_at
      /\ r.last_failure = row.last_failure /\ r.delivered_at = e /\ r.quarantined_at = row.quarantined_at
      /\ r.quarantine_reason = row.quarantine_reason
  BY <1>2, Zenon DEF StoredTypeOK, Rows
<1>6. StoredTypeOK'
  BY <1>3, <1>4, <1>5, NullIsNoText, RowKeptTypes DEF RowKept
<1>7. ASSUME Usable PROVE Usable'
  BY <1>1, <1>3, <1>5, <1>7 DEF Stored!finalize, Usable, FailureUsable, StateUsable, NoClaim, NoQuarantine
<1> QED BY <1>3, <1>5, <1>6, <1>7
LEMMA StoredStep ==
  StoredTypeOK /\ [Stored!Next]_(Stored!vars)
    => /\ StoredTypeOK' /\ (Usable => Kept')
       /\ \/ row'.last_failure = row.last_failure
          \/ row.state = "claimed" /\ row'.state = "pending" /\ row'.last_failure[1] # NULL
<1> SUFFICES ASSUME StoredTypeOK, [Stored!Next]_(Stored!vars)
             PROVE  /\ StoredTypeOK' /\ (Usable => Kept')
                    /\ \/ row'.last_failure = row.last_failure
                       \/ row.state = "claimed" /\ row'.state = "pending" /\ row'.last_failure[1] # NULL
  BY Zenon
<1>1. CASE UNCHANGED row /\ UNCHANGED adapter /\ now' \in 0..MaxInstant
  BY <1>1, Zenon DEF StoredTypeOK, Kept, Usable, FailureUsable, StateUsable, NoClaim, NoQuarantine
<1>2. CASE UNCHANGED Stored!vars
  BY <1>1, <1>2, Zenon DEF Stored!vars, StoredTypeOK
<1>3. CASE Stored!Tick
  <2>1. now \in 0..MaxInstant /\ MaxInstant \in Nat
    BY BoundaryAssumption, Zenon DEF StoredTypeOK
  <2>2. now < MaxInstant /\ now' = now + 1 /\ UNCHANGED <<adapter, row>>
    BY <1>3, Zenon DEF Stored!Tick
  <2>3. now' \in 0..MaxInstant
    BY <2>1, <2>2
  <2> QED BY <1>1, <2>2, <2>3
<1>4. ASSUME NEW d \in Durations,
             Stored!claim(d) \/ Stored!renew(d) \/ Stored!retry(d) \/ Stored!release(d)
      PROVE  /\ StoredTypeOK' /\ (Usable => Kept')
             /\ \/ row'.last_failure = row.last_failure
                \/ row.state = "claimed" /\ row'.state = "pending" /\ row'.last_failure[1] # NULL
  BY <1>4, ClaimStep, RenewStep, RetryStep, ReleaseStep DEF Kept
<1>5. ASSUME NEW t, Stored!finalize(t)
      PROVE  StoredTypeOK' /\ (Usable => Kept') /\ row'.last_failure = row.last_failure
  BY <1>5, FinalizeStep, Zenon DEF Kept
<1> QED
  BY <1>2, <1>3, <1>4, <1>5, AckStep, QuarantineStep DEF Stored!Next, Kept

\* A page shows a row exactly when the CHECKs admit it and the library could have written
\* its texts and instants, such a row does not poison a claim, and accepted durations are
\* added exactly: after every sequence of operations on every initial row.
THEOREM RowsAlwaysUsable == Stored!Spec => []RowsUsable
<1>1. Stored!Init => StoredTypeOK
  BY StoredInit, Zenon
<1>2. StoredTypeOK /\ [Stored!Next]_(Stored!vars) => StoredTypeOK'
  BY StoredStep, Zenon
<1>3. StoredTypeOK => RowsUsable
  BY RowsUsableNow, Zenon
<1> QED
  BY <1>1, <1>2, <1>3, PTL DEF Stored!Spec

LEMMA KeptPassesCheck == StoredTypeOK => (Kept => Stored!Check(row))
BY UsableIsChecked, CheckIsShape, Zenon DEF Kept

\* No operation violates a CHECK or leaves a row unreadable that a page could show, but
\* for the instants after 9999 that PostgreSQL stores, and only a retry replaces the last
\* failure: every UPDATE of the three adapters sets and clears exactly the columns of its
\* new state.
THEOREM RowsAlwaysKept == Stored!Spec => RowsKept
<1>1. Stored!Init => StoredTypeOK
  BY StoredInit, Zenon
<1>2. StoredTypeOK /\ [Stored!Next]_(Stored!vars) => StoredTypeOK'
  BY StoredStep, Zenon
<1>3. (StoredTypeOK => (Stored!Read <=> Usable))'
  BY ReadIffUsable, PTL
<1>4. (StoredTypeOK => (Kept => Stored!Check(row)))'
  BY KeptPassesCheck, PTL
<1>5. StoredTypeOK /\ [Stored!Next]_(Stored!vars)
        => [Stored!Read => Stored!Check(row') /\ (Stored!Read' \/ Stored!PastTheEnd')]_(Stored!vars)
  <2> SUFFICES ASSUME StoredTypeOK, [Stored!Next]_(Stored!vars), Stored!Read
               PROVE  Stored!Check(row') /\ (Stored!Read' \/ Stored!PastTheEnd')
    BY Zenon
  <2>1. Kept' /\ StoredTypeOK'
    BY StoredStep, ReadIffUsable, Zenon
  <2>2. Usable' \/ Stored!PastTheEnd'
    BY <2>1, Zenon DEF Kept
  <2> QED BY <1>3, <1>4, <2>1, <2>2
<1>6. StoredTypeOK /\ [Stored!Next]_(Stored!vars)
        => [row'.last_failure # row.last_failure
              => row.state = "claimed" /\ row'.state = "pending" /\ row'.last_failure[1] # NULL]_(Stored!vars)
  BY StoredStep, Zenon
<1> QED
  BY <1>1, <1>2, <1>5, <1>6, PTL DEF Stored!Spec, RowsKept, Stored!StaysReadable, Stored!FailureKept
-------------------------------------------------------------------------------
(* EventCodec                                                              *)

\* The names an extension may have: none of CloudEvents' own.
ExtensionNames == {"traceparent", "tracestate", "flag"}

ExtensionTexts == {"string", "integer", "boolean", "parent", "garbled", "7", "vendor=1", "true"}

IsExtensions(e) ==
  /\ e = [n \in DOMAIN e |-> e[n]]
  /\ DOMAIN e \subseteq ExtensionNames
  /\ \A n \in DOMAIN e : e[n] \in ExtensionTexts \X ExtensionTexts

IsContent(c) ==
  /\ c = [identity |-> c.identity, texts |-> c.texts, time |-> c.time,
          datacontenttype |-> c.datacontenttype, extensions |-> c.extensions, data |-> c.data]
  /\ c.identity \in Nat
  /\ c.texts \in [Codec!Optional -> {"text", NULL}]
  /\ c.time \in Nat \union {NULL}
  /\ c.datacontenttype \in Codec!ContentTypes \union {NULL}
  /\ IsExtensions(c.extensions)
  /\ c.data \in [kind : {"json", "binary"}, bytes : Nat] \union {NULL}

\* What is stored is what was built, and what was built is valid under the largest
\* limit too: the limit every later read validates with.
CodecInv ==
  /\ phase \in {"extensions", "builder", "built", "refused", "stored"}
  /\ IsContent(content)
  /\ phase \in {"built", "stored"} => Codec!validate_content(content, MAX_LIMIT)
  /\ phase = "stored" => storedIn \in Codec!Adapters /\ columns = Codec!columns(storedIn, content)

LEMMA NoText == NULL \notin {"", "ok", "not UTF-8", "16 bytes", "15 bytes", "text", "json", "binary",
                             "application/json", "text/plain"}
BY BoundaryAssumption, Zenon

LEMMA NoNumber == NULL \notin Int
BY BoundaryAssumption, Zenon

LEMMA SameCardinality == \A S : Codec!Cardinality(S) = Cardinality(S)
BY Zenon DEF Codec!Cardinality, Cardinality

LEMMA SizeIsNumber ==
  ASSUME NEW c, IsContent(c)
  PROVE  Codec!portable_size(c) \in Nat
<1>1. IsFiniteSet(Codec!Attributes(c))
  <2>1. Codec!Attributes(c) \subseteq {"id", "source", "type", "specversion", "time", "datacontenttype"}
                                        \union {"subject", "dataschema", "partitionkey"}
    BY Zenon DEF Codec!Attributes, Codec!Optional
  <2>2. IsFiniteSet({"id", "source", "type", "specversion", "time", "datacontenttype"}
                                        \union {"subject", "dataschema", "partitionkey"})
    <3>1. IsFiniteSet({}) BY FS_EmptySet, Zenon
    <3>2. IsFiniteSet({} \union {"id"}) BY <3>1, FS_AddElement, Zenon
    <3> DEFINE A(S, x) == S \union {x}
    <3>3. ASSUME NEW S, NEW x, IsFiniteSet(S) PROVE IsFiniteSet(A(S, x))
      BY <3>3, FS_AddElement, Zenon
    <3> HIDE DEF A
    <3>4. IsFiniteSet(A(A(A(A(A(A(A(A(A({}, "id"), "source"), "type"), "specversion"), "time"), "datacontenttype"),
                       "subject"), "dataschema"), "partitionkey"))
      BY <3>1, <3>3
    <3>5. A(A(A(A(A(A(A(A(A({}, "id"), "source"), "type"), "specversion"), "time"), "datacontenttype"),
                       "subject"), "dataschema"), "partitionkey")
            = {"id", "source", "type", "specversion", "time", "datacontenttype"}
                                        \union {"subject", "dataschema", "partitionkey"}
      BY Zenon DEF A
    <3> QED BY <3>4, <3>5
  <2> QED BY <2>1, <2>2, FS_Subset
<1>2. IsFiniteSet(DOMAIN c.extensions)
  <2>1. IsFiniteSet({} \union {"traceparent"})
    BY FS_EmptySet, FS_AddElement, Zenon
  <2>2. IsFiniteSet(({} \union {"traceparent"}) \union {"tracestate"})
    BY <2>1, FS_AddElement, Zenon
  <2>3. IsFiniteSet((({} \union {"traceparent"}) \union {"tracestate"}) \union {"flag"})
    BY <2>2, FS_AddElement, Zenon
  <2>4. ExtensionNames = (({} \union {"traceparent"}) \union {"tracestate"}) \union {"flag"}
    BY Zenon DEF ExtensionNames
  <2>5. IsFiniteSet(ExtensionNames)
    BY <2>3, <2>4, Zenon
  <2> QED BY <2>5, FS_Subset, Zenon DEF IsContent, IsExtensions
<1>3. Cardinality(Codec!Attributes(c)) \in Nat /\ Cardinality(DOMAIN c.extensions) \in Nat
  BY <1>1, <1>2, FS_CardinalityType
<1>4. Codec!structured_size(c) \in Nat /\ Codec!binary_size(c) \in Nat
  <2>1. PICK a \in Nat, b \in Nat : a = Cardinality(Codec!Attributes(c)) /\ b = Cardinality(DOMAIN c.extensions)
    BY <1>3, Zenon
  <2>2. c.data # NULL => c.data.bytes \in Nat
    BY Zenon DEF IsContent
  <2>3. 1 + a + b + (IF c.data = NULL THEN 0 ELSE IF c.data.kind = "json" THEN 1 ELSE 2 * c.data.bytes) \in Nat
    BY <2>1, <2>2
  <2>4. 3 * (a + b) + (IF c.data = NULL THEN 0 ELSE c.data.bytes) \in Nat
    BY <2>1, <2>2
  <2>5. Codec!Cardinality(Codec!Attributes(c)) = a /\ Codec!Cardinality(DOMAIN c.extensions) = b
    BY <2>1, SameCardinality, Zenon
  <2>6. Codec!structured_size(c) \in Nat
    BY <2>3, <2>5, Zenon DEF Codec!structured_size, Codec!CanonicalBytes
  <2>7. Codec!binary_size(c) \in Nat
    BY <2>4, <2>5, Zenon DEF Codec!binary_size
  <2> QED BY <2>6, <2>7, Zenon
<1> QED BY <1>4, Zenon DEF Codec!portable_size

LEMMA LargerLimit ==
  ASSUME NEW c, IsContent(c), NEW limit \in {DEFAULT_LIMIT, MAX_LIMIT}, Codec!validate_content(c, limit)
  PROVE  Codec!validate_content(c, MAX_LIMIT)
<1>1. Codec!portable_size(c) \in Nat
  BY SizeIsNumber, Zenon
<1>2. DEFAULT_LIMIT \in Nat /\ MAX_LIMIT \in Nat /\ DEFAULT_LIMIT <= MAX_LIMIT
  BY BoundaryAssumption, Zenon
<1>3. Codec!portable_size(c) <= limit
  BY Zenon DEF Codec!validate_content
<1>4. Codec!portable_size(c) <= MAX_LIMIT
  BY <1>1, <1>2, <1>3
<1> QED BY <1>4, Zenon DEF Codec!validate_content
\* The durable encoding loses nothing of an extension, not even its type.
LEMMA ExtensionsRoundTrip ==
  ASSUME NEW e, IsExtensions(e), Codec!validate_trace_context(e)
  PROVE  Codec!from_canonical_json(Codec!canonical_json(e)) = e /\ e # Codec!Error
<1>1. PICK j : j = Codec!canonical_json(e)
  BY Zenon
<1>2. DOMAIN j = DOMAIN e /\ \A n \in DOMAIN e : j[n] = [type |-> e[n][1], value |-> e[n][2]]
  BY <1>1, Zenon DEF Codec!canonical_json, Codec!tagged_json
<1>3. \A n \in DOMAIN e : e[n] = <<e[n][1], e[n][2]>>
  BY DEF IsExtensions
<1>4. [n \in DOMAIN j |-> <<j[n].type, j[n].value>>] = e
  BY <1>2, <1>3 DEF IsExtensions
<1>5. \A n \in DOMAIN j : Codec!ExtensionName(n)
  BY <1>2, Zenon DEF IsExtensions, ExtensionNames, Codec!ExtensionName, Codec!Reserved
<1>6. Codec!from_canonical_json(j) = e
  BY <1>1, <1>4, <1>5 DEF Codec!from_canonical_json
<1>7. e # Codec!Error
  <2>1. "error" \notin DOMAIN e
    BY Zenon DEF IsExtensions, ExtensionNames
  <2>2. "error" \in DOMAIN Codec!Error
    BY Zenon DEF Codec!Error
  <2> QED BY <2>1, <2>2
<1> QED BY <1>1, <1>6, <1>7

LEMMA ExtensionsInjective ==
  ASSUME NEW e1, NEW e2, IsExtensions(e1), IsExtensions(e2),
         Codec!canonical_json(e1) = Codec!canonical_json(e2)
  PROVE  e1 = e2
<1>1. DOMAIN e1 = DOMAIN e2
  BY Zenon DEF Codec!canonical_json
<1>2. ASSUME NEW n \in DOMAIN e1 PROVE e1[n] = e2[n]
  <2>1. [type |-> e1[n][1], value |-> e1[n][2]] = [type |-> e2[n][1], value |-> e2[n][2]]
    BY <1>1, Zenon DEF Codec!canonical_json, Codec!tagged_json
  <2>2. e1[n] \in ExtensionTexts \X ExtensionTexts /\ e2[n] \in ExtensionTexts \X ExtensionTexts
    BY <1>1, Zenon DEF IsExtensions
  <2>3. e1[n][1] = e2[n][1] /\ e1[n][2] = e2[n][2]
    BY <2>1, Zenon
  <2> QED BY <2>2, <2>3
<1> QED BY <1>1, <1>2 DEF IsExtensions

\* The columns are the same for every adapter when the time is of whole microseconds.
LEMMA ColumnsOf ==
  ASSUME NEW c, IsContent(c), c.time # NULL => Codec!validate_instant(c.time), NEW a \in Codec!Adapters
  PROVE  Codec!columns(a, c) = Codec!Columns(c, c.time)
<1>1. Codec!Microseconds(c.time) = c.time
  <2>1. CASE c.time = NULL
    BY <2>1, Zenon DEF Codec!Microseconds
  <2>2. CASE c.time # NULL
    <3>1. c.time \in Nat /\ c.time % 2 = 0
      BY <2>2, Zenon DEF IsContent, Codec!validate_instant
    <3>2. c.time - (c.time % 2) = c.time
      BY <3>1
    <3> QED BY <2>2, <3>2, Zenon DEF Codec!Microseconds
  <2> QED BY <2>1, <2>2, Zenon
<1> QED BY <1>1, Zenon DEF Codec!Adapters, Codec!columns, Codec!pg_columns, Codec!mysql_columns, Codec!sqlite_columns

LEMMA DataOf ==
  ASSUME NEW c, IsContent(c)
  PROVE  /\ (IF c.data = NULL THEN NULL ELSE c.data.kind) = NULL <=> c.data = NULL
         /\ (IF c.data = NULL THEN NULL ELSE c.data.bytes) = NULL <=> c.data = NULL
<1>1. CASE c.data = NULL
  BY <1>1, Zenon
<1>2. CASE c.data # NULL
  <2>1. c.data \in [kind : {"json", "binary"}, bytes : Nat]
    BY <1>2, Zenon DEF IsContent
  <2>2. c.data.kind # NULL
    BY <2>1, NoText, Zenon
  <2>3. c.data.bytes # NULL
    BY <2>1, NoNumber
  <2> QED BY <1>2, <2>2, <2>3
<1> QED BY <1>1, <1>2, Zenon

LEMMA RoundTripOf ==
  ASSUME NEW c, IsContent(c), Codec!validate_content(c, MAX_LIMIT), NEW a \in Codec!Adapters
  PROVE  Codec!hydrate_event(a, Codec!columns(a, c)) = c /\ Codec!Insertable(Codec!columns(a, c))
<1>0. /\ c.time # NULL => Codec!validate_instant(c.time)
      /\ Codec!validate_trace_context(c.extensions) /\ IsExtensions(c.extensions)
      /\ c.identity <= MAX_IDENTITY_BYTES
      /\ c.data # NULL => (c.data.bytes > 0 => c.datacontenttype # NULL)
  BY Zenon DEF Codec!validate_content, IsContent
<1>1. PICK r : r = Codec!columns(a, c)
  BY Zenon
<1>2. /\ r.identity = c.identity /\ r.occurred_at = c.time /\ r.datacontenttype = c.datacontenttype
      /\ r.texts = c.texts /\ r.extensions = Codec!canonical_json(c.extensions)
      /\ r.data_kind = IF c.data = NULL THEN NULL ELSE c.data.kind
      /\ r.data = IF c.data = NULL THEN NULL ELSE c.data.bytes
  BY <1>0, <1>1, ColumnsOf DEF Codec!Columns
<1>3. r.data_kind = NULL <=> c.data = NULL
  BY <1>2, DataOf, Zenon
<1>4. r.data = NULL <=> c.data = NULL
  BY <1>2, DataOf, Zenon
<1>5. Codec!from_canonical_json(r.extensions) = c.extensions /\ c.extensions # Codec!Error
  BY <1>0, <1>2, ExtensionsRoundTrip, Zenon
<1>6. (IF r.data_kind = NULL THEN NULL ELSE [kind |-> r.data_kind, bytes |-> r.data]) = c.data
  <2>1. CASE c.data = NULL
    BY <1>3, <2>1, Zenon
  <2>2. CASE c.data # NULL
    <3>1. c.data = [kind |-> c.data.kind, bytes |-> c.data.bytes]
      BY <2>2, Zenon DEF IsContent
    <3> QED BY <1>2, <1>3, <2>2, <3>1
  <2> QED BY <2>1, <2>2, Zenon
<1>7. c = [identity |-> r.identity, time |-> r.occurred_at, datacontenttype |-> r.datacontenttype,
           texts |-> r.texts, extensions |-> Codec!from_canonical_json(r.extensions),
           data |-> IF r.data_kind = NULL THEN NULL ELSE [kind |-> r.data_kind, bytes |-> r.data]]
  <2>1. c = [identity |-> c.identity, time |-> c.time, datacontenttype |-> c.datacontenttype,
             texts |-> c.texts, extensions |-> c.extensions, data |-> c.data]
    BY Zenon DEF IsContent
  <2> QED BY <1>2, <1>5, <1>6, <2>1
<1>8. Codec!Rebuilt(r, r.occurred_at) = c
  BY <1>3, <1>4, <1>5, <1>7 DEF Codec!Rebuilt
<1>9. Codec!hydrate_event(a, r) = c
  BY <1>8, Zenon DEF Codec!Adapters, Codec!hydrate_event, Codec!pg_hydrate_event, Codec!mysql_hydrate_event, Codec!sqlite_hydrate_event
<1>10. r.data = NULL \/ r.data = 0 \/ r.datacontenttype # NULL
  <2>1. CASE c.data = NULL
    BY <1>4, <2>1
  <2>2. CASE c.data # NULL
    <3>1. c.data.bytes \in Nat /\ r.data = c.data.bytes
      BY <1>2, <2>2 DEF IsContent
    <3>2. c.data.bytes = 0 \/ c.data.bytes > 0
      BY <3>1
    <3> QED BY <1>0, <1>2, <2>2, <3>1, <3>2
  <2> QED BY <2>1, <2>2
<1>11. Codec!Insertable(r)
  BY <1>0, <1>2, <1>3, <1>4, <1>10 DEF Codec!Insertable
<1> QED BY <1>1, <1>9, <1>11, Zenon
LEMMA WithTexts ==
  ASSUME NEW c, IsContent(c), NEW v \in [Codec!Optional -> {"text", NULL}]
  PROVE  IsContent([c EXCEPT !.texts = v])
<1>1. PICK c2 : c2 = [c EXCEPT !.texts = v]
  BY Zenon
<1>2. c2 = [identity |-> c.identity, texts |-> v, time |-> c.time,
            datacontenttype |-> c.datacontenttype, extensions |-> c.extensions, data |-> c.data]
  BY <1>1, Zenon DEF IsContent
<1>3. IsContent(c2)
  BY <1>2, Zenon DEF IsContent
<1> QED BY <1>1, <1>3, Zenon

LEMMA WithTime ==
  ASSUME NEW c, IsContent(c), NEW v \in Nat \union {NULL}
  PROVE  IsContent([c EXCEPT !.time = v])
<1>1. PICK c2 : c2 = [c EXCEPT !.time = v]
  BY Zenon
<1>2. c2 = [identity |-> c.identity, texts |-> c.texts, time |-> v,
            datacontenttype |-> c.datacontenttype, extensions |-> c.extensions, data |-> c.data]
  BY <1>1, Zenon DEF IsContent
<1>3. IsContent(c2)
  BY <1>2, Zenon DEF IsContent
<1> QED BY <1>1, <1>3, Zenon

LEMMA WithType ==
  ASSUME NEW c, IsContent(c), NEW v \in Codec!ContentTypes \union {NULL}
  PROVE  IsContent([c EXCEPT !.datacontenttype = v])
<1>1. PICK c2 : c2 = [c EXCEPT !.datacontenttype = v]
  BY Zenon
<1>2. c2 = [identity |-> c.identity, texts |-> c.texts, time |-> c.time,
            datacontenttype |-> v, extensions |-> c.extensions, data |-> c.data]
  BY <1>1, Zenon DEF IsContent
<1>3. IsContent(c2)
  BY <1>2, Zenon DEF IsContent
<1> QED BY <1>1, <1>3

LEMMA WithExtensions ==
  ASSUME NEW c, IsContent(c), NEW v, IsExtensions(v)
  PROVE  IsContent([c EXCEPT !.extensions = v])
<1>1. PICK c2 : c2 = [c EXCEPT !.extensions = v]
  BY Zenon
<1>2. c2 = [identity |-> c.identity, texts |-> c.texts, time |-> c.time,
            datacontenttype |-> c.datacontenttype, extensions |-> v, data |-> c.data]
  BY <1>1, Zenon DEF IsContent
<1>3. IsContent(c2)
  BY <1>2, Zenon DEF IsContent
<1> QED BY <1>1, <1>3, Zenon

LEMMA WithData ==
  ASSUME NEW c, IsContent(c), NEW v \in [kind : {"json", "binary"}, bytes : Nat] \union {NULL}
  PROVE  IsContent([c EXCEPT !.data = v])
<1>1. PICK c2 : c2 = [c EXCEPT !.data = v]
  BY Zenon
<1>2. c2 = [identity |-> c.identity, texts |-> c.texts, time |-> c.time,
            datacontenttype |-> c.datacontenttype, extensions |-> c.extensions, data |-> v]
  BY <1>1, Zenon DEF IsContent
<1>3. IsContent(c2)
  BY <1>2, Zenon DEF IsContent
<1> QED BY <1>1, <1>3, Zenon

LEMMA EventDataTyped == Codec!EventData \subseteq [kind : {"json", "binary"}, bytes : Nat]
BY DEF Codec!EventData, Codec!JsonData, Codec!CanonicalBytes

LEMMA ExtensionValues ==
  ASSUME NEW n \in Codec!Names, NEW v \in Codec!ValuesOf(n)
  PROVE  v \in ExtensionTexts \X ExtensionTexts
<1>1. \A a, b \in ExtensionTexts : <<a, b>> \in ExtensionTexts \X ExtensionTexts
  BY Zenon
<1>2. \/ v = <<"string", "parent">> \/ v = <<"string", "garbled">> \/ v = <<"integer", "7">>
      \/ v = <<"string", "vendor=1">> \/ v = <<"boolean", "true">> \/ v = <<"string", "true">>
  BY Zenon DEF Codec!ValuesOf
<1>3. \A x \in {"string", "integer", "boolean", "parent", "garbled", "7", "vendor=1", "true"} : x \in ExtensionTexts
  BY Zenon DEF ExtensionTexts
<1> QED BY <1>1, <1>2, <1>3, Zenon

LEMMA VariantsTyped ==
  ASSUME NEW c, IsContent(c), NEW c2 \in Codec!Variants(c)
  PROVE  IsContent(c2)
<1>1. ASSUME NEW v \in Times \union {NULL}, c2 = [c EXCEPT !.time = v] PROVE IsContent(c2)
  <2>1. v \in Nat \union {NULL}
    BY BoundaryAssumption, Zenon
  <2> QED BY <1>1, <2>1, WithTime
<1>2. ASSUME NEW v \in Codec!ContentTypes \union {NULL}, c2 = [c EXCEPT !.datacontenttype = v] PROVE IsContent(c2)
  BY <1>2, WithType, Zenon
<1>3. ASSUME NEW v \in [Codec!Optional -> {"text", NULL}], c2 = [c EXCEPT !.texts = v] PROVE IsContent(c2)
  BY <1>3, WithTexts, Zenon
<1>4. ASSUME NEW v \in Codec!EventData \union {NULL}, c2 = [c EXCEPT !.data = v] PROVE IsContent(c2)
  <2>1. v \in [kind : {"json", "binary"}, bytes : Nat] \union {NULL}
    BY EventDataTyped, Zenon
  <2> QED BY <1>4, <2>1, WithData
<1>5. ASSUME NEW v \in Codec!ValuesOf("flag"),
             c2 = [c EXCEPT !.extensions = [n \in DOMAIN c.extensions |-> IF n = "flag" THEN v ELSE c.extensions[n]]]
      PROVE  IsContent(c2)
  <2>1. v \in ExtensionTexts \X ExtensionTexts
    BY ExtensionValues, Zenon DEF Codec!Names
  <2>2. PICK e : e = [n \in DOMAIN c.extensions |-> IF n = "flag" THEN v ELSE c.extensions[n]]
    BY Zenon
  <2>3. IsExtensions(e)
    BY <2>1, <2>2, Zenon DEF IsExtensions, IsContent
  <2> QED BY <1>5, <2>2, <2>3, WithExtensions
<1>6. ASSUME NEW m \in Codec!Names,
             c2 = [c EXCEPT !.extensions = Codec!Restrict(c.extensions, DOMAIN c.extensions \ {m})]
      PROVE  IsContent(c2)
  <2>1. PICK e : e = Codec!Restrict(c.extensions, DOMAIN c.extensions \ {m})
    BY Zenon
  <2>2. IsExtensions(e)
    BY <2>1, Zenon DEF IsExtensions, IsContent, Codec!Restrict
  <2> QED BY <1>6, <2>1, <2>2, WithExtensions
<1>7. \/ \E v \in Times \union {NULL} : c2 = [c EXCEPT !.time = v]
      \/ \E v \in Codec!ContentTypes \union {NULL} : c2 = [c EXCEPT !.datacontenttype = v]
      \/ \E v \in [Codec!Optional -> {"text", NULL}] : c2 = [c EXCEPT !.texts = v]
      \/ \E v \in Codec!EventData \union {NULL} : c2 = [c EXCEPT !.data = v]
      \/ \E v \in Codec!ValuesOf("flag") :
            c2 = [c EXCEPT !.extensions = [n \in DOMAIN c.extensions |-> IF n = "flag" THEN v ELSE c.extensions[n]]]
      \/ \E m \in Codec!Names :
            c2 = [c EXCEPT !.extensions = Codec!Restrict(c.extensions, DOMAIN c.extensions \ {m})]
  BY Zenon DEF Codec!Variants
<1> QED
  BY <1>1, <1>2, <1>3, <1>4, <1>5, <1>6, <1>7, Zenon

LEMMA SameOf ==
  ASSUME NEW c1, NEW c2, IsContent(c1), IsContent(c2), c2.time # NULL => Codec!validate_instant(c2.time),
         NEW a \in Codec!Adapters
  PROVE  Codec!same_event(a, c1, Codec!columns(a, c2)) <=> c1 = c2
<1>1. PICK r : r = Codec!columns(a, c2)
  BY Zenon
<1>2. /\ r.identity = c2.identity /\ r.occurred_at = c2.time /\ r.datacontenttype = c2.datacontenttype
      /\ r.texts = c2.texts /\ r.extensions = Codec!canonical_json(c2.extensions)
      /\ r.data_kind = IF c2.data = NULL THEN NULL ELSE c2.data.kind
      /\ r.data = IF c2.data = NULL THEN NULL ELSE c2.data.bytes
  BY <1>1, ColumnsOf DEF Codec!Columns
<1>3. Codec!same_event(a, c1, r) <=> Codec!Same(c1, r, c1.time)
  BY Zenon DEF Codec!Adapters, Codec!same_event, Codec!pg_same_event, Codec!mysql_same_event, Codec!sqlite_same_event
<1>4. c1 = c2 => Codec!Same(c1, r, c1.time)
  BY <1>2, Zenon DEF Codec!Same
<1>5. ASSUME Codec!Same(c1, r, c1.time) PROVE c1 = c2
  <2>1. /\ c1.identity = c2.identity /\ c1.time = c2.time /\ c1.datacontenttype = c2.datacontenttype
        /\ c1.texts = c2.texts /\ Codec!canonical_json(c1.extensions) = Codec!canonical_json(c2.extensions)
        /\ (IF c1.data = NULL THEN NULL ELSE c1.data.kind) = (IF c2.data = NULL THEN NULL ELSE c2.data.kind)
        /\ (IF c1.data = NULL THEN NULL ELSE c1.data.bytes) = (IF c2.data = NULL THEN NULL ELSE c2.data.bytes)
    BY <1>2, <1>5, Zenon DEF Codec!Same
  <2>2. c1.extensions = c2.extensions
    BY <2>1, ExtensionsInjective, Zenon DEF IsContent
  <2>3. c1.data = c2.data
    <3>1. c1.data = NULL <=> c2.data = NULL
      BY <2>1, DataOf, Zenon
    <3>2. CASE c1.data # NULL
      <4>1. /\ c1.data = [kind |-> c1.data.kind, bytes |-> c1.data.bytes]
            /\ c2.data = [kind |-> c2.data.kind, bytes |-> c2.data.bytes]
        BY <3>1, <3>2, Zenon DEF IsContent
      <4>2. c1.data.kind = c2.data.kind /\ c1.data.bytes = c2.data.bytes
        BY <2>1, <3>1, <3>2
      <4> QED BY <4>1, <4>2, Zenon
    <3> QED BY <3>1, <3>2, Zenon
  <2> QED BY <2>1, <2>2, <2>3 DEF IsContent
<1> QED BY <1>1, <1>3, <1>4, <1>5

LEMMA ProjectionsOf ==
  ASSUME NEW c, IsContent(c)
  PROVE  {<<n, Codec!structured_json(c)[n]>> : n \in DOMAIN Codec!structured_json(c) \ {"datacontenttype"}}
           = Codec!binary_attributes(c)
<1>1. PICK A : A = Codec!Attributes(c)
  BY Zenon
<1>2. PICK e : e = c.extensions
  BY Zenon
<1>3. "datacontenttype" \notin DOMAIN e /\ \A n \in DOMAIN e : n \notin A
  BY <1>1, <1>2, Zenon DEF IsContent, IsExtensions, ExtensionNames, Codec!Attributes, Codec!Optional
<1>4. PICK j : j = [n \in A \union DOMAIN e |-> IF n \in DOMAIN e THEN <<"extension", e[n][2]>> ELSE <<"attribute", n>>]
  BY Zenon
<1>5. /\ DOMAIN j = A \union DOMAIN e
      /\ \A n \in DOMAIN e : j[n] = <<"extension", e[n][2]>>
      /\ \A n \in A : j[n] = <<"attribute", n>>
  BY <1>3, <1>4, Zenon
<1>6. {<<n, j[n]>> : n \in DOMAIN j \ {"datacontenttype"}}
        = {<<n, <<"attribute", n>>>> : n \in A \ {"datacontenttype"}}
            \union {<<n, <<"extension", e[n][2]>>>> : n \in DOMAIN e}
  BY <1>3, <1>5
<1>7. Codec!structured_json(c) = j
  BY <1>1, <1>2, <1>4, Zenon DEF Codec!structured_json
<1>8. Codec!binary_attributes(c) = {<<n, <<"attribute", n>>>> : n \in A \ {"datacontenttype"}}
                                      \union {<<n, <<"extension", e[n][2]>>>> : n \in DOMAIN e}
  BY <1>1, <1>2, Zenon DEF Codec!binary_attributes
<1> QED BY <1>6, <1>7, <1>8

LEMMA CodecInvFaithful == CodecInv => EncodingFaithful
<1> SUFFICES ASSUME CodecInv PROVE EncodingFaithful
  BY Zenon
<1>1. Codec!BuiltIsInsertable
  BY RoundTripOf, Zenon DEF CodecInv, Codec!BuiltIsInsertable
<1>2. Codec!RoundTrip
  BY RoundTripOf, Zenon DEF CodecInv, Codec!RoundTrip
<1>3. Codec!SameExactly
  <2> SUFFICES ASSUME phase = "stored", NEW c \in Codec!Variants(content)
               PROVE  Codec!same_event(storedIn, c, columns) <=> c = content
    BY Zenon DEF Codec!SameExactly
  <2>1. IsContent(c) /\ IsContent(content)
    BY VariantsTyped, Zenon DEF CodecInv
  <2>2. content.time # NULL => Codec!validate_instant(content.time)
    BY Zenon DEF CodecInv, Codec!validate_content
  <2> QED BY <2>1, <2>2, SameOf DEF CodecInv
<1>4. Codec!ProjectionsAgree
  BY ProjectionsOf, Zenon DEF CodecInv, Codec!ProjectionsAgree
<1> QED BY <1>1, <1>2, <1>3, <1>4, Zenon DEF EncodingFaithful
LEMMA FreshContent ==
  ASSUME NEW length \in Nat
  PROVE  IsContent(Codec!EventContent(length))
<1>1. IsExtensions(Codec!NoExtensions)
  BY Zenon DEF IsExtensions, Codec!NoExtensions
<1>2. PICK c : c = Codec!EventContent(length)
  BY Zenon
<1>3. c = [identity |-> length, texts |-> [n \in Codec!Optional |-> NULL], time |-> NULL,
           datacontenttype |-> NULL, extensions |-> Codec!NoExtensions, data |-> NULL]
  BY <1>2, Zenon DEF Codec!EventContent
<1>4. IsContent(c)
  BY <1>1, <1>3, Zenon DEF IsContent
<1> QED BY <1>2, <1>4, Zenon

LEMMA CodecInit == Codec!Init => CodecInv
<1> SUFFICES ASSUME Codec!Init PROVE CodecInv
  BY Zenon
<1>1. PICK length \in IdLengths : content = Codec!EventContent(length)
  BY Zenon DEF Codec!Init
<1>2. length \in Nat
  BY BoundaryAssumption
<1>3. IsContent(content)
  BY <1>1, <1>2, FreshContent
<1> QED BY <1>3, Zenon DEF Codec!Init, CodecInv

\* A step of the builder that leaves a well-formed content and is not yet built.
LEMMA BuilderStep ==
  ASSUME NEW c, IsContent(c), content' = c, phase' \in {"extensions", "builder"}
  PROVE  CodecInv'
BY Zenon DEF CodecInv

LEMMA CodecStep == CodecInv /\ [Codec!Next]_(Codec!vars) => CodecInv'
<1> SUFFICES ASSUME CodecInv, [Codec!Next]_(Codec!vars) PROVE CodecInv'
  BY Zenon
<1>0. IsContent(content)
  BY Zenon DEF CodecInv
<1>1. CASE UNCHANGED Codec!vars
  BY <1>1, Zenon DEF Codec!vars, CodecInv
<1>2. ASSUME NEW name \in Codec!Names, NEW value \in Codec!ValuesOf(name), Codec!Insert(name, value)
      PROVE  CodecInv'
  <2>1. PICK e : e = [n \in DOMAIN content.extensions \union {name} |->
                        IF n = name THEN value ELSE content.extensions[n]]
    BY Zenon
  <2>2. value \in ExtensionTexts \X ExtensionTexts
    BY ExtensionValues, Zenon
  <2>3. name \in ExtensionNames
    BY <1>2, Zenon DEF Codec!Insert, Codec!ExtensionName, Codec!Reserved, Codec!Names, ExtensionNames
  <2>4. IsExtensions(e)
    BY <1>0, <2>1, <2>2, <2>3 DEF IsContent, IsExtensions
  <2>5. PICK c : c = [content EXCEPT !.extensions = e]
    BY Zenon
  <2>6. IsContent(c)
    BY <1>0, <2>4, <2>5, WithExtensions
  <2>7. content' = c /\ phase' = "extensions"
    BY <1>2, <2>1, <2>5 DEF Codec!Insert
  <2> QED BY <2>6, <2>7, BuilderStep
<1>3. CASE Codec!extensions
  <2>1. content' = content /\ phase' = "builder"
    BY <1>3, Zenon DEF Codec!extensions
  <2>2. PICK c : c = content
    BY Zenon
  <2> QED BY <1>0, <2>1, <2>2, BuilderStep
<1>4. ASSUME NEW t \in Times, Codec!time(t) PROVE CodecInv'
  <2>1. t \in Nat \union {NULL}
    BY BoundaryAssumption, Zenon
  <2>2. PICK c : c = [content EXCEPT !.time = t]
    BY Zenon
  <2>3. IsContent(c)
    BY <1>0, <2>1, <2>2, WithTime
  <2>4. content' = c /\ phase' = "builder"
    BY <1>4, <2>2 DEF Codec!time, Codec!Set
  <2> QED BY <2>3, <2>4, BuilderStep
<1>5. ASSUME NEW ct \in Codec!ContentTypes, Codec!datacontenttype(ct) PROVE CodecInv'
  <2>1. PICK c : c = [content EXCEPT !.datacontenttype = ct]
    BY Zenon
  <2>2. IsContent(c)
    BY <1>0, <2>1, WithType
  <2>3. content' = c /\ phase' = "builder"
    BY <1>5, <2>1, Zenon DEF Codec!datacontenttype, Codec!Set
  <2> QED BY <2>2, <2>3, BuilderStep
<1>6. ASSUME NEW name \in Codec!Optional, Codec!text(name) PROVE CodecInv'
  <2>1. PICK v : v = [content.texts EXCEPT ![name] = "text"]
    BY Zenon
  <2>2. v \in [Codec!Optional -> {"text", NULL}]
    BY <1>0, <2>1 DEF IsContent
  <2>3. PICK c : c = [content EXCEPT !.texts = v]
    BY Zenon
  <2>4. IsContent(c)
    BY <1>0, <2>2, <2>3, WithTexts
  <2>5. content' = c /\ phase' = "builder"
    BY <1>6, <2>1, <2>3 DEF Codec!text
  <2> QED BY <2>4, <2>5, BuilderStep
<1>7. ASSUME NEW d \in Codec!EventData, Codec!data(d) PROVE CodecInv'
  <2>1. d \in [kind : {"json", "binary"}, bytes : Nat] \union {NULL}
    BY EventDataTyped, Zenon
  <2>2. PICK c : c = [content EXCEPT !.data = d]
    BY Zenon
  <2>3. IsContent(c)
    BY <1>0, <2>1, <2>2, WithData
  <2>4. content' = c /\ phase' = "builder"
    BY <1>7, <2>2, Zenon DEF Codec!data, Codec!Set
  <2> QED BY <2>3, <2>4, BuilderStep
<1>8. ASSUME NEW d \in Codec!JsonData, Codec!json_data(d) PROVE CodecInv'
  <2>1. d \in [kind : {"json", "binary"}, bytes : Nat] \union {NULL}
    BY EventDataTyped, Zenon DEF Codec!EventData
  <2>2. PICK c : c = [content EXCEPT !.data = d]
    BY Zenon
  <2>3. IsContent(c)
    BY <1>0, <2>1, <2>2, WithData
  <2>4. PICK c2 : c2 = [c EXCEPT !.datacontenttype = "application/json"]
    BY Zenon
  <2>5. IsContent(c2)
    BY <2>3, <2>4, WithType DEF Codec!ContentTypes
  <2>6. content' = c2 /\ phase' = "builder"
    BY <1>8, <2>2, <2>4 DEF Codec!json_data
  <2> QED BY <2>5, <2>6, BuilderStep
<1>9. ASSUME NEW limit \in {DEFAULT_LIMIT, MAX_LIMIT}, Codec!build_with_limit(limit) PROVE CodecInv'
  <2>1. Codec!validate_content(content, limit) => Codec!validate_content(content, MAX_LIMIT)
    BY <1>0, LargerLimit, Zenon
  <2>2. /\ phase' = IF Codec!validate_content(content, limit) THEN "built" ELSE "refused"
        /\ UNCHANGED <<content, storedIn, columns>>
    BY <1>9, Zenon DEF Codec!build_with_limit
  <2>3. PICK c : c = content
    BY Zenon
  <2>4. content' = c
    BY <2>2, <2>3, Zenon
  <2>5. phase' \in {"built", "refused"} /\ (phase' = "built" => Codec!validate_content(c, MAX_LIMIT))
    BY <2>1, <2>2, <2>3
  <2> QED BY <1>0, <2>3, <2>4, <2>5 DEF CodecInv
<1>10. ASSUME NEW a \in Codec!Adapters, Codec!Store(a) PROVE CodecInv'
  <2>1. PICK c : c = content
    BY Zenon
  <2>2. IsContent(c) /\ Codec!validate_content(c, MAX_LIMIT)
    BY <1>10, <2>1 DEF CodecInv, Codec!Store
  <2>3. content' = c /\ phase' = "stored" /\ storedIn' = a /\ columns' = Codec!columns(a, c)
    BY <1>10, <2>1 DEF Codec!Store
  <2> QED BY <2>2, <2>3, Zenon DEF CodecInv
<1>11. CASE Codec!StartOver
  <2>1. content.identity \in Nat
    BY <1>0, Zenon DEF IsContent
  <2>2. PICK c : c = Codec!EventContent(content.identity)
    BY Zenon
  <2>3. IsContent(c)
    BY <2>1, <2>2, FreshContent
  <2>4. content' = c /\ phase' = "extensions"
    BY <1>11, <2>2 DEF Codec!StartOver
  <2> QED BY <2>3, <2>4, BuilderStep
<1> QED
  BY <1>1, <1>2, <1>3, <1>4, <1>5, <1>6, <1>7, <1>8, <1>9, <1>10, <1>11 DEF Codec!Next

\* Whatever the builder accepted, each database accepts and every later read returns as
\* it was built, a second enqueue is the same event exactly when its content is, and no
\* extension hides an attribute in a projection: for every size limit, identity length
\* and set of times, and every order of the builder's calls.
THEOREM EncodingAlwaysFaithful == Codec!Spec => []EncodingFaithful
<1>1. Codec!Init => CodecInv
  BY CodecInit, Zenon
<1>2. CodecInv /\ [Codec!Next]_(Codec!vars) => CodecInv'
  BY CodecStep, Zenon
<1>3. CodecInv => EncodingFaithful
  BY CodecInvFaithful, Zenon
<1> QED
  BY <1>1, <1>2, <1>3, PTL DEF Codec!Spec
===============================================================================
