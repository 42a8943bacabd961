---------------------------- MODULE IdentityKey ----------------------------
(***************************************************************************)
(* The identity of an event in MySQL.  A unique index over tenant, source  *)
(* and event id would exceed the engine's key length, so the table keeps   *)
(* one generated column, identity_key, that concatenates the three behind  *)
(* fixed-width lengths, and the unique key is on that column.              *)
(*                                                                         *)
(* Texts are sequences of bytes.  The digits of a length are bytes a text  *)
(* may hold as well, so only the widths tell the parts apart.              *)
(***************************************************************************)
EXTENDS Naturals, Sequences, FiniteSets

CONSTANTS
    Bytes,                                  \* the bytes a text may hold
    MaxTenant, MaxSource, MaxEventId,       \* the tables' size CHECKs
    MaxRows                                 \* bound on the rows of an instance

\* The numbers of at most three and at most four decimal digits.
Numbers3 == {n \in Nat : n < 10 * 10 * 10}
Numbers4 == {n \in Nat : n < 10 * 10 * 10 * 10}

\* LPAD cuts a number wider than its field; no admissible length is.
ASSUME WidthAssumption ==
    /\ MaxTenant \in Numbers3
    /\ MaxSource \in Numbers4
    /\ MaxEventId \in Nat

VARIABLES
    rows,         \* identities of the stored events
    answer        \* the last INSERT: what it asked for and its outcome

vars == <<rows, answer>>

Identity ==
    [tenant : {t \in Seq(Bytes) : Len(t) <= MaxTenant},
     source : {s \in Seq(Bytes) : Len(s) <= MaxSource},
     event_id : {e \in Seq(Bytes) : Len(e) <= MaxEventId}]

Digit(n) == 48 + (n % 10)

LPAD3(n) == <<Digit((n \div 10) \div 10), Digit(n \div 10), Digit(n)>>
LPAD4(n) == <<Digit(((n \div 10) \div 10) \div 10), Digit((n \div 10) \div 10),
              Digit(n \div 10), Digit(n)>>

identity_key_one_length(x) ==
    LPAD3(Len(x.tenant)) \o (x.tenant \o (x.source \o x.event_id))

identity_key(x) ==
    LPAD3(Len(x.tenant)) \o (x.tenant \o
        (LPAD4(Len(x.source)) \o (x.source \o x.event_id)))

-----------------------------------------------------------------------------
NoIdentity == [tenant |-> <<>>, source |-> <<>>, event_id |-> <<>>]

Init == rows = {} /\ answer = [outcome |-> "none", asked |-> NoIdentity]

\* The INSERT of enqueue: error 1062 on the unique key is a duplicate.
Insert(x) ==
    IF \E r \in rows : identity_key(r) = identity_key(x)
    THEN /\ answer' = [outcome |-> "duplicate", asked |-> x]
         /\ UNCHANGED rows
    ELSE /\ answer' = [outcome |-> "inserted", asked |-> x]
         /\ rows' = rows \cup {x}

\* Texts of at most `most' bytes.
Texts(most) == UNION {[1..n -> Bytes] : n \in 0..most}

\* A tenant, a source and an event id are never empty.
Next ==
    \E t \in Texts(MaxTenant), s \in Texts(MaxSource), e \in Texts(MaxEventId) :
        /\ t # <<>> /\ s # <<>> /\ e # <<>>
        /\ Insert([tenant |-> t, source |-> s, event_id |-> e])
        /\ Cardinality(rows') <= MaxRows

Spec == Init /\ [][Next]_vars

-----------------------------------------------------------------------------
(* An INSERT is refused as a duplicate exactly when the identity is stored *)
(* already: the generated key confuses no two identities, whose lookup     *)
(* after the refusal would find no row, and misses none.                   *)
DuplicateExactly ==
    [][(answer'.outcome = "duplicate") <=> (answer'.asked \in rows)]_vars
=============================================================================
