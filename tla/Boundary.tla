------------------------------- MODULE Boundary -------------------------------
(***************************************************************************)
(* What lies between the operations and the databases, in one module: the  *)
(* uniqueness of identities in MySQL (IdentityKey), the columns of a row   *)
(* (StoredRows), the sessions of a shared MySQL pool (MysqlSessions), the  *)
(* tenants of the handles (TenantScopes) and the columns of an event       *)
(* (EventCodec).  They share no state but the adapter in use.              *)
(***************************************************************************)
EXTENDS IdentityKey, Integers

CONSTANTS
  NULL,
  MaxInstant, MaxAttempts, Durations, MAX_LEASE, MAX_BACKOFF_OR_DELAY,  \* StoredRows
  Connections, Servers,                                                 \* MysqlSessions
  Tenants, Ids, Conns, AdminConns, Admin,                               \* TenantScopes
  Times, Epoch, MaxTime, IdLengths, MAX_IDENTITY_BYTES, DEFAULT_LIMIT, MAX_LIMIT  \* EventCodec

\* NULL is no value of a column, and neither it nor "" is a tenant; instants,
\* durations, attempts, times and lengths are counted from 0.  No event size limit is
\* above the largest.
ASSUME BoundaryAssumption ==
  /\ NULL \notin Int /\ NULL \notin {"", "ok", "not UTF-8", "16 bytes", "15 bytes", "text", "json",
                                        "binary", "application/json", "text/plain"}
  /\ NULL \notin Tenants /\ "" \notin Tenants
  /\ MaxInstant \in Nat /\ MaxAttempts \in Nat /\ Durations \subseteq Nat
  /\ Times \subseteq Nat /\ IdLengths \subseteq Nat
  /\ DEFAULT_LIMIT \in Nat /\ MAX_LIMIT \in Nat /\ DEFAULT_LIMIT <= MAX_LIMIT

VARIABLES
  adapter, now, row,                   \* StoredRows
  session, oneShot, begun, named, op,  \* MysqlSessions
  rls, setting, tx, deliveries, last,  \* TenantScopes
  phase, content, storedIn, columns    \* EventCodec

Stored == INSTANCE StoredRows
Sessions == INSTANCE MysqlSessions
Scopes == INSTANCE TenantScopes WITH rows <- deliveries
Codec == INSTANCE EventCodec WITH adapter <- storedIn, row <- columns

-------------------------------------------------------------------------------
(* Properties.                                                             *)

\* A page shows a row exactly when the table's CHECKs admit it and every text and
\* instant in it is one the library could have written (hydrate_page of the three
\* adapters); a due row that a page can show does not poison the claim that selects
\* it; a lease or delay the core accepts is added to the clock exactly.
RowsUsable == Stored!ReadableExactly /\ Stored!ReadableIsClaimable /\ Stored!DurationsExact

\* No operation violates a CHECK of the table, or turns a row that can be read into one
\* that cannot unless PostgreSQL adds a lease or delay past the end of 9999; and the
\* last failure is evidence that only a retry replaces.
RowsKept == Stored!StaysReadable /\ Stored!FailureKept

\* No statement of an operation runs under session settings or on a server where it
\* would go wrong, as detect_on_connection probed the connection the operation is on;
\* and the transaction a claim, a mutation or a snapshot pager began runs at REPEATABLE
\* READ, the level the probe reads, unless the application had named another for it
\* with SET TRANSACTION, which @@transaction_isolation does not show.
SessionsSafe == Sessions!WorkIsSafe /\ Sessions!RunsAsProbed

\* A tenant's handle never reads, claims or changes another tenant's row; with the
\* RLS profile it still serves each row it would serve without it (bind_tenant comes
\* first); and no tenant stays bound to a connection that goes back to the pool.
TenantsApart == Scopes!Isolated /\ Scopes!NothingWithheld /\ Scopes!NoLeftBinding

\* Every event the builder accepts is a row each database accepts, it is read back as
\* it was built (hydrate_event), a second enqueue is recognised as the same event
\* exactly when its content is the same (same_event), and the structured and the
\* binary projection carry the same attributes.
EncodingFaithful ==
  /\ Codec!BuiltIsInsertable
  /\ Codec!RoundTrip
  /\ Codec!SameExactly
  /\ Codec!ProjectionsAgree
===============================================================================
