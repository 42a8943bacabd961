----------------------------- MODULE TenantScopes -----------------------------
(***************************************************************************)
(* The handles TenantDovecote and AdminDovecote over connections shared by *)
(* all tenants, with and without PostgreSQL's row-level-security profile.  *)
(* A handle decides the tenant predicate its operation runs under and, on  *)
(* PostgreSQL, whether the transaction is bound to a tenant first; the     *)
(* profile then hides every row of another tenant from an ordinary role.   *)
(* The concurrency inside an operation is the other modules' subject: here *)
(* each one is a step, but caller-owned transactions stay open across many.*)
(***************************************************************************)
EXTENDS FiniteSets

CONSTANTS
  Tenants, Ids, Conns,
  AdminConns,  \* connections of the worker or operator pool, whose role has BYPASSRLS
  Admin,       \* the administrative handle
  NULL

VARIABLES
  adapter,
  rls,      \* whether the RLS profile is installed (PostgreSQL only)
  setting,  \* dovecote.tenant_id of each connection: NULL, a tenant, or "" once reset
  tx,       \* whether the connection is in a caller-owned transaction
  rows,     \* id -> the row, its last committed version, and who has it locked
  last      \* the last operation: who asked for what, and the rows it served

vars == <<adapter, rls, setting, tx, rows, last>>

Reads == {"page", "begin_snapshot"}
Mutations == {"renew", "ack", "retry", "release", "quarantine"}
PoolOps == Reads \union {"claim"} \union Mutations

Nothing == [tenant |-> NULL, state |-> "none"]
Quiet == [handle |-> NULL, op |-> "none", tenant |-> NULL, conn |-> NULL,
          due |-> {}, served |-> {}]

-------------------------------------------------------------------------------
(* What each method of a handle passes on: the tenants its predicate admits *)
(* and the tenant it binds.  For TenantDovecote, tenant is its own.         *)

PgTenantInTransaction(tenant, op) == [admits |-> {tenant}, binds |-> tenant]

PgTenantOnPool(tenant, op) == [admits |-> {tenant}, binds |-> tenant]

PgAdminInTransaction(tenant, op) == [admits |-> {tenant}, binds |-> NULL]

PgAdminOnPool(tenant, op) ==
  IF op \in Mutations THEN [admits |-> {tenant}, binds |-> tenant]
                      ELSE [admits |-> Tenants, binds |-> NULL]

MysqlTenantInTransaction(tenant, op) == [admits |-> {tenant}, binds |-> NULL]

\* Mutation of MysqlTenantOnPool: quarantine passes no tenant.
MysqlTenantOnPool_unscoped(tenant, op) ==
  [admits |-> IF op = "quarantine" THEN Tenants ELSE {tenant}, binds |-> NULL]

MysqlTenantOnPool(tenant, op) == [admits |-> {tenant}, binds |-> NULL]

MysqlAdminInTransaction(tenant, op) == [admits |-> {tenant}, binds |-> NULL]

MysqlAdminOnPool(tenant, op) ==
  [admits |-> IF op \in Mutations THEN {tenant} ELSE Tenants, binds |-> NULL]

SqliteTenantInTransaction(tenant, op) == [admits |-> {tenant}, binds |-> NULL]

SqliteTenantOnPool(tenant, op) == [admits |-> {tenant}, binds |-> NULL]

SqliteAdminInTransaction(tenant, op) == [admits |-> {tenant}, binds |-> NULL]

SqliteAdminOnPool(tenant, op) ==
  [admits |-> IF op \in Mutations THEN {tenant} ELSE Tenants, binds |-> NULL]

Call(handle, tenant, op) ==
  LET pool == op \in PoolOps IN
  CASE adapter = "postgres" /\ handle # Admin ->
         IF pool THEN PgTenantOnPool(tenant, op) ELSE PgTenantInTransaction(tenant, op)
    [] adapter = "postgres" /\ handle = Admin ->
         IF pool THEN PgAdminOnPool(tenant, op) ELSE PgAdminInTransaction(tenant, op)
    [] adapter = "mysql" /\ handle # Admin ->
         IF pool THEN MysqlTenantOnPool(tenant, op) ELSE MysqlTenantInTransaction(tenant, op)
    [] adapter = "mysql" /\ handle = Admin ->
         IF pool THEN MysqlAdminOnPool(tenant, op) ELSE MysqlAdminInTransaction(tenant, op)
    [] adapter = "sqlite" /\ handle # Admin ->
         IF pool THEN SqliteTenantOnPool(tenant, op) ELSE SqliteTenantInTransaction(tenant, op)
    [] adapter = "sqlite" /\ handle = Admin ->
         IF pool THEN SqliteAdminOnPool(tenant, op) ELSE SqliteAdminInTransaction(tenant, op)

-------------------------------------------------------------------------------
(* The database.                                                           *)

\* The setting inside a transaction after a call that binds a tenant, or none.
bind_tenant(c, tenant) == IF tenant = NULL THEN setting[c] ELSE tenant

\* A transaction-local value is reset at the end of the transaction: to "", once
\* the session has known the setting.
unbound(value) == IF value = NULL THEN NULL ELSE ""

\* Tenants whose rows the policy shows a statement, and lets it write.
Policy(c, value) == IF rls /\ c \notin AdminConns THEN {value} \intersect Tenants ELSE Tenants

\* The version of row i that a statement on connection c sees.
Seen(c, i) == IF rows[i].by \in {NULL, c} THEN rows[i].new ELSE rows[i].old

Put(c, i, r) == [rows EXCEPT ![i].new = r, ![i].by = c]
PutCommitted(S, state) ==
  [i \in Ids |-> IF i \in S
                   THEN [new |-> [rows[i].new EXCEPT !.state = state],
                         old |-> [rows[i].new EXCEPT !.state = state], by |-> NULL]
                   ELSE rows[i]]

\* The tenants a caller means: its handle's own, or for the administrator every
\* tenant, or the one it names for a write.
Meant(handle, tenant, op) ==
  IF handle # Admin THEN {handle}
  ELSE IF op \in Reads \union {"claim"} THEN Tenants ELSE {tenant}

OfTenants(c, tenants) == {i \in Ids : Seen(c, i).tenant \in tenants}
InState(c, states) == {i \in Ids : Seen(c, i).state \in states}

Report(handle, tenant, op, c, due, served) ==
  last' = [handle |-> handle, op |-> op, tenant |-> tenant, conn |-> c,
           due |-> due, served |-> served]

EndTransaction(c, table) ==
  /\ rows' = table
  /\ tx' = [tx EXCEPT ![c] = FALSE]

Committed(c) ==
  [i \in Ids |-> IF rows[i].by = c THEN [rows[i] EXCEPT !.old = rows[i].new, !.by = NULL]
                                   ELSE rows[i]]
RolledBack(c) ==
  [i \in Ids |-> IF rows[i].by = c THEN [rows[i] EXCEPT !.new = rows[i].old, !.by = NULL]
                                   ELSE rows[i]]

-------------------------------------------------------------------------------

Begin(c) ==
  /\ ~tx[c]
  /\ tx' = [tx EXCEPT ![c] = TRUE]
  /\ last' = Quiet
  /\ UNCHANGED <<adapter, rls, setting, rows>>

Commit(c) ==
  /\ tx[c]
  /\ EndTransaction(c, Committed(c))
  /\ setting' = [setting EXCEPT ![c] = unbound(@)]
  /\ last' = Quiet
  /\ UNCHANGED <<adapter, rls>>

Rollback(c) ==
  /\ tx[c]
  /\ EndTransaction(c, RolledBack(c))
  /\ setting' = [setting EXCEPT ![c] = unbound(@)]
  /\ last' = Quiet
  /\ UNCHANGED <<adapter, rls>>

\* enqueue and import of a new identity i: an INSERT of event and delivery, which
\* the policy may refuse; the caller then rolls back, as it must.
Insert(c, handle, tenant, op, i) ==
  LET call == Call(handle, tenant, op)
      value == bind_tenant(c, call.binds)
      stored == CHOOSE t \in call.admits : TRUE
      allowed == stored \in Policy(c, value)
  IN  /\ tx[c] /\ rows[i].by = NULL /\ rows[i].new = Nothing
      /\ Report(handle, tenant, op, c, {i}, IF allowed THEN {i} ELSE {})
      /\ \/ /\ allowed
            /\ rows' = Put(c, i, [tenant |-> stored, state |-> "pending"])
            /\ setting' = [setting EXCEPT ![c] = value]
            /\ UNCHANGED tx
         \/ /\ ~allowed
            /\ EndTransaction(c, RolledBack(c))
            /\ setting' = [setting EXCEPT ![c] = unbound(value)]
      /\ UNCHANGED <<adapter, rls>>

\* finalize_pending_delivery_for_migration of row i; NotFound serves nothing.
Finalize(c, handle, tenant, i) ==
  LET call == Call(handle, tenant, "finalize")
      value == bind_tenant(c, call.binds)
      found == i \in OfTenants(c, call.admits \intersect Policy(c, value)) \intersect InState(c, {"pending"})
  IN  /\ tx[c] /\ rows[i].by \in {NULL, c}
      /\ Report(handle, tenant, "finalize", c,
                {i} \intersect OfTenants(c, Meant(handle, tenant, "finalize"))
                    \intersect InState(c, {"pending"}),
                IF found THEN {i} ELSE {})
      /\ rows' = IF found THEN Put(c, i, [Seen(c, i) EXCEPT !.state = "delivered"]) ELSE rows
      /\ setting' = [setting EXCEPT ![c] = value]
      /\ UNCHANGED <<adapter, rls, tx>>

\* An operation in a transaction of its own on an idle connection of the handle's
\* pool, on the rows that match it.
OnPool(c, handle, tenant, op, matching, state) ==
  LET call == Call(handle, tenant, op)
      value == bind_tenant(c, call.binds)
      served == matching \intersect OfTenants(c, call.admits \intersect Policy(c, value))
  IN  /\ ~tx[c] /\ (handle = Admin => c \in AdminConns)
      /\ Report(handle, tenant, op, c,
                matching \intersect OfTenants(c, Meant(handle, tenant, op)), served)
      /\ rows' = IF state = "same" THEN rows ELSE PutCommitted(served, state)
      /\ setting' = [setting EXCEPT ![c] = unbound(value)]
      /\ UNCHANGED <<adapter, rls, tx>>

AllStates == {"pending", "claimed", "delivered", "quarantined"}

Page(c, handle, tenant, op) ==
  OnPool(c, handle, tenant, op, InState(c, AllStates), "same")

\* A claim skips locked rows and a mutation waits for them.
Unlocked == {i \in Ids : rows[i].by = NULL}

\* The batch is large enough for every due row.
Claim(c, handle, tenant) ==
  OnPool(c, handle, tenant, "claim", InState(c, {"pending"}) \intersect Unlocked, "claimed")

After(op) ==
  CASE op = "renew" -> "claimed"
    [] op = "ack" -> "delivered"
    [] op \in {"retry", "release"} -> "pending"
    [] op = "quarantine" -> "quarantined"

\* Whoever presents the token of row i's claim presents it to some handle.
Mutate(c, handle, tenant, op, i) ==
  /\ i \in Unlocked
  /\ OnPool(c, handle, tenant, op, {i} \intersect InState(c, {"claimed"}), After(op))

Init ==
  /\ adapter \in {"postgres", "mysql", "sqlite"}
  /\ rls \in IF adapter = "postgres" THEN BOOLEAN ELSE {FALSE}
  /\ setting = [c \in Conns |-> NULL]
  /\ tx = [c \in Conns |-> FALSE]
  /\ rows = [i \in Ids |-> [new |-> Nothing, old |-> Nothing, by |-> NULL]]
  /\ last = Quiet

\* A tenant's handle always names its own tenant.
Handles(tenant) == {tenant, Admin}

Next ==
  \E c \in Conns :
    \/ Begin(c) \/ Commit(c) \/ Rollback(c)
    \/ \E tenant \in Tenants : \E handle \in Handles(tenant) :
         \/ \E op \in {"enqueue", "import"}, i \in Ids : Insert(c, handle, tenant, op, i)
         \/ \E i \in Ids : Finalize(c, handle, tenant, i)
         \/ \E op \in Reads : Page(c, handle, tenant, op)
         \/ Claim(c, handle, tenant)
         \/ \E op \in Mutations, i \in Ids : Mutate(c, handle, tenant, op, i)

Spec == Init /\ [][Next]_vars

-------------------------------------------------------------------------------
(* Properties.                                                             *)

\* An operation serves no row but those its caller means: a tenant's handle never
\* reads, claims or changes another tenant's row, whatever token or row id it is
\* given and whatever another handle bound earlier in the same transaction.
Isolated ==
  \A i \in last.served : rows[i].new.tenant \in Meant(last.handle, last.tenant, last.op)

\* Nothing meant is withheld: with the RLS profile installed, every tenant operation
\* is bound to its tenant before it reads or writes, so it serves each row it would
\* serve without the profile.  The administrator needs the BYPASSRLS role for that.
NothingWithheld ==
  last.handle # Admin \/ ~rls \/ last.conn \in AdminConns => last.due \subseteq last.served

\* No tenant stays bound to a connection that goes back to the pool.
NoLeftBinding == \A c \in Conns : setting[c] \in Tenants => tx[c]
===============================================================================
