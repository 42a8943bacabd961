--------------------------- MODULE TenantUpgrade ---------------------------
(***************************************************************************)
(* The upgrade of a version 1 database to the tenant schema (version 2),   *)
(* and the schema gates that decide whether an adapter may use it.         *)
(*                                                                         *)
(* An operator runs the prepare artifact (nullable tenant columns), fills  *)
(* in a tenant for every row, and runs the activation artifact.  On        *)
(* PostgreSQL and SQLite the activation is one transaction.  On MySQL every*)
(* ALTER commits by itself, so the artifact is a preflight followed by     *)
(* conditional statements, and a run that is cut off is started again.     *)
(* Version 1 and version 2 producers may write while this goes on.         *)
(*                                                                         *)
(* `catalog' gives the definition each schema object has: the one of       *)
(* version 1, the one of version 2, or none.  Objects the upgrade leaves   *)
(* alone are the single object "rest".                                     *)
(***************************************************************************)
EXTENDS Naturals, Sequences, FiniteSets

CONSTANTS
    Adapters,       \* the adapters checked, out of "postgres", "mysql", "sqlite"
    Runs,           \* the connections that run the MySQL activation artifact
    TenantIds,      \* the tenants
    Identities,     \* the (source, event_id) identities
    NULL,           \* a tenant_id that is NULL
    MaxRows,        \* bound: events in the database
    MaxCrashes      \* bound: activation runs that are cut off

\* Neither NULL nor an invalid text is a tenant.
ASSUME UpgradeAssumption ==
    /\ Adapters \subseteq {"postgres", "mysql", "sqlite"}
    /\ NULL \notin TenantIds /\ "" \notin TenantIds

VARIABLES adapter, catalog, rows, run, crashes

upgradevars == <<adapter, catalog, rows, run, crashes>>

Checks == {"events_tenant_size", "events_tenant_nonempty",
           "deliveries_tenant_size", "deliveries_tenant_nonempty"}
TenantColumns == {"events_tenant_id", "deliveries_tenant_id"}
Rebuilt == {"event_fk", "claimable", "expired_claims"}
Added == Checks \cup {"tenant_row", "identity_key", "tenant_source_event_id",
                      "event_fk_index"}
Objects == TenantColumns \cup Rebuilt \cup Added
             \cup {"source_event_id", "schema_marker", "rest"}
Definitions == {"none", "nullable", "not_null", "v1", "v2", "empty"}

\* What only MySQL has: the generated identity column and the index InnoDB makes
\* for the composite foreign key.
MysqlOnly == {"identity_key", "event_fk_index"}

\* 0001_dovecote.sql.  Only PostgreSQL's version 1 has a marker table.
Version1(a) ==
    [o \in Objects |->
        CASE o \in Rebuilt \cup {"source_event_id", "rest"} -> "v1"
          [] o = "schema_marker" /\ a = "postgres" -> "v1"
          [] OTHER -> "none"]

\* What version 2 builds, adds or defines anew on adapter a.
Made(a) ==
    (Rebuilt \cup Added \cup {"schema_marker"})
        \ (IF a = "mysql" THEN {} ELSE MysqlOnly)

\* 0002_dovecote_tenant_baseline.sql.
Baseline(a) ==
    [o \in Objects |->
        CASE o \in TenantColumns -> "not_null"
          [] o \in Made(a) -> "v2"
          [] o = "rest" -> "v1"
          [] OTHER -> "none"]

-----------------------------------------------------------------------------
(* The rows, and what each constraint of the catalog demands of them.  The *)
(* tenant "" stands for one that is empty or too long.                     *)

TenantRow == [id: Identities, event: TenantIds \cup {NULL, ""},
              delivery: TenantIds \cup {NULL, ""}]
NoRun == [pc |-> 0, seen |-> Version1("mysql"), undisturbed |-> FALSE]

UniqueTenantIdentity(rs) ==
    \A i, j \in DOMAIN rs :
        rs[i].id = rs[j].id /\ rs[i].event = rs[j].event => i = j

\* Whether the database accepts definition d of object o over the rows rs.
Admits(o, d, rs) ==
    \A i \in DOMAIN rs :
        /\ o = "events_tenant_id" /\ d = "not_null" => rs[i].event # NULL
        /\ o = "deliveries_tenant_id" /\ d = "not_null" => rs[i].delivery # NULL
        /\ o = "events_tenant_nonempty" /\ d = "v2" => rs[i].event # ""
        /\ o = "deliveries_tenant_nonempty" /\ d = "v2" => rs[i].delivery # ""
        /\ o = "event_fk" /\ d = "v2" => rs[i].event = rs[i].delivery
        /\ o = "source_event_id" /\ d = "v1" =>
              \A j \in DOMAIN rs : rs[i].id = rs[j].id => i = j
        /\ o = "tenant_source_event_id" /\ d = "v2" => UniqueTenantIdentity(rs)

AdmitsAll(cat, rs) == \A o \in Objects : Admits(o, cat[o], rs)

\* The backfill part of the guard every activation artifact starts with.
Backfilled_no_agreement(rs) ==
    \A i \in DOMAIN rs : rs[i].event \in TenantIds /\ rs[i].delivery \in TenantIds

Backfilled(rs) ==
    /\ UniqueTenantIdentity(rs)
    /\ \A i \in DOMAIN rs :
          rs[i].event \in TenantIds /\ rs[i].delivery = rs[i].event

-----------------------------------------------------------------------------
(* check_schema, adapter by adapter.                                       *)

\* Every required object is there with the required definition.
Exact(cat, a, objects) == \A o \in objects : cat[o] = Baseline(a)[o]

Columns == TenantColumns \cup {"identity_key"}
Constraints == Checks \cup {"tenant_row", "tenant_source_event_id", "event_fk"}
Indexes == {"source_event_id", "tenant_source_event_id", "tenant_row",
            "event_fk_index", "claimable", "expired_claims"}

pg_marker_matches(cat) == cat["schema_marker"] = "v2"
pg_check_columns(cat) == Exact(cat, "postgres", TenantColumns)
pg_expected_constraints(cat) == Exact(cat, "postgres", Constraints \ {"tenant_source_event_id"})
pg_expected_indexes(cat) ==
    /\ Exact(cat, "postgres", {"tenant_source_event_id", "claimable", "expired_claims"})
    /\ cat["source_event_id"] = "none"

pg_check_schema(cat) ==
    /\ pg_marker_matches(cat)
    /\ pg_check_columns(cat)
    /\ pg_expected_constraints(cat)
    /\ pg_expected_indexes(cat)
    /\ cat["rest"] = "v1"

mysql_check_schema_marker(cat) == cat["schema_marker"] = "v2"
mysql_check_marker_table(cat) == cat["schema_marker"] # "none"
mysql_check_columns(cat) == Exact(cat, "mysql", Columns)
mysql_check_constraints(cat) == Exact(cat, "mysql", Constraints)
mysql_check_triggers(cat) == cat["rest"] = "v1"
mysql_check_indexes(cat) == Exact(cat, "mysql", Indexes)

mysql_check_schema(cat) ==
    /\ mysql_check_schema_marker(cat)
    /\ mysql_check_marker_table(cat)
    /\ mysql_check_columns(cat)
    /\ mysql_check_constraints(cat)
    /\ mysql_check_triggers(cat)
    /\ mysql_check_indexes(cat)

sqlite_check_schema_marker(cat) == cat["schema_marker"] = "v2"
sqlite_check_columns(cat) == Exact(cat, "sqlite", TenantColumns)
\* normalize_sql of the table's own definition, its CHECKs and UNIQUE included.
sqlite_table_source(cat) == Exact(cat, "sqlite", Checks) /\ cat["rest"] = "v1"
sqlite_check_index(cat, index) == cat[index] = "v2"
sqlite_no_extra_objects(cat) == cat["source_event_id"] = "none"
sqlite_check_foreign_key(cat) == cat["event_fk"] = "v2"

sqlite_check_schema(cat) ==
    /\ sqlite_check_schema_marker(cat)
    /\ sqlite_check_columns(cat)
    /\ sqlite_table_source(cat)
    /\ sqlite_no_extra_objects(cat)
    /\ \A index \in {"tenant_source_event_id", "tenant_row", "claimable",
                     "expired_claims"} : sqlite_check_index(cat, index)
    /\ sqlite_check_foreign_key(cat)

check_schema(a, cat) ==
    CASE a = "postgres" -> pg_check_schema(cat)
      [] a = "mysql" -> mysql_check_schema(cat)
      [] a = "sqlite" -> sqlite_check_schema(cat)

-----------------------------------------------------------------------------
(* Producers.                                                              *)

\* The rows after a commit that adds or changes one, refused by any constraint.
CommitRows(rs) == AdmitsAll(catalog, rs) /\ rows' = rs

Disturb ==
    run' = [s \in Runs |-> [run[s] EXCEPT !.undisturbed = FALSE]]

\* A version 1 adapter writes no tenant.  Its PostgreSQL gate wants the version 1
\* marker, SQLite's conflict clause the version 1 index.
V1Enqueue(id) ==
    /\ Len(rows) < MaxRows
    /\ adapter = "postgres" => catalog["schema_marker"] = "v1"
    /\ adapter = "sqlite" => catalog["source_event_id"] = "v1"
    /\ CommitRows(Append(rows, [id |-> id, event |-> NULL, delivery |-> NULL]))
    /\ Disturb
    /\ UNCHANGED <<adapter, catalog, crashes>>

\* validate_enqueue_schema: the cheap gate of an enqueue.  Only PostgreSQL's reads
\* the marker; the others see that the tables are there.
pg_validate_enqueue_schema(cat) == pg_marker_matches(cat)
mysql_validate_enqueue_schema(cat) == cat["rest"] = "v1"
sqlite_validate_enqueue_schema(cat) == cat["rest"] = "v1"

validate_enqueue_schema(a, cat) ==
    CASE a = "postgres" -> pg_validate_enqueue_schema(cat)
      [] a = "mysql" -> mysql_validate_enqueue_schema(cat)
      [] a = "sqlite" -> sqlite_validate_enqueue_schema(cat)

\* A version 2 enqueue behind its gate.  The INSERTs name tenant_id in both
\* tables, and SQLite's ON CONFLICT names the columns of the tenant index.
V2Enqueue(id, t) ==
    /\ Len(rows) < MaxRows
    /\ validate_enqueue_schema(adapter, catalog)
    /\ \A c \in TenantColumns : catalog[c] # "none"
    /\ adapter = "sqlite" => catalog["tenant_source_event_id"] = "v2"
    /\ CommitRows(Append(rows, [id |-> id, event |-> t, delivery |-> t]))
    /\ UNCHANGED <<adapter, catalog, run, crashes>>

-----------------------------------------------------------------------------
(* The operator: prepare, backfill, activate.                              *)

\* Each ALTER of the prepare artifact commits by itself.
Prepare(c) ==
    /\ c = "deliveries_tenant_id" => catalog["events_tenant_id"] # "none"
    /\ catalog[c] = "none"
    /\ catalog' = [catalog EXCEPT ![c] = "nullable"]
    /\ UNCHANGED <<adapter, rows, run, crashes>>

Prepared == \A c \in TenantColumns : catalog[c] # "none"

\* The operator's mapping, applied to one row.  It may be wrong, and the two
\* tables are updated by separate statements.
Assign(i, e, d) ==
    /\ Prepared
    /\ i \in DOMAIN rows
    /\ ~ (rows[i].event \in TenantIds /\ rows[i].event = rows[i].delivery)
    /\ CommitRows([rows EXCEPT ![i] = [id |-> @.id, event |-> e, delivery |-> d]])
    /\ rows' # rows
    /\ Disturb
    /\ UNCHANGED <<adapter, catalog, crashes>>

Backfill ==
    \E i \in 1..MaxRows, t \in TenantIds : Assign(i, t, t)

BackfillWrong ==
    \E i \in 1..MaxRows, e \in TenantIds \cup {""}, d \in TenantIds \cup {NULL} :
        Assign(i, e, d)

\* 0002_dovecote_tenant_activate_v2.sql, one transaction.
PgActivate ==
    /\ adapter = "postgres" /\ Prepared
    /\ catalog["schema_marker"] = "v1"
    /\ Backfilled(rows)
    /\ AdmitsAll(Baseline("postgres"), rows)
    /\ catalog' = Baseline("postgres")
    /\ UNCHANGED <<adapter, rows, run, crashes>>

\* SQLite's activation: the tables are rebuilt inside BEGIN IMMEDIATE.
SqliteActivate ==
    /\ adapter = "sqlite" /\ Prepared
    /\ catalog["schema_marker"] = "none"
    /\ Backfilled(rows)
    /\ AdmitsAll(Baseline("sqlite"), rows)
    /\ catalog' = Baseline("sqlite")
    /\ UNCHANGED <<adapter, rows, run, crashes>>

-----------------------------------------------------------------------------
(* The MySQL activation: preflight, then one committed statement at a time.*)

\* The conditional statements in the order of the artifact.
Statements_drop_identity_first ==
    << <<"events_tenant_id", "not_null">>, <<"deliveries_tenant_id", "not_null">>,
       <<"events_tenant_size", "v2">>, <<"events_tenant_nonempty", "v2">>,
       <<"deliveries_tenant_size", "v2">>, <<"deliveries_tenant_nonempty", "v2">>,
       <<"tenant_row", "v2">>, <<"identity_key", "v2">>,
       <<"source_event_id", "none">>, <<"tenant_source_event_id", "v2">>,
       <<"event_fk", "none">>, <<"event_fk", "v2">>,
       <<"claimable", "none">>, <<"claimable", "v2">>,
       <<"expired_claims", "none">>, <<"expired_claims", "v2">>,
       <<"schema_marker", "empty">>, <<"schema_marker", "v2">> >>

Statements_marker_early ==
    << <<"events_tenant_id", "not_null">>, <<"deliveries_tenant_id", "not_null">>,
       <<"events_tenant_size", "v2">>, <<"events_tenant_nonempty", "v2">>,
       <<"deliveries_tenant_size", "v2">>, <<"deliveries_tenant_nonempty", "v2">>,
       <<"tenant_row", "v2">>, <<"identity_key", "v2">>,
       <<"tenant_source_event_id", "v2">>, <<"source_event_id", "none">>,
       <<"event_fk", "none">>, <<"event_fk", "v2">>,
       <<"claimable", "none">>, <<"claimable", "v2">>,
       <<"schema_marker", "empty">>, <<"schema_marker", "v2">>,
       <<"expired_claims", "none">>, <<"expired_claims", "v2">> >>

Statements ==
    << <<"events_tenant_id", "not_null">>, <<"deliveries_tenant_id", "not_null">>,
       <<"events_tenant_size", "v2">>, <<"events_tenant_nonempty", "v2">>,
       <<"deliveries_tenant_size", "v2">>, <<"deliveries_tenant_nonempty", "v2">>,
       <<"tenant_row", "v2">>, <<"identity_key", "v2">>,
       <<"tenant_source_event_id", "v2">>, <<"source_event_id", "none">>,
       <<"event_fk", "none">>, <<"event_fk", "v2">>,
       <<"claimable", "none">>, <<"claimable", "v2">>,
       <<"expired_claims", "none">>, <<"expired_claims", "v2">>,
       <<"schema_marker", "empty">>, <<"schema_marker", "v2">> >>

\* @dovecote_indexes_valid and its companions: the catalogs an activation may
\* start from, which are meant to be the ones an interrupted run leaves.
PreflightCatalog_fk_present(cat) ==
    /\ \A c \in TenantColumns : cat[c] # "none"
    /\ cat["event_fk"] # "none"

IdentityReady(cat) ==
    /\ \A c \in TenantColumns : cat[c] = "not_null"
    /\ \A o \in Checks \cup {"tenant_row", "identity_key", "tenant_source_event_id"} :
          cat[o] = "v2"

PreflightCatalog(cat) ==
    LET fk_target == cat["event_fk"] = "v2"
        moved == IdentityReady(cat) /\ cat["source_event_id"] = "none"
    IN  /\ \A c \in TenantColumns : cat[c] # "none"
        /\ cat["source_event_id"] = "v1" \/ cat["tenant_source_event_id"] = "v2"
        /\ cat["identity_key"] = "v2" =>
              /\ \A c \in TenantColumns : cat[c] = "not_null"
              /\ \A o \in Checks \cup {"tenant_row"} : cat[o] = "v2"
        /\ cat["tenant_source_event_id"] = "v2" => cat["identity_key"] = "v2"
        /\ \/ cat["event_fk"] = "v1" /\ cat["event_fk_index"] = "none"
           \/ fk_target /\ cat["event_fk_index"] = "v2" /\ moved
           \/ cat["event_fk"] = "none" /\ cat["event_fk_index"] = "none"
                /\ IdentityReady(cat)
        /\ cat["claimable"] # "v1" => fk_target
        /\ cat["expired_claims"] # "v1" => fk_target /\ cat["claimable"] = "v2"
        /\ cat["schema_marker"] # "none" =>
              /\ moved /\ fk_target
              /\ cat["claimable"] = "v2" /\ cat["expired_claims"] = "v2"

Preflight(cat, rs) == PreflightCatalog(cat) /\ Backfilled(rs)

\* The preflight of run s: its variables keep the catalog it saw.
Begin(s) ==
    /\ adapter = "mysql" /\ run[s].pc = 0
    /\ ~ check_schema(adapter, catalog)
    /\ Preflight(catalog, rows)
    /\ run' = [run EXCEPT
                     ![s] = [pc |-> 1, seen |-> catalog, undisturbed |-> TRUE]]
    /\ UNCHANGED <<adapter, catalog, rows, crashes>>

\* An activation artifact whose guard fails changes nothing.
Rejected ==
    /\ Prepared /\ ~ check_schema(adapter, catalog)
    /\ IF adapter = "mysql" THEN ~ Preflight(catalog, rows) ELSE ~ Backfilled(rows)
    /\ UNCHANGED upgradevars

\* The objects whose statement asks the catalog again; the others go by the
\* preflight's variables.
AskedAgain == TenantColumns \cup {"source_event_id", "schema_marker"}

\* The statement finds its work done and executes SELECT 1.
Skips_rebuilding(s, o, d) ==
    IF d = "none" THEN catalog[o] = "none"
    ELSE IF o = "schema_marker" THEN catalog[o] \in {d, "v2"}
    ELSE o \notin Rebuilt /\ catalog[o] = d

Skips(s, o, d) ==
    CASE o \in Rebuilt /\ d = "none" ->
            run[s].seen[o] = "v2" \/ catalog[o] = "none"
      [] o = "schema_marker" -> catalog[o] \in {d, "v2"}
      [] o \in AskedAgain \ {"schema_marker"} -> catalog[o] = d
      [] OTHER -> run[s].seen[o] = d

\* The server refuses it: the name is taken, or a row breaks the constraint.
Refuses(o, d) ==
    \/ d = "v2" /\ o # "schema_marker" /\ catalog[o] # "none"
    \/ ~ Admits(o, d, rows)

Altered(o, d) ==
    [catalog EXCEPT ![o] = d,
                    !["event_fk_index"] = IF o = "event_fk" /\ d = "v2" THEN "v2" ELSE @]

\* Where the run goes after a statement.
After(s) ==
    IF run[s].pc = Len(Statements) THEN NoRun
    ELSE [run[s] EXCEPT !.pc = @ + 1]

\* One conditional statement.  It commits; an error ends the run.
Step(s) ==
    /\ run[s].pc \in 1..Len(Statements)
    /\ LET o == Statements[run[s].pc][1]
           d == Statements[run[s].pc][2]
       IN  \/ /\ Skips(s, o, d)
              /\ run' = [run EXCEPT ![s] = After(s)]
              /\ UNCHANGED catalog
           \/ /\ ~ Skips(s, o, d) /\ Refuses(o, d)
              /\ run' = [run EXCEPT ![s] = NoRun]
              /\ UNCHANGED catalog
           \/ /\ ~ Skips(s, o, d) /\ ~ Refuses(o, d)
              /\ run' = [run EXCEPT ![s] = After(s)]
              /\ catalog' = Altered(o, d)
    /\ UNCHANGED <<adapter, rows, crashes>>

\* The connection of a run is lost between two statements.
Crash(s) ==
    /\ run[s].pc # 0 /\ crashes < MaxCrashes
    /\ run' = [run EXCEPT ![s] = NoRun]
    /\ crashes' = crashes + 1
    /\ UNCHANGED <<adapter, catalog, rows>>

-----------------------------------------------------------------------------
UpgradeInit ==
    /\ adapter \in Adapters
    /\ catalog = Version1(adapter)
    /\ rows = <<>>
    /\ run = [s \in Runs |-> NoRun]
    /\ crashes = 0

Done == check_schema(adapter, catalog) /\ UNCHANGED upgradevars

UpgradeNext ==
    \/ \E id \in Identities : V1Enqueue(id)
    \/ \E id \in Identities, t \in TenantIds : V2Enqueue(id, t)
    \/ \E c \in TenantColumns : Prepare(c)
    \/ Backfill \/ BackfillWrong
    \/ PgActivate \/ SqliteActivate \/ Rejected
    \/ \E s \in Runs : Begin(s) \/ Step(s) \/ Crash(s)
    \/ Done

\* The operator goes on until the schema is activated, and a run that is not cut
\* off executes its next statement.
UpgradeFairness ==
    /\ WF_upgradevars(\E c \in TenantColumns : Prepare(c))
    /\ WF_upgradevars(Backfill)
    /\ WF_upgradevars(PgActivate \/ SqliteActivate)
    /\ \A s \in Runs : WF_upgradevars(Begin(s)) /\ WF_upgradevars(Step(s))

UpgradeSpec == UpgradeInit /\ [][UpgradeNext]_upgradevars /\ UpgradeFairness

-----------------------------------------------------------------------------
(* Two events of one tenant never share an identity, whatever statement an *)
(* interrupted activation stopped at: the tenant index is built before the *)
(* version 1 index goes.                                                   *)
IdentityHeld ==
    \A i, j \in DOMAIN rows :
        /\ rows[i].id = rows[j].id /\ rows[i].event = rows[j].event
        /\ rows[i].event \in TenantIds
        => i = j

(* check_schema accepts exactly the version 2 schema: it refuses every     *)
(* catalog an unfinished upgrade leaves, and every catalog that differs    *)
(* from those in one object.                                               *)
CheckExact ==
    \A o \in Objects : \A d \in {catalog[o], "none", "v1", "v2"} :
        LET cat == [catalog EXCEPT ![o] = d]
        IN  (o \notin MysqlOnly \/ adapter = "mysql") =>
                (check_schema(adapter, cat) <=> cat = Baseline(adapter))

(* The version 2 marker, which is all PostgreSQL's enqueue looks at, is    *)
(* only ever there when the complete schema is.                            *)
MarkerMeansComplete ==
    catalog["schema_marker"] = "v2" => check_schema(adapter, catalog)

(* Every catalog an interrupted MySQL activation leaves is one a new run   *)
(* of the artifact starts from, once the rows are backfilled.              *)
Restartable ==
    adapter = "mysql" /\ Prepared /\ Backfilled(rows) => Preflight(catalog, rows)

(* A run whose preflight passed meets no statement the server refuses,     *)
(* unless a producer or the operator changed rows under it: a rejected     *)
(* backfill is rejected before the first ALTER.                            *)
PreflightSuffices ==
    \A s \in Runs :
        run[s].pc # 0 /\ run[s].undisturbed =>
            LET o == Statements[run[s].pc][1]
                d == Statements[run[s].pc][2]
            IN  Skips(s, o, d) \/ ~ Refuses(o, d)

(* What the checks say: check_schema accepts the complete schema only, and *)
(* the marker is there only when check_schema accepts.                     *)
SchemaExact == CheckExact /\ MarkerMeansComplete

(* What an activation meets: every catalog it may be started from again    *)
(* passes its preflight, and after the preflight no statement is refused.  *)
Resumable == Restartable /\ PreflightSuffices

(* No statement takes a finished object away: each one observes its        *)
(* completed target or performs exactly the missing step.                  *)
NeverUndone ==
    [][\A o \in Objects : catalog[o] = Baseline(adapter)[o]
                            => catalog'[o] = Baseline(adapter)[o]]_upgradevars

(* The upgrade completes however often the activation is cut off and       *)
(* however the producers interfere, and stays complete.                    *)
Activated == <>[]check_schema(adapter, catalog)
=============================================================================
