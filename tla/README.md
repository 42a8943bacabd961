# A TLA+ verification of dovecote

dovecote is a storage-only transactional outbox. A producer enqueues an event in
its own database transaction; workers claim pending deliveries under a lease,
publish them elsewhere and acknowledge, retry, release or quarantine them. The
library has a core crate of values and three SQLx adapters (PostgreSQL,
MySQL/MariaDB, SQLite). It runs no task of its own: all of its concurrency is
that of transactions of several processes on one database, and all of its time
is the database's clock.

Paths below are relative to `src/crates/`; `pg`, `mysql` and `sqlite` stand for
`dovecote-sqlx-postgres/src`, `dovecote-sqlx-mysql/src` and
`dovecote-sqlx-sqlite/src`.

## 1. The system

| Component | State | Operations | Code |
|---|---|---|---|
| Delivery row | one row of `dovecote_deliveries` | inserted by enqueue and import, changed by everything below | migrations, `delivery_state.rs`, `page.rs` |
| Claim | none between calls | select and lock eligible rows, draw tokens, update, commit | `pg/lifecycle.rs`, `sqlite/lifecycle.rs`, `mysql/lifecycle/claim*` |
| Mutations | none | renew, ack, retry, release, quarantine: one fenced UPDATE, classification when it misses | `lifecycle_mutation.rs`, `mysql/lifecycle/mutation.rs` |
| Enqueue | event row + delivery row | insert in the caller's transaction; an existing identity is compared | `enqueue.rs` |
| Import, finalize | the same rows, migrated from a legacy publisher | insert as pending or delivered, replay; finish an untouched pending row | `import.rs`, `finalize.rs` |
| Busy handling | SQLite's writer reservation and busy timeout | BEGIN IMMEDIATE, COMMIT, bounded whole-operation retry | `sqlite/lib.rs`, `sqlite/lifecycle.rs` |
| Paging | cursor, upper bound, open snapshot | live page, snapshot pager | `page.rs` |
| Schema gate, tenant upgrade | schema objects, marker | check before an operation; prepare, backfill, activate | `schema*`, migration artifacts |
| Scoped facades | the tenant of a handle, or none for admin | forward to the operations, bind the tenant | `scope.rs`, `pg/rls.rs` |
| Backend detection | settings of a session | version and capability of MySQL or MariaDB | `mysql/backend.rs` |
| Core values | immutable | construction, validation, serialization, projection | `dovecote/src` |

How they interact: everything meets in the event row and its delivery row.
Producers insert both, workers race for the delivery through claim, the holder of
the current token changes it until the lease runs out, a migration finishes it
without a token, and pagers read it. PostgreSQL interleaves these per statement
(READ COMMITTED snapshots, row locks, SKIP LOCKED); SQLite serialises writers by
one reservation but lets BEGIN and COMMIT fail; MySQL reads candidate ids in a
repeatable read view first and locks them afterwards.

What is hard, and hardly reached by a test:

- a claim reads the clock *before* it locks, a mutation *while* it holds the lock
  (PostgreSQL, SQLite) or *before it waits* for it (MySQL);
- a statement's snapshot is older than the row it ends up locking, and in MySQL
  a transaction's read view is older than the duplicate its INSERT met;
- a lease runs out while its holder waits, or between a missed UPDATE, its
  classification and the repeated UPDATE;
- stale tokens arrive at any later time, and replies and workers are lost;
- two callers insert the same identity, or two identities in opposite orders;
- COMMIT fails after every statement has succeeded;
- a caller keeps a write transaction, or a pager its snapshot, for ever;
- timestamps are compared as text in SQLite;
- ids are assigned before commit, so live cursors can pass rows;
- MySQL's activation commits statement by statement and can be cut off anywhere;
- a tenant binding or a session setting outlives the use it was made for.

What correctness means: one holder per lease; no change by a token without
authority; no refusal of a token with authority; attempts count claims exactly;
terminal rows are final; delays are honoured; an identity is recorded once and
keeps its content; what a call answered holds until its transaction ends; tenants
are separated; batches are all or nothing; pages of a snapshot are that snapshot;
whatever was written can be read back; calls end; and the three adapters keep
these promises, each as the contract it implements states them.

## 2. The modules

### Contracts

`Delivery` holds what all adapters share: the row, the predicates of the
statements (`Eligible`, `Fenced`, `CanonicalPending`), what each operation writes
(`ClaimedRow`, `MutatedRow`, `FinalizedRow`, ...) and the per-row invariant
`RowInv`. It keeps the columns the lifecycle decides on; `StoredRows` has them all.

Three abstract specifications say what callers may rely on, one atomic step per
committed operation and nothing about locks.

- `DeliveryLifecycle`: claims, mutations, inserts and finalisations at an
  *operation time* no later than the clock and never before the row's previous
  one. `issued` (tokens ever stored on a row) and `lastOp` are history variables.
  Callers may present any token ever issued, at any time.
- `DeliveryFencing`: the same without the last promise. A mutation counts at any
  instant at which its claim was fenced, whenever that instant was read. It still
  gives exclusive leases, honoured delays, final terminal states and exact counts.
- `EventLedger`: an identity is recorded once, with its delivery row, and keeps
  its content (`EventRows` has the rows).

| Adapter | delivery | producers |
|---|---|---|
| PostgreSQL | `PgLifecycle` implements `DeliveryLifecycle` | `PgProducer` implements `EventLedger` |
| SQLite | `SqliteLifecycle` implements `DeliveryLifecycle` | `SqliteProducer` implements `EventLedger` |
| MySQL, MariaDB | `MysqlLifecycle` implements `DeliveryFencing` | `MysqlProducer` implements `EventLedger` |

The adapter modules instantiate the contract over their own tables
(`LifecycleRefined`, `FencingRefined`, `LedgerRefined`). A transaction's writes
become visible at its commit, which is the abstract step; all else is a stutter.
The databases are external: each module's header lists what is assumed of one.

### Delivery lifecycle of the adapters

`PgLifecycle` is PostgreSQL **statement by statement**.

| Code | Actions |
|---|---|
| `claim_with_entropy` (`pg/lifecycle.rs`) | `BeginClaim` (clock), `SelectCandidates` (snapshot), `LockCandidate` (one SKIP LOCKED visit), `CommitClaim` or `OverflowClaim` |
| `mutate` (`pg/lifecycle_mutation.rs`) | `BeginMutation` (snapshot), `ExecuteMutation` (lock wait, clock, re-evaluation), `ClassifyMutation`, `ReexecuteMutation`, `ReclassifyMutation`, `CommitMutation` |
| `finalize_for_scope` (`pg/finalize.rs`) | `BeginFinalize`, `LockEvent` and `LockDelivery` (each a lock wait), then the caller's commit: `CommitFinalize` or `EndRefused` |
| enqueue, import | `Enqueue`, `Import`: the committed insertion |
| any error, cancelled future, lost connection | `Abort`, possible in every step of a transaction |

`MysqlLifecycle` is MySQL statement by statement: `BeginClaim`, `ReadWindow` (ids
through the read view), `LockCandidate` (one row at a time, FOR UPDATE SKIP
LOCKED), `PrepareClaim` (the clock, full counters) and `CommitClaim`;
`BeginMutation`, `ExecuteMutation` (the clock of the statement's start, then the
wait), `ClassifyMutation`, `CommitMutation`; `BeginFinalize`, `LockEvent`,
`LockDelivery` and the caller's end.

`SqliteLifecycle` is SQLite. `StartClaim`, `StartMutation` and `StartWrite`
(begin_write) lead to `BeginImmediate` or `BeginBusy`; claims and mutations go on
with `ReadClock`, `ExecuteClaim`/`ExecuteMutation` and a commit; callers with
`CallerWork`, `CallerCommit` and a commit. `CommitBusy` is a COMMIT that waited
out its timeout for a reader; `BusyAgain` the retry loop around `claim_once` and
`mutate_once`. `Tick` runs the clock and all busy handlers, and
`OpenSnapshot`/`CloseSnapshot` are pagers under a rollback journal (`Readers = {}`
is WAL mode). Statements under the reservation are one step.

`SqliteTimestamp` models the two text formats written to `available_at`
(`strftime(... %f000Z)` by SQL, RFC 3339 without trailing zeros by import) and
their byte-wise comparison, for one row: `EnqueueText`, `ImportRow` and
`ClaimAndReleaseText` write its column. `ImportSkew` in `Delivery` is its result.

### Producers

`EventTable` has the two tables, the callers' transactions and what a call may
answer; `PgProducer`, `MysqlProducer` and `SqliteProducer` add the steps of
`enqueue_for_scope` and `import_for_scope`: ON CONFLICT DO NOTHING that waits for
an open inserter, with the tenant bound for row-level security (PostgreSQL);
read views, shared and exclusive record locks and the bounded retry of error 1020
(MySQL); the refusal of a transaction that is not the writer (SQLite). Callers
make several calls in one transaction, and any transaction may roll back at any
time. Workers change deliveries meanwhile (`Work`).

`IdentityKey` is MySQL's generated `identity_key`: three texts behind fixed-width
lengths, as sequences of bytes.

### The rest

- `Paging` (rows, commit order, a live reader, a snapshot pager) with `PgPaging`,
  `MysqlPaging` and `SqlitePaging` for how a snapshot is taken and what a failed
  read leaves behind. `Pagers` is the three together: a behaviour is one of an
  adapter's, and the properties are stated of all.
- `StoredRows`: every column of a delivery, what the CHECKs admit, what each
  operation writes and what hydration refuses, in all three adapters; the bounds
  of leases, delays, counters and texts.
- `EventCodec`: the event builder, extensions and trace context, content limits,
  the columns of the three adapters, hydration, comparison of duplicates, and the
  structured and binary projections.
- `TenantScopes`: the tenant and admin handles, which tenant each operation is
  restricted to and binds, caller-owned transactions shared by several handles,
  and PostgreSQL's row-level-security profile.
- `TenantUpgrade`: prepare, backfill and activate, with producers of both versions
  writing meanwhile. PostgreSQL's and SQLite's activation is a transaction;
  MySQL's is its 18 statements, with crashes between them and reruns. `catalog` has
  the definition of each schema object, and the schema gates are predicates on it.
- `MysqlSessions`: session settings, servers and isolation levels behind a pool,
  and the probe every operation makes.

`Producers` puts the producers of MySQL and SQLite side by side, and `Boundary` the
parts that share no state (`IdentityKey`, `StoredRows`, `MysqlSessions`,
`TenantScopes`, `EventCodec`), with the properties of each. `MC*` modules give
constants their values for TLC (`MCBoundary` adds `SqliteTimestamp` as a sixth part),
and `*Proofs` hold the proofs.

## 3. The runs

| Run | Instance | Shows |
|---|---|---|
| `lifecycle` | 2 rows of 2 tenants, 2 tokens, all mutations, clock to 2 | the promises of `DeliveryLifecycle` (`PromisesKept`), its inductive invariant, and that it includes `DeliveryFencing` |
| `pg_lifecycle` | 2 sessions, 2 rows of 2 tenants, 2 tokens | refinement of `DeliveryLifecycle` statement by statement; scope; a refused token had no authority; calls end |
| `mysql_lifecycle` | the same, and windows of 1 and 2 | refinement of `DeliveryFencing`; scope; a claim that returns less than its limit has visited every row that was due; calls end |
| `sqlite_lifecycle` | 2 connections, 2 rows, 1 pager, 1 retry | refinement of `DeliveryLifecycle` through busy BEGIN and COMMIT; scope; oldest first; the wait bound; calls end although callers and pagers do not |
| `pg_producer` | 2 callers, 2 identities of 2 tenants, 2 contents, 2 calls per transaction | refinement of `EventLedger`; `IInv` (outcomes settled, answers stand); calls end, deadlocks included |
| `producers` | the same for MySQL and SQLite | refinement of `EventLedger`; what a call answered stands; a confirmed replay stays true; lost races resolve (MySQL: except as found below); calls end |
| `paging` | 4 rows of 2 tenants, 1 unreadable, 3 adapters | a snapshot's pages are the snapshot; live pages miss only what commits late (SQLite: nothing) |
| `boundary` | the six parts below, one at a time | what lies between the operations and the databases |
| `tenant_upgrade` | 3 adapters, 2 rows, 2 crashes, 1 activation run at a time | identities unique throughout, gates exact, reruns start and finish, nothing is undone |

The parts of `boundary`, in `MCBoundary`: a behaviour moves one part and keeps the
others in an initial state.

| Part | Instance | Property |
|---|---|---|
| `IdentityKey` | texts of 1 or 2 bytes out of `'0'`, `'1'` | `DuplicateExactly`: the key collides for equal identities only |
| `StoredRows` | every column value that matters, 3 adapters | `RowsUsable`, `RowsKept`: readable exactly if well formed; nothing written becomes unreadable (but for PostgreSQL at the end of 9999); durations exact |
| `MysqlSessions` | 2 connections, servers around the supported versions, SET SESSION and SET TRANSACTION | `SessionsSafe`: no operation works under unsafe settings, or in a transaction of its own at a level other than the probed one unless SET TRANSACTION named it |
| `TenantScopes` | 2 tenants, 2 rows, an application and a worker connection, with and without RLS | `TenantsApart`: isolation, nothing withheld, no binding left behind |
| `EventCodec` | 3 adapters, times at and beyond the edges, 2 limits | `EncodingFaithful`: built is insertable; round trip; duplicates recognised exactly; projections agree |
| `SqliteTimestamp` | base-3 digits, 3 seconds | `TimestampsFaithful`: text order against time order; import skew at most a second |

Workloads. The product of everything callers may do is too large for one run, so
the `MC` modules of the adapters give each behaviour one of a few workloads and check
the same properties under all. Lifecycle: on one row any call at any time, where
leases run out and clocks are old; on two rows of two tenants overlapping batches, at
one time (PostgreSQL, MySQL) or with no pager open (SQLite); and in PostgreSQL a short
lease renewed with a long one, where a repeated UPDATE finds the lease over. Producers: all calls for
one identity, where contents conflict; and calls for two identities with one content,
where orders cross and read views are old. What a workload leaves out is written in
the `MC` module's header; the proofs leave nothing out, since they are about the
specifications themselves.

Not every run has every mutation: under a held row lock, or the reservation, the five
differ only in `MutatedRow`, which `lifecycle` checks for all of them. The runs of
the adapters have one that keeps the claim, one that ends it and one that gives the
row back (PostgreSQL), the first two (MySQL), or the second (SQLite).

Bounds. Most hazards on one row need two sessions and one row: one to hold, one to
wait with an old snapshot or clock. Two tokens give a current and a stale claim;
`MaxTime = 2` with a lease of 2, or of 1 and 2, lets a lease expire and a renewal
outlive a snapshot; SQLite needs one tick, since a lease of 1 runs out in a busy
timeout of 1. Batches need two rows, and two tenants for scope. `MaxAttempts` stands
for `i64::MAX` and is small so that overflow is reached. `Timeout = 1` and
`Retries = 1` already give every combination of busy and free BEGIN and COMMIT.
Producers need two identities for opposite orders and for a read view fixed by
another call, and two contents for a conflict. Four rows with pages of one or two
give a cursor before, at and after a late commit. Two crashes cut a run and its rerun.
Base 3 has a zero, a middle and a last digit, which is all that text comparison
distinguishes. Only `lifecycle` uses symmetry (of tokens). Deadlock is checked except
in `lifecycle`, `boundary` and the timestamp run, which stop at a bound.

Fairness. PostgreSQL and MySQL lifecycle: weak fairness of a started call (the async
runtime polls it); strong fairness of the steps that wait for a row lock, since both
databases queue lock waiters; and a finalising caller ends its transaction, without
which nobody could promise the others anything. Producers: the same, every caller
ends its transaction, and the database ends a deadlock by rolling back a victim.
SQLite: time passes and the adapter's own steps are polled; *nothing* is assumed of
callers and pagers, because the busy timeout is there for exactly that. Upgrade: the
operator goes on preparing, backfilling and activating.

### Disagreements between documentation and code

Each of these is a run in which TLC finds the documented statement violated.

- `sqlite_busy_budget`: `BusyConfig::new` documents a total lock wait of at most
  `(retries + 1) * timeout` per operation. Each attempt can wait once in BEGIN
  IMMEDIATE and again in COMMIT when a reader holds a rollback-journal database, so
  the bound is twice that (`WaitBound`, proved).
- `sqlite_import_on_time`: `import_for_scope` stores its time in a different text
  format from the one claim compares with, so a row imported as pending becomes
  eligible up to one second late. SPEC.md:584 has it eligible at once. The row is
  never early and never lost (`ImportSkewBounded`, in `TimestampsFaithful`).
- `mysql_enqueue_outcome`: SPEC.md:419 has a lost race for an identity resolve to one
  of three outcomes. In a REPEATABLE READ transaction whose read view is older than
  the winner's commit, the lookup after the duplicate-key error finds nothing and
  enqueue ends in a protocol error. A first call, and import, are not affected
  (`ResolvedInNewView`, in `Answered`, proved).

Smaller ones show in the modules without a run of their own.

- `mysql/lifecycle/mutation.rs:25` says that a waiter does not use a clock value from
  before its lock wait. `UTC_TIMESTAMP(6)` is the start of the statement, so it does
  (`ExecuteMutation` of `MysqlLifecycle`): a renewal that waits for another one of the
  same claim may bring the expiry forward. The fence still holds (`FencingRefined`,
  proved): nobody else has the claim. This is why MySQL implements `DeliveryFencing`
  and not `DeliveryLifecycle`.
- The MySQL activation artifact says that each conditional ALTER observes its completed
  target or performs the missing step. Some test variables of the preflight, so a rerun
  *beside* a first run that is still executing can take a rebuilt foreign key or index
  away again. One after the other, nothing is undone (`NeverUndone`, proved for runs that
  do not overlap); identities stay unique either way (`IdentityHeld`, proved for any).
- `Extensions::insert` documents an error for an invalid trace context; it is found when
  the event is built instead, before anything is stored (`EventCodec`).
- `BackendInfo.transaction_isolation` is documented as the active level; what is read is
  the session's setting (`mysql/backend.rs:115`). A level the application named with SET
  TRANSACTION, and left pending on a connection it gave back, governs the next transaction
  there, which may be a claim, a mutation or a snapshot pager (`mysql/page.rs:40`), and the
  probe does not see it. SPEC.md:686 says that a pager uses a consistent InnoDB snapshot at
  repeatable read; in that one case it need not. `SessionsSafe` (proved) is that there is no
  other: a transaction of the adapter's own whose level SET TRANSACTION did not name runs at
  REPEATABLE READ. The models of MySQL's lifecycle, producers and pagers take the level that
  the probe reports, so what they show excludes that case too.
- A lease or delay added to a clock in the last days of 9999 may pass the last instant a
  page can show. MySQL and SQLite refuse the UPDATE; PostgreSQL stores the instant, and pages
  refuse the row until it is written again (`PastTheEnd`, the exception in `RowsKept`). A
  claim is refused by all three, since it validates the expiry first.

## 4. The proofs

All are for every value of the constants that satisfies the named assumptions
(`DeliveryAssumption`, `PgAssumption`, `MysqlAssumption`, `SqliteAssumption`,
`RowsAssumption`, `TenantAssumption`, `ProducerAssumption`, `WidthAssumption`,
`BoundaryAssumption`, `PagingAssumption`, `UpgradeAssumption`,
`TimestampAssumption`): any set of rows, sessions, tenants, tokens, leases, delays,
identities and contents, and any clock bound. They are about the specifications
without workloads and without fairness.

**Rows.** `DeliveryProofs` has one lemma per written row: what `RowInv` gives after
an insert, a claim, a mutation and a finalisation, cited by all lifecycle proofs.

**The contracts.** `TableProofs` proves `IInv` of `DeliveryLifecycle`,
that leases and delays are honoured and terminal rows final (`PromisesKept`), that
attempts count claims and operation times do not run backwards. The last is not
inductive: it needs that a row can only become eligible after its last change. The
strengthening is `RowInv`: a pending row has `lastOp <= available_at`, a claimed one
`lastOp < claim_expires_at`. A claim's clock reading, however old, satisfies
`Eligible`, so it is at least the availability or the expiry, and hence at least
`lastOp`. This is why PostgreSQL may read the clock before it locks. The module also
proves `FencingInv` and `FencedChanges` of `DeliveryFencing` without `lastOp` (token
and expiry alone keep leases exclusive), and that the stronger contract implements
the weaker one (`LifecycleImplementsFencing`). The adapters' proof modules instantiate
`TableProofs` over their own tables to carry these theorems over; its pagers have
dummy values there.

**Paging.** `TableProofs` also proves `SnapshotAlwaysExact` and `LiveAlwaysComplete` of
`Pagers`. Neither property is inductive: after a page one has to know what the pages
before it amount to. `PagersInv` says that: what a pager returned lists, in order and
with their states, the rows of its snapshot up to its cursor, none is beyond its upper
bound, and none is beyond the cursor of an exhausted pager; what a live reader returned
lists the committed rows up to its cursor except those that committed behind it; and
under SQLite's reservation only the last id can be uncommitted, so there are none. A page then extends one increasing list by
another. That ORDER BY has a result for every finite set of ids, and that two increasing
lists of the same ids are equal, would be inductions; each is an argument by a least
counterexample instead.

**PostgreSQL.** `PgLifecycleProofs` proves the inductive invariant `IInv` of
`PgLifecycle` (rows satisfy `RowInv`; `SessionInv` says what a session may rely on
between statements: rows in its batch are locked by it and still eligible, a row
about to be committed is still fenced by its token), and from it
`PgImplementsLifecycle`, `PgScopedWrites`, `PgHonestAnswers` (a refused token had no
authority), `PgNoMutationNoop` ("locked claimed delivery did not satisfy mutation"
is unreachable) and, through the refinement, `PgKeepsPromises`. There is one lemma per
action, resting on `Frame` (a session whose locked rows are untouched keeps its
invariant) and `EndOfTransaction`.

`TenantProofs` proves `IInv` of `PgProducer`: committed events are complete, an
identity has at most one open inserter and then no committed row, and a call between
its statements has found what it relies on, under its own tenant's binding. From it
follow `PgAnswersStand`, `PgOutcomeResolved` and `PgImplementsLedger`.

**The tenant upgrade.** `TenantProofs` is also about `TenantUpgrade`.

- `IdentityAlwaysHeld` rests on `UpgradeInv`: rows satisfy every constraint the catalog
  has, and the old unique index is gone only where the new one is complete. Nothing is
  assumed of the number of activation runs or of how they overlap.
- `CheckSchemaExact`: the checks of each adapter, taken together, pin down the definition
  of every object, so that check_schema accepts the version 2 catalog and no other.
- `SchemaAlwaysExact`, `AlwaysResumable` and `NeverUndoneHolds` rest on `StagedInv`: the
  MySQL catalog is the one after the first *k* statements of the artifact, whatever was
  cut off and started again, and a run is at statement *k* + 1 or repeats one behind it.
  The preflight accepts each of these catalogs, the statements behind are skipped, and
  the marker is the last one. They assume that one connection at a time runs the
  activation (`\A r, s \in Runs : r = s`). This is needed: with two runs at once the
  conditions of one are older than what the other did, and a rebuilt object can be taken
  away (see above); TLC refutes each of the three with `Runs = {1, 2}`.

**MySQL.** `MysqlLifecycleProofs` proves `IInv` of `MysqlLifecycle` (a locked
candidate is eligible at any later clock, because eligibility only grows while the
lock is held; a mutation about to commit is fenced at its statement's start), and
`MysqlImplementsFencing`, `MysqlFencedChanges`, `MysqlNoSpuriousError` and
`MysqlScopedWrites`. `MysqlWholeSearch` (a short batch has visited every row that was
due) has an invariant of its own, `Searched`: every due row beyond the cursor is in the
window being locked or after it.

**MySQL's and SQLite's producers.** `ProducerProofs` is about `Producers`, a behaviour
of which is one of `MysqlProducer` or of `SqliteProducer`. In MySQL an
uncommitted row is locked by its transaction and its identity is not committed, and a
row of a read view, however old, is still stored with the content it shows; so an answer
rests on a row that is locked or on content that never changes
(`MysqlProducerInductive`, `ProducersKeepInv`). `AnswersHold` and `ProducersImplementLedger` follow. In SQLite the
write transaction excludes the other writers.

**The boundary.** `BoundaryProofs` has five parts, over `Boundary`.

- `IdentityKeyInjective`, `DuplicateExact`: equal keys have equal length prefixes, hence
  equal first parts, and the rest likewise.
- `SessionsAlwaysSafe`: an operation at work has probed its session as it still is
  (`Probed`), and a transaction the operation began runs at the level its session has,
  unless SET TRANSACTION named another (`BegunAsSet`).
- `TenantsAlwaysApart`: `TenantsApart` becomes inductive with `TenantFixed`, that the
  version a transaction sees and the version another will commit are of one tenant.
- `RowsAlwaysUsable`, `RowsAlwaysKept`: `Usable` spells out, state by state, the rows
  that pages accept, and is shown to be both what the CHECKs with hydration accept and
  what each operation leaves; the instants PostgreSQL stores after 9999 pass the CHECKs
  (`Shaped`) only.
- `EncodingAlwaysFaithful`: what is stored is the encoding of what was built, and what
  was built within the default limit is valid under the largest one, with which every
  read validates. Round trip and comparison are then facts about the encodings of the
  three adapters.

**SQLite.** `SqliteLifecycleProofs` proves `IInv` of `SqliteLifecycle`: one session
is past BEGIN IMMEDIATE, its operation time is at least every `lastOp`, and what it
has read (the candidates, the fence, the row a caller writes) still holds at its
COMMIT, however many attempts were rolled back before. From it follow
`SqliteTimeFresh`, `SqliteImplementsLifecycle`, `SqliteKeepsPromises`,
`SqliteScopedWrites` and `SqliteOldestFirst`. `SqliteWaitBound` needs `WaitInv`
besides: time waited plus the time the running busy handler may still wait is at most
one timeout per BEGIN and COMMIT so far.

The same module proves `TimestampsAlwaysFaithful` of `SqliteTimestamp`, for digits of any
base, a clock of any length and any delays. By `TimestampInv` the column holds strftime's
or import's text of the instant that was meant. An instant is a second and three digits,
and instants are ordered as these are, place by place (`DivOrder`, three times over);
texts are ordered likewise up to the place where the shorter one has its Z, which is after
every digit (`TextOrder`). So import's text, cut off at its last digit that is not zero,
is before exactly the instants that are later in that place: one millisecond, ten, a
hundred or a second too late (`ImportOrder`).

External assumptions, in the definitions rather than in axioms: a drawn token was
never stored on that row before (128 bits of entropy); the database clock does not
run backwards; and the behaviour of the databases stated in the module headers.

Only model-checked are the liveness properties (`CallsEnd`, `Activated`): liveness under
fairness, and ENABLED, are out of the prover's reach. Every other property of a passing
run is a theorem for all values of the constants; three of them (`SchemaExact`,
`Resumable`, `NeverUndone`) for activation runs that do not overlap, as in the run.

## 5. What is not modelled

- The comparison of SQL text in the schema checks (normalising the definitions a
  catalogue reports): an object is as the artifact made it, missing, or different.
- Parsing of URI references, media types, RFC 3339 instants and JSON text: a value is
  valid or not, and a conversion is modelled by what it preserves.
- Error types and their texts: wrappers without state. Which error an operation ends
  with is modelled where a caller acts on it.
- An ALTER of a cut-off MySQL activation that the server is still executing when the rerun
  does its preflight: a statement has run or has not when its connection is gone.
- The fixture runner under `tests/`: a test program.
- A network failure that leaves the outcome of COMMIT unknown is the same state as a
  commit whose reply nobody reads, or an `Abort`.
- A database that violates what the module headers say of it (a clock set back, a
  write lost after COMMIT).

## 6. Possible extensions

- A worker's claim-publish-acknowledge loop over `DeliveryLifecycle`, for
  at-least-once delivery under fairness. The loop is the application's, not this
  library's.
