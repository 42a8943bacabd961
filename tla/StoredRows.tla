------------------------------ MODULE StoredRows ------------------------------
(***************************************************************************)
(* Every column of a delivery row: what the table's CHECKs admit, what the *)
(* operations write, and what a page makes of the row when it is read      *)
(* back.  The row may have been put there by anyone (a restored backup, a  *)
(* migration script), so the readers are to refuse whatever they cannot    *)
(* represent, and never anything the library itself wrote.                 *)
(***************************************************************************)
EXTENDS Integers

CONSTANTS
  NULL,
  MaxInstant,   \* the last representable instant (the end of 9999)
  MaxAttempts,  \* the last value of the attempts counter
  Durations,    \* leases and delays a caller may ask for
  MAX_LEASE,
  MAX_BACKOFF_OR_DELAY

VARIABLES
  adapter,  \* the adapter that reads and writes the table
  now,      \* the database clock, in half milliseconds like every instant and duration
  row       \* the delivery row

vars == <<adapter, now, row>>

Adapters == {"postgres", "mysql", "sqlite"}

\* -1 is an instant before 1970 (TIMESTAMPTZ, DATETIME) or TEXT that is no timestamp.
BadInstant == -1

\* allow_empty is FALSE for every text of a delivery row; none here is overlong or
\* has a forbidden character.
validate_string(text) == text # ""

WorkerId(text) == validate_string(text)
QuarantineReason(text) == validate_string(text)
Failure(code, detail) == validate_string(code) /\ validate_string(detail)

\* From 1970 to the end of 9999.
validate_instant(t) == t \in 0..MaxInstant

AttemptCount(n) == n >= 0

\* Whole milliseconds within bounds.
validate_duration(d, allow_zero, maximum) ==
  (allow_zero \/ d # 0) /\ d <= maximum /\ d % 2 = 0

Lease(d) == validate_duration(d, FALSE, MAX_LEASE)
Delay(d) == validate_duration(d, TRUE, MAX_BACKOFF_OR_DELAY)

\* What the adapter adds to its clock for a duration: a count of milliseconds in
\* SQLite (-1 if it refuses), of microseconds elsewhere.
checked_milliseconds(d) == IF d % 2 = 0 THEN d \div 2 ELSE -1
Added(a, d) == IF a = "sqlite" THEN 2 * checked_milliseconds(d) ELSE d

\* MySQL keeps text in VARBINARY columns, whose bytes may be no text.
NoText == {"not UTF-8"}
strv(text) == text \notin NoText

\* Texts and tokens the adapter's column types can hold.
Texts(a) == {"", "ok"} \union IF a = "mysql" THEN {"not UTF-8"} ELSE {}
Tokens(a) == {"16 bytes"} \union IF a = "mysql" THEN {} ELSE {"15 bytes"}

Stored(a) ==
  [state : {"pending", "claimed", "delivered", "quarantined"},
   available_at : {0, BadInstant}, attempts : {-1, 0, MaxAttempts},
   claim_token : {NULL} \union Tokens(a), claimed_by : {NULL} \union Texts(a),
   claim_expires_at : {NULL, 0, BadInstant},
   last_failure : {<<NULL, NULL>>, <<"ok", NULL>>, <<"", "ok">>, <<"ok", "ok">>},
   delivered_at : {NULL, 0}, quarantined_at : {NULL, 0},
   quarantine_reason : {NULL, "", "ok"}]

ClaimColumns == {"claim_token", "claimed_by", "claim_expires_at"}
QuarantineColumns == {"quarantined_at", "quarantine_reason"}

Absent(r, columns) == \A c \in columns : r[c] = NULL
Present(r, columns) == \A c \in columns : r[c] # NULL

\* dovecote_deliveries_state_shape, _failure_pair, _attempts and _token_size.
Check(r) ==
  /\ r.attempts >= 0
  /\ r.claim_token # "15 bytes"
  /\ (r.last_failure[1] = NULL) = (r.last_failure[2] = NULL)
  /\ \/ r.state = "pending" /\ Absent(r, ClaimColumns \union {"delivered_at"} \union QuarantineColumns)
     \/ /\ r.state = "claimed" /\ Present(r, ClaimColumns)
        /\ Absent(r, {"delivered_at"} \union QuarantineColumns)
     \/ /\ r.state = "delivered" /\ Present(r, {"delivered_at"})
        /\ Absent(r, ClaimColumns \union QuarantineColumns)
     \/ /\ r.state = "quarantined" /\ Present(r, QuarantineColumns)
        /\ Absent(r, ClaimColumns \union {"delivered_at"})

-------------------------------------------------------------------------------
(* Reading a row.                                                          *)

\* The fields each variant of DeliverySnapshot carries.
Fields(state) ==
  {"state", "available_at", "attempts", "last_failure"}
    \union CASE state = "pending" -> {}
             [] state = "claimed" -> {"claimed_by", "claim_expires_at"}
             [] state = "delivered" -> {"delivered_at"}
             [] state = "quarantined" -> QuarantineColumns

\* The row cannot be represented.
Error == [state |-> "error"]

DeliverySnapshot(r) == [f \in Fields(r.state) |-> r[f]]

\* Both NULL, or both present and valid.
parse_failure(failure, undecodable) ==
  \/ failure = <<NULL, NULL>>
  \/ /\ failure[1] # NULL /\ failure[2] # NULL
     /\ failure[1] \notin undecodable /\ failure[2] \notin undecodable
     /\ Failure(failure[1], failure[2])

require_token_width(token) == token = "16 bytes"

\* The row's snapshot, or an error.
Hydrate(r, undecodable) ==
  IF /\ AttemptCount(r.attempts)
     /\ parse_failure(r.last_failure, undecodable)
     /\ validate_instant(r.available_at)
     /\ \/ r.state = "pending" /\ Absent(r, ClaimColumns \union {"delivered_at"} \union QuarantineColumns)
        \/ /\ r.state = "claimed"
           /\ require_token_width(r.claim_token)
           /\ r.claimed_by # NULL /\ r.claimed_by \notin undecodable /\ WorkerId(r.claimed_by)
           /\ r.claim_expires_at # NULL /\ validate_instant(r.claim_expires_at)
           /\ Absent(r, {"delivered_at"} \union QuarantineColumns)
        \/ /\ r.state = "delivered" /\ Absent(r, ClaimColumns \union QuarantineColumns)
           /\ r.delivered_at # NULL /\ validate_instant(r.delivered_at)
        \/ /\ r.state = "quarantined" /\ Absent(r, ClaimColumns \union {"delivered_at"})
           /\ r.quarantined_at # NULL /\ validate_instant(r.quarantined_at)
           /\ r.quarantine_reason # NULL /\ r.quarantine_reason \notin undecodable
           /\ QuarantineReason(r.quarantine_reason)
    THEN DeliverySnapshot(r)
    ELSE Error

\* TEXT timestamps are parsed by parse_timestamp, which refuses a BadInstant too.
pg_hydrate_page(r) == Hydrate(r, {})
mysql_hydrate_page(r) == Hydrate(r, NoText)
sqlite_hydrate_page(r) == Hydrate(r, {})

hydrate_page ==
  CASE adapter = "postgres" -> pg_hydrate_page(row)
    [] adapter = "mysql" -> mysql_hydrate_page(row)
    [] adapter = "sqlite" -> sqlite_hydrate_page(row)

\* What a claim demands of a row its SELECT returned, before it writes.
Due(r) ==
  \/ r.state = "pending" /\ r.available_at <= now
  \/ r.state = "claimed" /\ r.claim_expires_at # NULL /\ r.claim_expires_at <= now

\* Mutation of mysql_validate_delivery: a lease that ends now has not run out.
mysql_validate_later(r) ==
  \/ r.state = "pending" /\ Absent(r, ClaimColumns) /\ r.available_at <= now
  \/ /\ r.state = "claimed" /\ require_token_width(r.claim_token)
     /\ r.claimed_by # NULL /\ strv(r.claimed_by) /\ WorkerId(r.claimed_by)
     /\ r.claim_expires_at # NULL /\ r.claim_expires_at < now

mysql_validate_delivery(r) ==
  \/ r.state = "pending" /\ Absent(r, ClaimColumns) /\ r.available_at <= now
  \/ /\ r.state = "claimed" /\ require_token_width(r.claim_token)
     /\ r.claimed_by # NULL /\ strv(r.claimed_by) /\ WorkerId(r.claimed_by)
     /\ r.claim_expires_at # NULL /\ r.claim_expires_at <= now

ClaimTakes(r) ==
  /\ r.attempts < MaxAttempts /\ AttemptCount(r.attempts + 1)
  /\ adapter = "mysql" => mysql_validate_delivery(r)

-------------------------------------------------------------------------------
(* Writing a row: every column an UPDATE sets, and none it does not.       *)

Unclaimed(r) == [r EXCEPT !.claim_token = NULL, !.claimed_by = NULL, !.claim_expires_at = NULL]

\* The conditional UPDATE of a worker that holds the claim.
Held ==
  /\ row.state = "claimed" /\ row.claim_token = "16 bytes"
  /\ row.claim_expires_at # NULL /\ row.claim_expires_at > now

Write(r) == row' = r /\ UNCHANGED <<adapter, now>>

\* The expiry of a claim must be an instant before any row is committed.
ClaimedEvent(expires_at) == validate_instant(expires_at)

claim(lease) ==
  /\ Lease(lease) /\ Due(row) /\ ClaimTakes(row)
  /\ ClaimedEvent(now + Added(adapter, lease))
  /\ Write([row EXCEPT !.state = "claimed", !.attempts = @ + 1, !.claim_token = "16 bytes",
                       !.claimed_by = "ok", !.claim_expires_at = now + Added(adapter, lease)])

\* PostgreSQL stores an instant after the end of 9999.  In MySQL and SQLite the sum is
\* NULL there, which NOT NULL or the state's CHECK refuses: the UPDATE fails.
Storable(t) == adapter = "postgres" \/ t <= MaxInstant

renew(lease) ==
  /\ Lease(lease) /\ Held
  /\ Storable(now + Added(adapter, lease))
  /\ Write([row EXCEPT !.claim_expires_at = now + Added(adapter, lease)])

\* Mutation of ack: the worker's name is left behind.
ack_keeping_worker ==
  Held /\ Write([row EXCEPT !.state = "delivered", !.claim_token = NULL,
                            !.claim_expires_at = NULL, !.delivered_at = now])

ack == Held /\ Write([Unclaimed(row) EXCEPT !.state = "delivered", !.delivered_at = now])

retry(delay) ==
  /\ Delay(delay) /\ Held
  /\ Storable(now + Added(adapter, delay))
  /\ Write([Unclaimed(row) EXCEPT !.state = "pending", !.available_at = now + Added(adapter, delay),
                                  !.last_failure = <<"ok", "ok">>])

release(delay) ==
  /\ Delay(delay) /\ Held
  /\ Storable(now + Added(adapter, delay))
  /\ Write([Unclaimed(row) EXCEPT !.state = "pending", !.available_at = now + Added(adapter, delay)])

quarantine ==
  Held /\ Write([Unclaimed(row) EXCEPT !.state = "quarantined", !.quarantined_at = now,
                                       !.quarantine_reason = "ok"])

\* The untouched row of a pending import (enqueued_at is instant 0 here) becomes
\* delivered at an instant the caller names.
finalize(delivered_at) ==
  /\ validate_instant(delivered_at)
  /\ row.state = "pending" /\ row.attempts = 0 /\ row.last_failure = <<NULL, NULL>>
  /\ Absent(row, ClaimColumns \union {"delivered_at"} \union QuarantineColumns)
  /\ row.available_at = 0
  /\ Write([row EXCEPT !.state = "delivered", !.delivered_at = delivered_at])

Tick ==
  /\ now < MaxInstant
  /\ now' = now + 1
  /\ UNCHANGED <<adapter, row>>

Init ==
  /\ adapter \in Adapters
  /\ now = 0
  /\ row \in Stored(adapter)

Next ==
  \/ \E d \in Durations : claim(d) \/ renew(d) \/ retry(d) \/ release(d)
  \/ ack \/ quarantine
  \/ \E t \in {BadInstant, 0, MaxInstant} : finalize(t)
  \/ Tick

Spec == Init /\ [][Next]_vars

-------------------------------------------------------------------------------
(* Properties.                                                             *)

Read == hydrate_page # Error

\* A page shows a row exactly when the table's CHECKs admit it and every text and
\* instant in it is one the library could have written; a row of any other shape
\* is refused whether or not its CHECKs were enforced.
ReadableExactly ==
  Read <=> /\ Check(row)
           /\ validate_instant(row.available_at)
           /\ \A c \in {"claim_expires_at", "delivered_at", "quarantined_at"} :
                 row[c] = NULL \/ validate_instant(row[c])
           /\ \A text \in {row.claimed_by, row.quarantine_reason, row.last_failure[1],
                           row.last_failure[2]} : text = NULL \/ text = "ok"

\* An instant of a live row that only PostgreSQL stores.
PastTheEnd ==
  /\ adapter = "postgres"
  /\ \/ row.state = "pending" /\ row.available_at > MaxInstant
     \/ row.state = "claimed" /\ row.claim_expires_at > MaxInstant

\* No operation violates a CHECK, and none turns a row that can be read into one that
\* cannot, but for a lease or delay that PostgreSQL adds past the end of 9999: each
\* UPDATE sets and clears exactly the columns of its new state.
StaysReadable == [][Read => Check(row') /\ (Read' \/ PastTheEnd')]_vars

\* The last failure is evidence: only a retry replaces it, and it survives claims,
\* renewals, releases, delivery and quarantine.
FailureKept ==
  [][row'.last_failure # row.last_failure => row.state = "claimed" /\ row'.state = "pending"
                                             /\ row'.last_failure[1] # NULL]_vars

\* A lease or delay the core accepts is taken by every adapter and added to its
\* clock exactly, whatever unit the adapter counts in.
DurationsExact ==
  \A d \in Durations : Lease(d) \/ Delay(d) => Added(adapter, d) = d

\* A due row that a page can show does not poison the claim that selects it, unless
\* its attempts counter is full.
ReadableIsClaimable ==
  Read /\ Due(row) /\ row.attempts < MaxAttempts => ClaimTakes(row)
===============================================================================
