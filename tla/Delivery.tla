------------------------------- MODULE Delivery -------------------------------
(***************************************************************************)
(* One row of dovecote_deliveries and the pure transitions every adapter   *)
(* applies to it.  The lifecycle modules of the three adapters differ in   *)
(* when they read the clock, what they lock and which version of the row   *)
(* they look at; what a claim, a renewal, an acknowledgement, a retry, a   *)
(* release, a quarantine or a migration finalisation writes is the same    *)
(* everywhere, and is defined here.                                        *)
(*                                                                         *)
(* Instants are naturals (microseconds of the database clock).  A claim    *)
(* token is an element of Tokens.  claimed_by, the failure detail, the     *)
(* quarantine reason and the terminal timestamps are written and cleared   *)
(* together with the columns kept here, and no property tells them apart.  *)
(***************************************************************************)
EXTENDS Integers, FiniteSets

CONSTANTS
  Rows,         \* row ids (event_row_id); a claim takes them in increasing order
  Tokens,       \* values of the 128-bit claim token
  NoToken,      \* claim_token IS NULL
  Tenants,      \* tenant ids
  Admin,        \* the cross-tenant scope of AdminDovecote (tenant_id = None)
  TenantOf,     \* the tenant_id column of each row
  Scopes,       \* the scopes callers use: tenants, Admin or both
  Kinds,        \* the mutations callers use, all of MutationKind in full
  Leases,       \* lease durations (a Lease is never zero)
  Delays,       \* retry back-offs and release delays (Delay may be zero)
  ImportSkew,   \* how much later than its instant the available_at text of a
                \* row imported into SQLite can compare; zero elsewhere
  MaxAttempts,  \* i64::MAX, the largest attempts counter
  MaxTime       \* bound on the database clock

\* The five post-claim mutations of the Mutation enum.
MutationKind == {"renew", "ack", "retry", "release", "quarantine"}

ASSUME DeliveryAssumption ==
  /\ Rows \subseteq Nat \ {0}
  /\ NoToken \notin Tokens
  /\ Admin \notin Tenants
  /\ TenantOf \in [Rows -> Tenants]
  /\ Scopes \subseteq Tenants \union {Admin}
  /\ Kinds \subseteq MutationKind
  /\ Leases \subseteq Nat \ {0}
  /\ Delays \subseteq Nat
  /\ ImportSkew \in Nat
  /\ MaxAttempts \in Nat
  /\ MaxTime \in Nat

\* A NULL timestamp column.
NullTime == -1

\* "absent": the row has not been inserted by a committed transaction.
DeliveryState == {"absent", "pending", "claimed", "delivered", "quarantined"}

DeliveryRow ==
  [ state            : DeliveryState,
    attempts         : 0..MaxAttempts,
    enqueued_at      : Nat \union {NullTime},
    available_at     : Nat \union {NullTime},
    claim_token      : Tokens \union {NoToken},
    claim_expires_at : Nat \union {NullTime},
    last_failure     : {"null", "recorded"} ]

AbsentRow ==
  [ state |-> "absent", attempts |-> 0, enqueued_at |-> NullTime,
    available_at |-> NullTime, claim_token |-> NoToken,
    claim_expires_at |-> NullTime, last_failure |-> "null" ]

\* CHECK dovecote_deliveries_state_shape: exactly a claimed row has a claim.
StateShape(d) ==
  /\ d.state = "claimed" <=> d.claim_token # NoToken
  /\ d.state = "claimed" <=> d.claim_expires_at # NullTime
  /\ d.state # "absent" => d.enqueued_at # NullTime /\ d.available_at # NullTime

Terminal(d) == d.state \in {"delivered", "quarantined"}

\* The WHERE tenant_id = $1 of a tenant scope; an admin scope binds NULL.
InScope(scope, r) == scope = Admin \/ scope = TenantOf[r]

-------------------------------------------------------------------------------
(* Predicates the statements evaluate at an operation time t.              *)

\* Mutations of Eligible: a lease ends one instant early; a delay is ignored.
EligibleEarly(d, t) ==
  \/ d.state = "pending" /\ d.available_at <= t
  \/ d.state = "claimed" /\ d.claim_expires_at <= t + 1
\* The candidate predicate of claim.
Eligible(d, t) ==
  \/ d.state = "pending" /\ d.available_at <= t
  \/ d.state = "claimed" /\ d.claim_expires_at <= t

\* The fence of every post-claim mutation.
Fenced(d, token, t) ==
  d.state = "claimed" /\ d.claim_token = token /\ d.claim_expires_at > t

\* No claim, no failure and no delay has touched the row.
Canonical(d) ==
  /\ d.attempts = 0
  /\ d.claim_token = NoToken /\ d.claim_expires_at = NullTime
  /\ d.last_failure = "null"
  /\ d.available_at = d.enqueued_at

\* The untouched pending shape that finalize accepts.
CanonicalPending(d) == d.state = "pending" /\ Canonical(d)

-------------------------------------------------------------------------------
(* What each operation writes.                                             *)

EnqueuedRow(t) ==
  [AbsentRow EXCEPT !.state = "pending", !.enqueued_at = t, !.available_at = t]

ImportedDelivered(t) ==
  [AbsentRow EXCEPT !.state = "delivered", !.enqueued_at = t, !.available_at = t]

ClaimedRow(d, token, expiry) ==
  [d EXCEPT !.state = "claimed", !.attempts = @ + 1,
            !.claim_token = token, !.claim_expires_at = expiry]

\* claim_token, claimed_by and claim_expires_at are cleared together.
Unclaimed(d, state) ==
  [d EXCEPT !.state = state, !.claim_token = NoToken,
            !.claim_expires_at = NullTime]

\* The duration argument of a mutation: lease_for, backoff or delay.
MutationArgs(kind) ==
  CASE kind = "renew"               -> Leases
    [] kind \in {"retry", "release"} -> Delays
    [] OTHER                         -> {0}

\* Mutation of MutatedRow: the delay counts from the old availability.
MutatedRowOldBase(kind, d, t, arg) ==
  CASE kind = "renew"      -> [d EXCEPT !.claim_expires_at = t + arg]
    [] kind = "ack"        -> Unclaimed(d, "delivered")
    [] kind = "retry"      -> [Unclaimed(d, "pending") EXCEPT !.available_at = @ + arg,
                                                              !.last_failure = "recorded"]
    [] kind = "release"    -> [Unclaimed(d, "pending") EXCEPT !.available_at = @ + arg]
    [] kind = "quarantine" -> Unclaimed(d, "quarantined")

MutatedRow(kind, d, t, arg) ==
  CASE kind = "renew"      -> [d EXCEPT !.claim_expires_at = t + arg]
    [] kind = "ack"        -> Unclaimed(d, "delivered")
    [] kind = "retry"      -> [Unclaimed(d, "pending") EXCEPT !.available_at = t + arg,
                                                              !.last_failure = "recorded"]
    [] kind = "release"    -> [Unclaimed(d, "pending") EXCEPT !.available_at = t + arg]
    [] kind = "quarantine" -> Unclaimed(d, "quarantined")

FinalizedRow(d) == [d EXCEPT !.state = "delivered"]

-------------------------------------------------------------------------------
(* What every lifecycle module maintains of a single row.                  *)

\* A row d on which the tokens toks were ever stored, whose last change was
\* made at the operation time last, seen at the clock reading clock.
RowInv(d, toks, last, clock) ==
  /\ d \in DeliveryRow
  /\ toks \in SUBSET Tokens
  /\ last \in Nat
  /\ StateShape(d)
  /\ IsFiniteSet(toks)
  /\ d.attempts = Cardinality(toks)
  /\ last <= clock
  /\ d.state = "absent" => d.attempts = 0 /\ last = 0
  /\ d.state = "pending" => last <= d.available_at
  /\ d.state = "claimed" => last < d.claim_expires_at /\ d.claim_token \in toks
===============================================================================
