------------------------------ MODULE EventRows -------------------------------
(***************************************************************************)
(* The rows a producer writes: an event, known by its identity, and its    *)
(* delivery.                                                               *)
(***************************************************************************)
CONSTANTS
  Ids,       \* identities: (tenant_id, source, event_id)
  Contents,  \* the caller-controlled immutable fields of an event
  Stamps     \* delivered_at values of legacy publishers

\* "none", "pending" and "touched" are no values of the caller.
ASSUME RowsAssumption ==
  "none" \notin Contents /\ {"none", "pending", "touched"} \intersect Stamps = {}

\* The state a delivery row is inserted in: pending by enqueue, pending or
\* delivered at a stamp by import.
ImportedDeliveryState == {"pending"} \union Stamps

\* "touched" stands for every delivery a worker has claimed at least once,
\* "none" for an event that has no delivery row.
DeliveryState == ImportedDeliveryState \union {"none", "touched"}

Row == [content : Contents \union {"none"}, delivery : DeliveryState]

Absent == [content |-> "none", delivery |-> "none"]
===============================================================================
