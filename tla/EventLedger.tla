------------------------------ MODULE EventLedger ------------------------------
(***************************************************************************)
(* What the producer side of the outbox promises, one atomic step per      *)
(* committed transaction: an identity is recorded once, together with its  *)
(* delivery row, and its content never changes.                            *)
(***************************************************************************)
EXTENDS EventRows

VARIABLE ledger

Init == ledger = [i \in Ids |-> Absent]

\* A committed transaction records the new identities S.
Record(S) ==
  /\ \A i \in S : ledger[i] = Absent
  /\ \E content \in [S -> Contents], state \in [S -> ImportedDeliveryState] :
       ledger' = [i \in Ids |-> IF i \in S
                                  THEN [content |-> content[i], delivery |-> state[i]]
                                  ELSE ledger[i]]

\* A worker's first claim, or the finalisation of an untouched delivery.
Deliver(i) ==
  /\ ledger[i].delivery = "pending"
  /\ \E d \in Stamps \union {"touched"} : ledger' = [ledger EXCEPT ![i].delivery = d]

Next == \/ \E S \in SUBSET Ids : Record(S)
        \/ \E i \in Ids : Deliver(i)

Spec == Init /\ [][Next]_ledger
================================================================================
