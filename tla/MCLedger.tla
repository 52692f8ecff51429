------------------------------ MODULE MCLedger ------------------------------
(* Ledger on a small instance: two transactions, two merchants, every event *)
(* type.  Event ids are interchangeable.                                    *)
EXTENDS Ledger, TLC

CONSTANTS t1, t2, m1, m2, n1

\* Transaction t1 is sent by either merchant, t2 by the first only.
MCPayload == {p \in PaymentEvent : p.transaction_id = t2 => p.merchant_id = m1}

EventIdSymmetry == Permutations(EventId)
=============================================================================
