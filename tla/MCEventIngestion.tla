-------------------------- MODULE MCEventIngestion --------------------------
(* EventIngestion on small instances: which events the sessions are sent.   *)
EXTENDS EventIngestion, TLC

CONSTANTS s1, s2, e1, e2, e3, e4, t1, t2, m1, m2, n1, n2

Event(e, type, t, m, n) ==
    [event_id |-> e, event_type |-> type, transaction_id |-> t,
     merchant_id |-> m, merchant_name |-> n]

\* The first two events of a merchant, about two transactions.
NewMerchantInbox ==
    s1 :> {Event(e1, "payment_processed", t1, m1, n1)}
    @@ s2 :> {Event(e2, "payment_processed", t2, m1, n1)}

\* A settlement that crosses a processed event of its transaction.
CrossingInbox ==
    s1 :> {Event(e1, "payment_initiated", t1, m1, n1),
           Event(e2, "payment_processed", t1, m1, n1)}
    @@ s2 :> {Event(e3, "settled", t1, m1, n1)}

\* A failed transaction is settled, and its first event arrives last or is retried.
LateFirstEventInbox ==
    s1 :> {Event(e1, "payment_failed", t1, m1, n1),
           Event(e2, "settled", t1, m1, n1),
           Event(e3, "payment_initiated", t1, m1, n1)}
=============================================================================
