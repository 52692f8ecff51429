--------------------------- MODULE MCSeedDatabase ---------------------------
(* SeedDatabase on every file of up to FileLength entries about one         *)
(* transaction: any types, any order of time, any copies, in any order; and *)
(* on every file of two events of two transactions and two merchants.       *)
EXTENDS SeedDatabase

CONSTANTS e1, e2, e3, t1, t2, m1, m2, n1, n2, FileLength, MaxTime

Entry(e, type, time) ==
    [event_id |-> e, event_type |-> type, transaction_id |-> t1,
     merchant_id |-> m1, merchant_name |-> n1, timestamp |-> time]

\* Each event_id stands for one event, so its copies are identical.
Events ==
    {{Entry(e, type[e], time[e]) : e \in EventId} :
        type \in [EventId -> EventType], time \in [EventId -> 1..MaxTime]}

OneTransaction == UNION {UNION {[1..n -> events] : n \in 1..FileLength} : events \in Events}

AnyEntry(e) ==
    [event_id : {e}, event_type : EventType, transaction_id : TransactionId,
     merchant_id : MerchantId, merchant_name : MerchantName, timestamp : 1..2]

TwoEvents == {<<first, second>> : first \in AnyEntry(e1), second \in AnyEntry(e2)}

MCFiles == OneTransaction \cup TwoEvents

\* initiated, failed, settled, in this order of time.
FailedThenSettledFiles ==
    {<<Entry(e1, "payment_initiated", 1), Entry(e2, "payment_failed", 2),
       Entry(e3, "settled", 3)>>}
=============================================================================
