------------------------- MODULE MCTransactionReads -------------------------
(* TransactionReads on three transactions of one merchant, which become stuck, *)
(* settled or conflicting, and leave and enter the lists.                      *)
EXTENDS TransactionReads, TLC

CONSTANTS e1, e2, e3, e4, e5, t1, t2, t3, m1, n1

Event(e, type, t) ==
    [event_id |-> e, event_type |-> type, transaction_id |-> t,
     merchant_id |-> m1, merchant_name |-> n1]

MCPayload == {Event(e1, "payment_processed", t1), Event(e2, "payment_initiated", t2),
              Event(e3, "payment_processed", t3), Event(e4, "settled", t1),
              Event(e5, "payment_processed", t2)}

\* The first events of t1 and t2 have the same amount.
MCAmount == e1 :> 1 @@ e2 :> 1 @@ e3 :> 2 @@ e4 :> 3 @@ e5 :> 1

\* The two events of t2 are written with one offset, and either may arrive first; the
\* settlement of t1 is written with another.
MCTimestamp ==
    [e \in EventId |-> [instant |-> IF e = e5 THEN 2 ELSE 1, offset |-> IF e = e4 THEN -3 ELSE 0]]

AllRows == [list |-> "transactions", merchant_id |-> None, status |-> None,
            date_from |-> None, date_to |-> None,
            sort_by |-> "created_at", sort_order |-> "desc", page_size |-> 1]

MCQueries ==
    LET kinds == {AllRows, [AllRows EXCEPT !.sort_order = "asc"],
                  [AllRows EXCEPT !.list = "discrepancies"],
                  [AllRows EXCEPT !.status = "processed"],
                  [AllRows EXCEPT !.merchant_id = m1, !.date_from = 2],
                  [AllRows EXCEPT !.date_to = 2, !.sort_order = "asc"],
                  [AllRows EXCEPT !.sort_by = "amount"],
                  [AllRows EXCEPT !.sort_by = "updated_at", !.sort_order = "asc"]}
    IN  kinds \cup {[q EXCEPT !.page_size = 2] : q \in kinds}
=============================================================================
