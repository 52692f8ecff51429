------------------------------- MODULE Reports ------------------------------
(***************************************************************************)
(* The reconciliation queries, as operators on the stored tables: which    *)
(* transactions GET /reconciliation/discrepancies lists and for what       *)
(* reason, and the groups GET /reconciliation/summary counts.              *)
(***************************************************************************)
EXTENDS PaymentLifecycle, FiniteSetsExt

\* Mutant: every unsettled transaction is listed.
DiscrepantWhilePending(r) == r.discrepancy_flag \/ r.settlement_status = "pending"

\* The WHERE clause of get_discrepancies on the reconciliation row r.
Discrepant(r) ==
    \/ r.discrepancy_flag
    \/ r.payment_status = "processed" /\ r.settlement_status = "pending"
    \/ r.payment_status = "failed" /\ r.settlement_status = "settled"

\* Mutant: no sentence for a processed transaction that is not settled.
InferOnlyFailed(r) ==
    IF r.payment_status = "failed" /\ r.settlement_status = "settled"
    THEN "failed_but_settled" ELSE "inconsistent"

\* The reason listed for a row that stores none; "inconsistent" is the
\* sentence of last resort.
infer_reason(r) ==
    CASE r.payment_status = "processed" /\ r.settlement_status = "pending" -> "stuck"
      [] r.payment_status = "failed" /\ r.settlement_status = "settled" -> "failed_but_settled"
      [] OTHER -> "inconsistent"

ListedReason(r) ==
    IF r.discrepancy_reason = None THEN infer_reason(r) ELSE r.discrepancy_reason

\* The transactions the report lists for merchant m, for every merchant when
\* m is None: an inner join of the transactions and the reconciliation rows.
Discrepancies(transactions, reconciliation, m) ==
    {t \in TransactionId :
        /\ transactions[t] # None /\ reconciliation[t] # None
        /\ m # None => transactions[t].merchant_id = m
        /\ Discrepant(reconciliation[t])}

\* The transactions that the summary counts: an inner join with the merchants.
Summarised(merchants, transactions, m) ==
    {t \in TransactionId :
        /\ transactions[t] # None /\ merchants[transactions[t].merchant_id] # None
        /\ m # None => transactions[t].merchant_id = m}

\* The group of a transaction row created on that day.  Merchant and status are in
\* every grouping (the merchant's name follows from its id), in another order.
GroupOf(row, day, group_by) ==
    [row |-> row, date |-> IF group_by = "date" THEN day ELSE None]

\* transaction_count of each group; created_on gives the day of created_at.
Summary(merchants, transactions, created_on, group_by, m) ==
    LET counted == Summarised(merchants, transactions, m)
        Group(t) == GroupOf(transactions[t], created_on[t], group_by)
    IN  [k \in {Group(t) : t \in counted} |-> Cardinality({t \in counted : Group(t) = k})]

\* The sum of the counts, total_transactions of the answer.
TotalTransactions(summary) ==
    LET Count(k) == summary[k] IN MapThenSumSet(Count, DOMAIN summary)
=============================================================================
