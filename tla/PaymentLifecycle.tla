-------------------------- MODULE PaymentLifecycle --------------------------
(***************************************************************************)
(* The data and the pure rules of the payment service: the rows of its     *)
(* four tables, the rank that orders payment statuses, and what one event  *)
(* does to the transaction row and to the reconciliation row it is about.  *)
(* Nothing here is a step: the modules that ingest, seed or query events   *)
(* all use these rules.                                                    *)
(*                                                                         *)
(* Amounts, currencies, event timestamps and row ids are left out: no rule *)
(* below reads them.  The wall-clock instant stored in settled_at is       *)
(* represented by the event whose ingestion took it, which is what tells   *)
(* two such instants apart.                                                *)
(***************************************************************************)
EXTENDS Naturals, Sequences, FiniteSets

CONSTANTS EventId,         \* values of payment_events.event_id
          TransactionId,   \* values of transactions.transaction_id
          MerchantId,      \* values of merchants.merchant_id
          MerchantName,    \* values of merchants.merchant_name
          None             \* an absent row, SQL NULL, Python None

EventType == {"payment_initiated", "payment_processed", "payment_failed", "settled"}

TransactionStatus == {"initiated", "processed", "failed", "settled"}

SettlementStatus == {"pending", "settled", "not_applicable"}

\* discrepancy_reason, one name for each sentence the code stores.
DiscrepancyReason == {"settled_after_failed", "failed_after_settled",
                      "processed_after_settled", "stuck"}

ASSUME NoneAssumption ==
    /\ None \notin EventId
    /\ None \notin MerchantName
    /\ None \notin DiscrepancyReason
    /\ None \notin [event_id : EventId, event_type : EventType,
                    transaction_id : TransactionId,
                    merchant_id : MerchantId, merchant_name : MerchantName]
    /\ None \notin [merchant_id : MerchantId, current_status : TransactionStatus]
    /\ None \notin [payment_status : TransactionStatus,
                    settlement_status : SettlementStatus,
                    discrepancy_flag : BOOLEAN,
                    discrepancy_reason : DiscrepancyReason \cup {None},
                    settled_at : EventId \cup {None}]

\* A validated request body, and the payment_events row made from it.
PaymentEvent == [event_id : EventId, event_type : EventType,
                 transaction_id : TransactionId,
                 merchant_id : MerchantId, merchant_name : MerchantName]

Transaction == [merchant_id : MerchantId, current_status : TransactionStatus]

ReconciliationRecord == [payment_status : TransactionStatus,
                         settlement_status : SettlementStatus,
                         discrepancy_flag : BOOLEAN,
                         discrepancy_reason : DiscrepancyReason \cup {None},
                         settled_at : EventId \cup {None}]

-----------------------------------------------------------------------------

STATUS_RANK == [initiated |-> 0, processed |-> 1, failed |-> 1, settled |-> 2]

EVENT_TO_STATUS == [payment_initiated |-> "initiated", payment_processed |-> "processed",
                    payment_failed |-> "failed", settled |-> "settled"]

\* Mutant: a status of the same rank replaces the stored one.
AdvanceOnEqualRank(current, incoming) == STATUS_RANK[incoming] >= STATUS_RANK[current]

should_advance(current, incoming) == STATUS_RANK[incoming] > STATUS_RANK[current]

\* Mutant: the latest event gives the status.
UpsertLastStatus(row, p) ==
    [merchant_id |-> IF row = None THEN p.merchant_id ELSE row.merchant_id,
     current_status |-> EVENT_TO_STATUS[p.event_type]]

\* Mutant: a new transaction starts as initiated, whatever its first event.
UpsertFromInitiated(row, p) ==
    LET new_status == EVENT_TO_STATUS[p.event_type]
    IN  IF row = None
        THEN [merchant_id |-> p.merchant_id, current_status |-> "initiated"]
        ELSE [row EXCEPT !.current_status =
                 IF should_advance(@, new_status) THEN new_status ELSE @]

\* The transaction row after event p, given the row that was there before it.
UpsertTransaction(row, p) ==
    LET new_status == EVENT_TO_STATUS[p.event_type]
    IN  IF row = None
        THEN [merchant_id |-> p.merchant_id, current_status |-> new_status]
        ELSE [row EXCEPT !.current_status =
                 IF should_advance(@, new_status) THEN new_status ELSE @]

\* Mutant: the settlement status of a new row is not set.
NoInitialSettlement(p) == None

\* Mutant: a transaction whose first event is settled is recorded as settled.
SettledAtOnce(p) == IF p.event_type = "settled" THEN "settled" ELSE "pending"

InitialSettlement(p) ==
    IF p.event_type = "payment_failed" THEN "not_applicable" ELSE "pending"

\* The reconciliation row of a transaction that had none.
NewReconciliation(p) ==
    [payment_status |-> EVENT_TO_STATUS[p.event_type],
     settlement_status |-> InitialSettlement(p),
     discrepancy_flag |-> FALSE, discrepancy_reason |-> None, settled_at |-> None]

\* Mutant: the settled event is compared with the status it has itself brought about.
ConflictAfterAdvance(previous, current, settlement, p) ==
    CASE p.event_type = "settled" /\ current = "failed" -> "settled_after_failed"
      [] p.event_type = "payment_failed" /\ settlement = "settled" -> "failed_after_settled"
      [] p.event_type = "payment_processed" /\ current = "settled" -> "processed_after_settled"
      [] OTHER -> None

\* Mutant: only a processed transaction may be settled.
ConflictUnlessProcessed(previous, current, settlement, p) ==
    CASE p.event_type = "settled" /\ previous # "processed" -> "settled_after_failed"
      [] p.event_type = "payment_failed" /\ settlement = "settled" -> "failed_after_settled"
      [] OTHER -> None

\* Mutant: a second settlement is a conflict.
ConflictOnSecondSettlement(previous, current, settlement, p) ==
    IF p.event_type \in {"settled", "payment_failed"} /\ settlement = "settled"
    THEN "failed_after_settled" ELSE None

\* Mutant: a processed event that does not make the transaction processed is a conflict.
ConflictUnlessAdvanced(previous, current, settlement, p) ==
    IF p.event_type = "payment_processed" /\ current # "processed"
    THEN "processed_after_settled" ELSE None

\* The conflict event p is in, if any: previous is the transaction's status
\* before p, current its status after it, settlement the recorded settlement.
Conflict(previous, current, settlement, p) ==
    CASE p.event_type = "settled" /\ previous = "failed" -> "settled_after_failed"
      [] p.event_type = "payment_failed" /\ settlement = "settled" -> "failed_after_settled"
      [] p.event_type = "payment_processed" /\ current = "settled" -> "processed_after_settled"
      [] OTHER -> None

\* Mutant: a failure leaves the settlement pending.
PendingAfterFailure(settlement, reason, p) ==
    IF p.event_type = "settled" /\ reason = None THEN "settled" ELSE settlement

\* The settlement status after event p, which is in conflict `reason'.
SettlementAfter(settlement, reason, p) ==
    IF p.event_type = "settled" /\ reason = None THEN "settled"
    ELSE IF p.event_type = "payment_failed" /\ reason = None THEN "not_applicable"
    ELSE settlement

\* The reconciliation row `row' after event p.
UpdateReconciliation(row, previous, current, p) ==
    LET reason  == Conflict(previous, current, row.settlement_status, p)
        settles == p.event_type = "settled" /\ reason = None
    IN  [payment_status |-> current,
         settlement_status |-> SettlementAfter(row.settlement_status, reason, p),
         discrepancy_flag |-> reason # None,
         discrepancy_reason |-> reason,
         settled_at |-> IF settles THEN p.event_id ELSE row.settled_at]

\* previous_status or recon.payment_status, for the transaction row `row' that
\* event p found and the status `current' it left.
StatusBefore(row, current) == IF row = None THEN current ELSE row.current_status

\* Mutant: payment_status is taken from the transaction before the event.
UpsertReconciliationUnsynced(recon, row, p) ==
    LET current == UpsertTransaction(row, p).current_status
        previous == StatusBefore(row, current)
    IN  IF recon = None
        THEN NewReconciliation(p)
        ELSE [UpdateReconciliation(recon, previous, current, p) EXCEPT
                !.payment_status = previous]

\* The reconciliation row after event p, from the rows that were there before.
UpsertReconciliation(recon, row, p) ==
    LET current == UpsertTransaction(row, p).current_status
    IN  IF recon = None
        THEN NewReconciliation(p)
        ELSE UpdateReconciliation(recon, StatusBefore(row, current), current, p)

=============================================================================
