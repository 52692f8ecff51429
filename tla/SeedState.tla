------------------------------ MODULE SeedState -----------------------------
(***************************************************************************)
(* What the seeders compute from a file of events before they write        *)
(* anything: scripts/seed_db.py and its second edition setu_app/seed.py,   *)
(* which does not look for processed events after a settlement.  The       *)
(* transaction rule is the one of live ingestion; the reconciliation rule  *)
(* is not: it reads the status after the event, and a raised flag stays.   *)
(***************************************************************************)
EXTENDS PaymentLifecycle, SequencesExt

\* An entry of the file: an event and the timestamp it carries.
FileEvent == [event_id : EventId, event_type : EventType,
              transaction_id : TransactionId,
              merchant_id : MerchantId, merchant_name : MerchantName,
              timestamp : Nat]

\* The payment_events row made from a file entry.
EventRow(ev) == [event_id |-> ev.event_id, event_type |-> ev.event_type,
                 transaction_id |-> ev.transaction_id,
                 merchant_id |-> ev.merchant_id, merchant_name |-> ev.merchant_name]

\* Place i of a file is sorted by `key' before place j: sorted(key=) is stable.
Before(key, i, j) == key[i] < key[j] \/ (key[i] = key[j] /\ i < j)

SortedBy(places, key) ==
    [k \in 1..Cardinality(places) |->
        CHOOSE i \in places : Cardinality({j \in places : Before(key, j, i)}) = k - 1]

\* The entries at these places.
EntriesAt(events, places) == [k \in DOMAIN places |-> events[places[k]]]

\* The file in the order of its timestamps.
Chronological(events) ==
    EntriesAt(events, SortedBy(DOMAIN events, [i \in DOMAIN events |-> events[i].timestamp]))

\* Mutant: the flag is that of the last event, as it is in live ingestion.
SeedLastFlag(row, current, ev, late) ==
    IF row = None THEN NewReconciliation(ev)
    ELSE UpdateReconciliation(row, current, current, ev)

\* Mutant: payment_status stays that of the first event.
SeedFirstStatus(row, current, ev, late) ==
    IF row = None THEN NewReconciliation(ev)
    ELSE UpdateReconciliation(row, current, row.payment_status, ev)

\* The reconciliation row after file entry ev, for a transaction whose status is
\* `current' once ev is applied.  late says whether a processed event after a
\* settlement is flagged.
SeedReconciliation(row, current, ev, late) ==
    IF row = None
    THEN NewReconciliation(ev)
    ELSE LET reason == IF ev.event_type = "payment_processed" /\ ~late
                       THEN None
                       ELSE Conflict(current, current, row.settlement_status, ev)
             next == UpdateReconciliation(row, current, current, ev)
         IN  [next EXCEPT
                !.discrepancy_flag = row.discrepancy_flag \/ reason # None,
                !.discrepancy_reason =
                    IF reason # None THEN reason ELSE row.discrepancy_reason]

\* The rows of the three tables after file entry ev.
SeedEvent(rows, ev, late) ==
    LET t   == ev.transaction_id
        row == UpsertTransaction(rows.transactions[t], ev)
    IN  [merchants |-> [rows.merchants EXCEPT ![ev.merchant_id] = ev.merchant_name],
         transactions |-> [rows.transactions EXCEPT ![t] = row],
         reconciliation |-> [rows.reconciliation EXCEPT ![t] =
                                SeedReconciliation(@, row.current_status, ev, late)]]

NoRows == [merchants |-> [m \in MerchantId |-> None],
           transactions |-> [t \in TransactionId |-> None],
           reconciliation |-> [t \in TransactionId |-> None]]

\* A transaction that is processed, still pending and not flagged yet is flagged.
FlagStuck(row, transaction) ==
    IF /\ row # None
       /\ ~row.discrepancy_flag
       /\ transaction.current_status = "processed"
       /\ row.settlement_status = "pending"
    THEN [row EXCEPT !.discrepancy_flag = TRUE, !.discrepancy_reason = "stuck"]
    ELSE row

\* The rows of the three tables after each number of entries.
StatesAfter(events, late) ==
    LET rows[k \in 0..Len(events)] ==
            IF k = 0 THEN NoRows ELSE SeedEvent(rows[k - 1], events[k], late)
    IN  rows

ComputeStates(events, late) ==
    LET rows == StatesAfter(Chronological(events), late)[Len(events)]
    IN  [rows EXCEPT !.reconciliation =
            [t \in TransactionId |-> FlagStuck(@[t], rows.transactions[t])]]

\* scripts/seed_db.py
compute_final_states(events) == ComputeStates(events, TRUE)

\* setu_app/seed.py
compute_state(events) == ComputeStates(events, FALSE)

\* The places of the entries whose event_id no earlier entry has.
FirstCopies(events) ==
    {i \in DOMAIN events : \A j \in 1..(i-1) : events[j].event_id # events[i].event_id}

InFileOrder(events, places) == EntriesAt(events, SortedBy(places, [i \in places |-> i]))

unique_events(events) == InFileOrder(events, FirstCopies(events))
=============================================================================
