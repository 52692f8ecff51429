------------------------------- MODULE Ledger -------------------------------
(***************************************************************************)
(* What POST /events promises about the stored state: each accepted event  *)
(* takes effect at once and alone on all four tables, an event_id that is  *)
(* already logged changes nothing.  It is the service as one request at a  *)
(* time sees it; EventIngestion is the service as it runs.                 *)
(***************************************************************************)
EXTENDS PaymentLifecycle, Reports

CONSTANT Payload           \* the requests clients may send
ASSUME PayloadAssumption == Payload \subseteq PaymentEvent

VARIABLES merchants,       \* MerchantId -> merchant_name, None when no row
          transactions,    \* TransactionId -> Transaction, None when no row
          payment_events,  \* the append-only log, in the order of its id
          reconciliation   \* TransactionId -> ReconciliationRecord, or None

vars == <<merchants, transactions, payment_events, reconciliation>>

Logged == {payment_events[i].event_id : i \in DOMAIN payment_events}

TypeOK ==
    /\ merchants \in [MerchantId -> MerchantName \cup {None}]
    /\ transactions \in [TransactionId -> Transaction \cup {None}]
    /\ payment_events \in Seq(PaymentEvent)
    /\ reconciliation \in [TransactionId -> ReconciliationRecord \cup {None}]

Init ==
    /\ merchants = [m \in MerchantId |-> None]
    /\ transactions = [t \in TransactionId |-> None]
    /\ payment_events = <<>>
    /\ reconciliation = [t \in TransactionId |-> None]

Ingest(p) ==
    /\ p.event_id \notin Logged
    /\ merchants' = [merchants EXCEPT ![p.merchant_id] = p.merchant_name]
    /\ transactions' = [transactions EXCEPT ![p.transaction_id] = UpsertTransaction(@, p)]
    /\ payment_events' = Append(payment_events, p)
    /\ reconciliation' =
          [reconciliation EXCEPT ![p.transaction_id] =
              UpsertReconciliation(@, transactions[p.transaction_id], p)]

Next == \E p \in Payload : Ingest(p)

Spec == Init /\ [][Next]_vars

-----------------------------------------------------------------------------
(* The log read as a history.                                              *)

\* The positions of the events of transaction t in the log.
Positions(t) == {i \in DOMAIN payment_events : payment_events[i].transaction_id = t}

Type(i) == payment_events[i].event_type

Rank(i) == STATUS_RANK[EVENT_TO_STATUS[Type(i)]]

\* Among the first n events of the log, i is the one that fixes the status of t:
\* the earliest of those with the highest rank.
Decides(t, n, i) ==
    /\ i \in Positions(t) /\ i <= n
    /\ \A j \in Positions(t) : j <= n => Rank(j) < Rank(i) \/ (Rank(j) = Rank(i) /\ i <= j)

\* The first n events leave transaction t failed.
FailedAt(t, n) == \E i \in 1..n : Decides(t, n, i) /\ Type(i) = "payment_failed"

\* Event i recorded a settlement of t: a settled event, not the first event of t,
\* that did not find t failed.
RecordsSettlement(t, i) ==
    /\ i \in Positions(t) /\ Type(i) = "settled"
    /\ \E j \in Positions(t) : j < i
    /\ ~FailedAt(t, i - 1)

\* Event i of t contradicts the events of t before it, in one of the three ways
\* event_service.py lists.
Contradicts(t, i) ==
    \/ Type(i) = "settled" /\ FailedAt(t, i - 1)
    \/ Type(i) = "payment_failed" /\ \E j \in 1..(i-1) : RecordsSettlement(t, j)
    \/ Type(i) = "payment_processed"
         /\ \E j \in Positions(t) : j < i /\ Type(j) = "settled"

-----------------------------------------------------------------------------
(* Properties.                                                             *)

\* Once a transaction exists its status only moves to a higher rank: never back,
\* and never from processed to failed or from failed to processed.
Forward(old, new) ==
    old # None => new = old \/ should_advance(old.current_status, new.current_status)

StatusForwardOnly ==
    [][\A t \in TransactionId : Forward(transactions[t], transactions'[t])]_vars

\* The snapshot in transactions.current_status is the one the log gives: the
\* status of the earliest logged event of the highest rank.  Arrival order
\* decides between processed and failed, and nothing else does.
StatusIsFirstOfHighestRank ==
    \A t \in TransactionId :
        /\ (transactions[t] # None) <=> (Positions(t) # {})
        /\ Positions(t) # {} =>
              \E i \in Positions(t) :
                  /\ Decides(t, Len(payment_events), i)
                  /\ transactions[t].current_status = EVENT_TO_STATUS[Type(i)]

\* reconciliation_records.payment_status is the transaction's current status:
\* a transaction has a reconciliation row, and the two never differ.
MirrorsStatus ==
    \A t \in TransactionId :
        /\ (transactions[t] = None) = (reconciliation[t] = None)
        /\ transactions[t] # None =>
              reconciliation[t].payment_status = transactions[t].current_status

\* A recorded settlement is backed by the log: settlement_status is settled
\* exactly when settled_at is set, and settled_at is the instant of the last
\* settled event, which found the transaction known and not failed.
SettlementIsEarned ==
    \A t \in TransactionId : reconciliation[t] # None =>
        LET r == reconciliation[t]
        IN  /\ (r.settlement_status = "settled") = (r.settled_at # None)
            /\ r.settled_at # None =>
                  \E i \in Positions(t) :
                      /\ payment_events[i].event_id = r.settled_at
                      /\ RecordsSettlement(t, i)
                      /\ \A j \in Positions(t) : j > i => Type(j) # "settled"

\* A settlement is recorded only for a settled transaction and a failed transaction is
\* closed, so the "failed but settled" arm of the report never has anything to list.  The
\* service's documentation describes a settlement after a failure as such a row; it is
\* stored the other way round, as a settled transaction closed to settlement, with a flag.
SettlementFollowsStatus ==
    \A t \in TransactionId : transactions[t] # None =>
        /\ reconciliation[t].settlement_status = "settled"
              => transactions[t].current_status = "settled"
        /\ transactions[t].current_status = "failed"
              => reconciliation[t].settlement_status = "not_applicable"
        /\ reconciliation[t].discrepancy_reason = "settled_after_failed"
              => /\ transactions[t].current_status = "settled"
                 /\ reconciliation[t].settlement_status = "not_applicable"

\* The flag tells exactly whether the latest event of the transaction contradicts
\* the ones before it: no false alarm, and no conflict missed as it arrives.
FlagMatchesLog ==
    \A t \in TransactionId : reconciliation[t] # None =>
        \E last \in Positions(t) :
            /\ \A j \in Positions(t) : j <= last
            /\ reconciliation[t].discrepancy_flag <=> Contradicts(t, last)

\* A transaction whose events arrived in the order of the lifecycle, without a
\* failure, is listed as a discrepancy only while its settlement is missing.
CleanLifecycleNotListed ==
    \A t \in TransactionId :
        (/\ Positions(t) # {}
         /\ \A i, j \in Positions(t) : i < j => Rank(i) < Rank(j)
         /\ \A i \in Positions(t) : Type(i) # "payment_failed")
            => (t \in Discrepancies(transactions, reconciliation, None)
                  <=> transactions[t].current_status = "processed")

\* A listed discrepancy has a reason of its own, not the fallback sentence.
ListedHaveReasons ==
    \A t \in Discrepancies(transactions, reconciliation, None) :
        ListedReason(reconciliation[t]) # "inconsistent"

\* The reports account for every transaction: however it is grouped and on whichever
\* of two days each was created, the groups of the summary add up to all of them, a group
\* without its date is the sum of that group's days, and each listed discrepancy has a
\* reason of its own, not the fallback sentence.
ReportsAreComplete ==
    /\ \A created_on \in [TransactionId -> 1..2] :
          LET Groups(group_by) == Summary(merchants, transactions, created_on, group_by, None)
              days == Groups("date")
              Count(d) == days[d]
          IN  \A group_by \in {"merchant", "status"} :
                  /\ TotalTransactions(Groups(group_by))
                        = Cardinality({t \in TransactionId : transactions[t] # None})
                  /\ \A k \in DOMAIN Groups(group_by) :
                        Groups(group_by)[k]
                            = MapThenSumSet(Count, {d \in DOMAIN days : d.row = k.row})
    /\ ListedHaveReasons
=============================================================================
