---------------------------- MODULE LedgerProofs ----------------------------
(* Proofs about Ledger, for every set of ids, names and requests.           *)
EXTENDS Ledger, PaymentLifecycleProofs

\* The four tables hold rows of their types.
THEOREM TypeCorrect == Spec => []TypeOK
<1>1. Init => TypeOK
  BY DEF Init, TypeOK
<1>2. TypeOK /\ [Next]_vars => TypeOK'
  <2> SUFFICES ASSUME TypeOK, [Next]_vars
               PROVE  TypeOK'
    OBVIOUS
  <2>1. ASSUME NEW p \in Payload, Ingest(p)
        PROVE  TypeOK'
    <3>1. /\ p \in PaymentEvent
          /\ p.transaction_id \in TransactionId
          /\ p.merchant_id \in MerchantId
          /\ p.merchant_name \in MerchantName
      BY PayloadAssumption DEF PaymentEvent
    <3>2. merchants' \in [MerchantId -> MerchantName \cup {None}]
      BY <2>1, <3>1 DEF TypeOK, Ingest
    <3>3. UpsertTransaction(transactions[p.transaction_id], p) \in Transaction
      BY <3>1, UpsertTransactionType DEF TypeOK
    <3>4. transactions' \in [TransactionId -> Transaction \cup {None}]
      BY <2>1, <3>1, <3>3 DEF TypeOK, Ingest
    <3>5. payment_events' \in Seq(PaymentEvent)
      BY <2>1, <3>1 DEF TypeOK, Ingest
    <3>6. UpsertReconciliation(reconciliation[p.transaction_id],
                               transactions[p.transaction_id], p) \in ReconciliationRecord
      BY <3>1, UpsertReconciliationType DEF TypeOK
    <3>7. reconciliation' \in [TransactionId -> ReconciliationRecord \cup {None}]
      BY <2>1, <3>1, <3>6 DEF TypeOK, Ingest
    <3> QED BY <3>2, <3>4, <3>5, <3>7 DEF TypeOK
  <2>2. CASE UNCHANGED vars
    BY <2>2 DEF TypeOK, vars
  <2> QED BY <2>1, <2>2 DEF Next
<1> QED BY <1>1, <1>2, PTL DEF Spec

-----------------------------------------------------------------------------

\* What one event does to the row pair of its transaction, when the pair is of the
\* right types and is there or missing together.
LEMMA IngestPair ==
    ASSUME TypeOK, MirrorsStatus, NEW p \in Payload, Ingest(p), NEW t \in TransactionId
    PROVE  \/ /\ p.transaction_id = t
              /\ transactions'[t] = UpsertTransaction(transactions[t], p)
              /\ reconciliation'[t]
                    = UpsertReconciliation(reconciliation[t], transactions[t], p)
              /\ transactions'[t] \in Transaction
              /\ reconciliation'[t] \in ReconciliationRecord
           \/ /\ transactions'[t] = transactions[t]
              /\ reconciliation'[t] = reconciliation[t]
<1>1. p \in PaymentEvent /\ p.transaction_id \in TransactionId
  BY PayloadAssumption DEF PaymentEvent
<1>2. CASE p.transaction_id = t
  <2>1. transactions'[t] = UpsertTransaction(transactions[t], p)
    BY <1>1, <1>2 DEF TypeOK, Ingest
  <2>2. reconciliation'[t] = UpsertReconciliation(reconciliation[t], transactions[t], p)
    BY <1>1, <1>2 DEF TypeOK, Ingest
  <2>3. transactions[t] \in Transaction \cup {None}
        /\ reconciliation[t] \in ReconciliationRecord \cup {None}
    BY DEF TypeOK
  <2> QED BY <1>1, <1>2, <2>1, <2>2, <2>3, UpsertTransactionType, UpsertReconciliationType
<1>3. CASE p.transaction_id # t
  BY <1>1, <1>3 DEF TypeOK, Ingest
<1> QED BY <1>2, <1>3

\* payment_status is the transaction's status, and the rows exist together.
THEOREM StatusIsMirrored == Spec => []MirrorsStatus
<1>1. Init => MirrorsStatus
  BY DEF Init, MirrorsStatus
<1>2. TypeOK /\ MirrorsStatus /\ [Next]_vars => MirrorsStatus'
  <2> SUFFICES ASSUME TypeOK, MirrorsStatus, [Next]_vars
               PROVE  MirrorsStatus'
    OBVIOUS
  <2>1. ASSUME NEW p \in Payload, Ingest(p)
        PROVE  MirrorsStatus'
    <3> SUFFICES ASSUME NEW t \in TransactionId
                 PROVE  /\ (transactions'[t] = None) = (reconciliation'[t] = None)
                        /\ transactions'[t] # None =>
                              reconciliation'[t].payment_status
                                = transactions'[t].current_status
      BY DEF MirrorsStatus
    <3>1. CASE /\ p.transaction_id = t
               /\ transactions'[t] = UpsertTransaction(transactions[t], p)
               /\ reconciliation'[t]
                     = UpsertReconciliation(reconciliation[t], transactions[t], p)
               /\ transactions'[t] \in Transaction
               /\ reconciliation'[t] \in ReconciliationRecord
      <4>1. transactions'[t] # None /\ reconciliation'[t] # None
        BY <3>1, NoneAssumption DEF Transaction, ReconciliationRecord
      <4>2. transactions[t] = None <=> reconciliation[t] = None
        BY DEF MirrorsStatus
      <4> QED BY <3>1, <4>1, <4>2, UpsertReconciliationStatus
    <3>2. CASE /\ transactions'[t] = transactions[t]
               /\ reconciliation'[t] = reconciliation[t]
      BY <3>2 DEF MirrorsStatus
    <3> QED BY <2>1, <3>1, <3>2, IngestPair
  <2>2. CASE UNCHANGED vars
    BY <2>2 DEF MirrorsStatus, vars
  <2> QED BY <2>1, <2>2 DEF Next
<1> QED BY <1>1, <1>2, TypeCorrect, PTL DEF Spec

\* No status ever moves back.
THEOREM StatusMovesForward == Spec => StatusForwardOnly
<1>1. TypeOK /\ [Next]_vars
        => [\A t \in TransactionId : Forward(transactions[t], transactions'[t])]_vars
  <2> SUFFICES ASSUME TypeOK, NEW p \in Payload, Ingest(p), NEW t \in TransactionId
               PROVE  Forward(transactions[t], transactions'[t])
    BY DEF Next
  <2>1. p \in PaymentEvent /\ p.transaction_id \in TransactionId
    BY PayloadAssumption DEF PaymentEvent
  <2>2. CASE p.transaction_id # t
    BY <2>1, <2>2 DEF TypeOK, Ingest, Forward
  <2>3. CASE p.transaction_id = t /\ transactions[t] # None
    <3>1. transactions[t] \in Transaction
      BY <2>3 DEF TypeOK
    <3>2. transactions'[t] = UpsertTransaction(transactions[t], p)
      BY <2>1, <2>3 DEF TypeOK, Ingest
    <3> QED BY <2>1, <3>1, <3>2, UpsertTransactionForward DEF Forward
  <2>4. CASE transactions[t] = None
    BY <2>4 DEF Forward
  <2> QED BY <2>2, <2>3, <2>4
<1> QED BY <1>1, TypeCorrect, PTL DEF Spec, StatusForwardOnly

-----------------------------------------------------------------------------

\* Settlements and statuses agree in every ledger.
THEOREM SettlementAgrees == Spec => []SettlementFollowsStatus
<1>1. Init => SettlementFollowsStatus
  BY DEF Init, SettlementFollowsStatus
<1>2. TypeOK /\ MirrorsStatus /\ SettlementFollowsStatus /\ [Next]_vars
        => SettlementFollowsStatus'
  <2> SUFFICES ASSUME TypeOK, MirrorsStatus, SettlementFollowsStatus, [Next]_vars
               PROVE  SettlementFollowsStatus'
    OBVIOUS
  <2>1. ASSUME NEW p \in Payload, Ingest(p)
        PROVE  SettlementFollowsStatus'
    <3> SUFFICES ASSUME NEW t \in TransactionId, transactions'[t] # None
                 PROVE  /\ reconciliation'[t].settlement_status = "settled"
                              => transactions'[t].current_status = "settled"
                        /\ transactions'[t].current_status = "failed"
                              => reconciliation'[t].settlement_status = "not_applicable"
                        /\ reconciliation'[t].discrepancy_reason = "settled_after_failed"
                              => /\ transactions'[t].current_status = "settled"
                                 /\ reconciliation'[t].settlement_status = "not_applicable"
      BY DEF SettlementFollowsStatus
    <3>1. CASE /\ p.transaction_id = t
               /\ transactions'[t] = UpsertTransaction(transactions[t], p)
               /\ reconciliation'[t]
                     = UpsertReconciliation(reconciliation[t], transactions[t], p)
      <4>1. /\ transactions[t] \in Transaction \cup {None}
            /\ reconciliation[t] \in ReconciliationRecord \cup {None}
        BY DEF TypeOK
      <4>2. transactions[t] = None <=> reconciliation[t] = None
        BY DEF MirrorsStatus
      <4>3. p \in PaymentEvent
        BY PayloadAssumption
      <4>4. transactions[t] # None =>
              /\ reconciliation[t].settlement_status = "settled"
                    => transactions[t].current_status = "settled"
              /\ transactions[t].current_status = "failed"
                    => reconciliation[t].settlement_status = "not_applicable"
        BY DEF SettlementFollowsStatus
      <4> QED BY <3>1, <4>1, <4>2, <4>3, <4>4, UpsertSettlement, UpsertSettledAfterFailed
    <3>2. CASE /\ transactions'[t] = transactions[t]
               /\ reconciliation'[t] = reconciliation[t]
      BY <3>2 DEF SettlementFollowsStatus
    <3> QED BY <2>1, <3>1, <3>2, IngestPair
  <2>2. CASE UNCHANGED vars
    BY <2>2 DEF SettlementFollowsStatus, vars
  <2> QED BY <2>1, <2>2 DEF Next
<1> QED BY <1>1, <1>2, TypeCorrect, StatusIsMirrored, PTL DEF Spec

-----------------------------------------------------------------------------
(* The log as a history.  The invariant: beside the properties themselves   *)
(* that the rows are what the log says they are, it has, the other way      *)
(* round, that what the log records is stored.                              *)

\* A settlement that the log records is in the row, and is never taken back.
RecordedIsSettled ==
    \A t \in TransactionId : (\E j \in Positions(t) : RecordsSettlement(t, j))
        => reconciliation[t].settlement_status = "settled"

\* Only a failure closes a settlement.
ClosedByFailure ==
    \A t \in TransactionId :
        (reconciliation[t] # None /\ reconciliation[t].settlement_status = "not_applicable")
            => \E i \in Positions(t) : Type(i) = "payment_failed"

\* A flag is raised with its reason and cleared with it.
FlagHasReason ==
    \A t \in TransactionId : reconciliation[t] # None =>
        (reconciliation[t].discrepancy_flag <=> reconciliation[t].discrepancy_reason # None)

LedgerInv == TypeOK /\ MirrorsStatus /\ SettlementFollowsStatus

HistoryInv ==
    /\ StatusIsFirstOfHighestRank /\ SettlementIsEarned /\ FlagMatchesLog
    /\ RecordedIsSettled /\ ClosedByFailure /\ FlagHasReason

-----------------------------------------------------------------------------
(* The log.                                                                 *)

\* The events of a log have types and ranks.
LEMMA EventsHaveRanks ==
    ASSUME TypeOK
    PROVE  /\ Len(payment_events) \in Nat /\ DOMAIN payment_events = 1..Len(payment_events)
           /\ \A t \in TransactionId : \A i \in Positions(t) :
                 i \in 1..Len(payment_events) /\ Type(i) \in EventType /\ Rank(i) \in 0..2
<1>1. payment_events \in Seq(PaymentEvent)
  BY DEF TypeOK
<1>2. \A i \in DOMAIN payment_events : payment_events[i] \in PaymentEvent
  BY <1>1
<1>3. \A i \in DOMAIN payment_events : Type(i) \in EventType /\ Rank(i) \in 0..2
  BY <1>2, StatusOfEvent, RankOfStatus DEF Type, Rank, PaymentEvent
<1> QED
  BY <1>1, <1>3 DEF Positions

\* An accepted event gets the last position, and what the log said up to any earlier
\* position it says still.
LEMMA LogGrows ==
    ASSUME TypeOK, NEW p \in Payload, Ingest(p), NEW n, n = Len(payment_events) + 1
    PROVE  /\ n \in Nat /\ Len(payment_events)' = n
           /\ payment_events'[n] = p /\ Type(n)' = p.event_type
           /\ \A i \in 1..(n - 1) : /\ payment_events'[i] = payment_events[i]
                                    /\ Type(i)' = Type(i) /\ Rank(i)' = Rank(i)
           /\ Positions(p.transaction_id)' = Positions(p.transaction_id) \cup {n}
           /\ \A t \in TransactionId \ {p.transaction_id} : Positions(t)' = Positions(t)
<1>1. /\ payment_events \in Seq(PaymentEvent) /\ p \in PaymentEvent
      /\ payment_events' = Append(payment_events, p)
  BY PayloadAssumption DEF TypeOK, Ingest
<1>2. /\ n \in Nat /\ Len(payment_events') = n
      /\ DOMAIN payment_events' = DOMAIN payment_events \cup {n}
      /\ DOMAIN payment_events = 1..(n - 1)
      /\ payment_events'[n] = p
      /\ \A i \in 1..(n - 1) : payment_events'[i] = payment_events[i]
  BY <1>1
<1>3. \A t : Positions(t)' = {i \in (1..(n - 1)) \cup {n} :
                                 payment_events'[i].transaction_id = t}
  BY <1>2 DEF Positions
<1>4. Positions(p.transaction_id)' = Positions(p.transaction_id) \cup {n}
  BY <1>2, <1>3 DEF Positions
<1>5. \A t \in TransactionId \ {p.transaction_id} : Positions(t)' = Positions(t)
  BY <1>2, <1>3 DEF Positions
<1>6. Type(n)' = p.event_type /\ \A i \in 1..(n - 1) : Type(i)' = Type(i) /\ Rank(i)' = Rank(i)
  BY <1>2 DEF Type, Rank
<1> QED
  BY <1>2, <1>4, <1>5, <1>6

LEMMA HistoryStays ==
    ASSUME TypeOK, NEW p \in Payload, Ingest(p), NEW t \in TransactionId
    PROVE  /\ \A k \in 0..Len(payment_events) : FailedAt(t, k)' <=> FailedAt(t, k)
           /\ \A k \in 0..Len(payment_events) : \A i : Decides(t, k, i)' <=> Decides(t, k, i)
           /\ \A i \in 1..Len(payment_events) :
                 /\ RecordsSettlement(t, i)' <=> RecordsSettlement(t, i)
                 /\ Contradicts(t, i)' <=> Contradicts(t, i)
<1> DEFINE m == Len(payment_events)
<1>1. /\ m \in Nat
      /\ \A i \in Positions(t) : i \in 1..m
  BY EventsHaveRanks
<1>2. /\ \A i \in 1..m : Type(i)' = Type(i) /\ Rank(i)' = Rank(i)
      /\ Positions(t)' \in {Positions(t), Positions(t) \cup {m + 1}}
  BY LogGrows
<1> HIDE DEF m
<1>3. \A k \in 0..m : \A i : Decides(t, k, i)' <=> Decides(t, k, i)
  BY <1>1, <1>2 DEF Decides
<1>4. \A k \in 0..m : FailedAt(t, k)' <=> FailedAt(t, k)
  BY <1>1, <1>2, <1>3 DEF FailedAt
<1>5. \A i \in 1..m : RecordsSettlement(t, i)' <=> RecordsSettlement(t, i)
  BY <1>1, <1>2, <1>4 DEF RecordsSettlement
<1>6. \A i \in 1..m : Contradicts(t, i)' <=> Contradicts(t, i)
  BY <1>1, <1>2, <1>4, <1>5 DEF Contradicts
<1> QED
  BY <1>3, <1>4, <1>5, <1>6 DEF m

\* One event of a history fixes the status.
LEMMA OneDecides ==
    ASSUME TypeOK, NEW t \in TransactionId, NEW k, NEW i, NEW j,
           Decides(t, k, i), Decides(t, k, j)
    PROVE  i = j
BY EventsHaveRanks DEF Decides

\* What the status of a transaction tells of its log.
LEMMA StatusTells ==
    ASSUME TypeOK, StatusIsFirstOfHighestRank, NEW t \in TransactionId, transactions[t] # None
    PROVE  /\ FailedAt(t, Len(payment_events)) <=> transactions[t].current_status = "failed"
           /\ (\E j \in Positions(t) : Type(j) = "settled")
                 <=> transactions[t].current_status = "settled"
<1> DEFINE m == Len(payment_events)
<1>1. PICK i \in Positions(t) :
         /\ Decides(t, m, i)
         /\ transactions[t].current_status = EVENT_TO_STATUS[Type(i)]
  BY DEF StatusIsFirstOfHighestRank
<1>2. \A j \in Positions(t) : j \in 1..m /\ Type(j) \in EventType /\ Rank(j) \in 0..2
  BY EventsHaveRanks
<1>3. FailedAt(t, m) <=> Type(i) = "payment_failed"
  BY <1>1, <1>2, OneDecides DEF FailedAt
<1>4. Type(i) = "payment_failed" <=> transactions[t].current_status = "failed"
  BY <1>1, <1>2 DEF EventType, EVENT_TO_STATUS
<1>5. Type(i) = "settled" <=> transactions[t].current_status = "settled"
  BY <1>1, <1>2 DEF EventType, EVENT_TO_STATUS
<1>6. ASSUME NEW j \in Positions(t), Type(j) = "settled"
      PROVE  Type(i) = "settled"
  <2>1. Rank(j) = 2 /\ Rank(i) >= 2
    BY <1>1, <1>2, <1>6 DEF Rank, EVENT_TO_STATUS, STATUS_RANK, Decides
  <2> QED
    BY <1>2, <2>1 DEF Rank, EventType, EVENT_TO_STATUS, STATUS_RANK
<1> QED
  BY <1>1, <1>3, <1>4, <1>5, <1>6

-----------------------------------------------------------------------------
(* One event.                                                               *)

\* What the event is to a transaction: of another one, its first, or a later one.
OfAnother(t) ==
    /\ transactions'[t] = transactions[t] /\ reconciliation'[t] = reconciliation[t]
    /\ Positions(t)' = Positions(t)

FirstOf(t, p, n) ==
    /\ transactions[t] = None /\ reconciliation[t] = None
    /\ transactions'[t].current_status = EVENT_TO_STATUS[p.event_type]
    /\ reconciliation'[t] = NewReconciliation(p)
    /\ Positions(t) = {} /\ Positions(t)' = {n}

LaterOf(t, p, n) ==
    /\ transactions[t] \in Transaction /\ transactions[t] # None
    /\ reconciliation[t] \in ReconciliationRecord /\ reconciliation[t] # None
    /\ transactions'[t].current_status =
          LET status == EVENT_TO_STATUS[p.event_type]
          IN  IF should_advance(transactions[t].current_status, status)
              THEN status ELSE transactions[t].current_status
    /\ reconciliation'[t] = UpsertReconciliation(reconciliation[t], transactions[t], p)
    /\ Positions(t) # {} /\ Positions(t)' = Positions(t) \cup {n}

LEMMA IngestIsOneOf ==
    ASSUME LedgerInv, StatusIsFirstOfHighestRank, NEW p \in Payload, Ingest(p),
           NEW n, n = Len(payment_events) + 1, NEW t \in TransactionId
    PROVE  /\ p \in PaymentEvent /\ p.event_type \in EventType /\ p.event_id \in EventId
           /\ OfAnother(t) \/ FirstOf(t, p, n) \/ LaterOf(t, p, n)
           /\ transactions'[t] # None <=> Positions(t)' # {}
<1> USE DEF LedgerInv
<1>1. /\ p \in PaymentEvent /\ p.event_type \in EventType /\ p.event_id \in EventId
      /\ p.transaction_id \in TransactionId
  BY PayloadAssumption DEF PaymentEvent
<1>2. transactions[t] # None <=> Positions(t) # {}
  BY DEF StatusIsFirstOfHighestRank
<1>3. CASE t # p.transaction_id
  <2>1. OfAnother(t)
    BY <1>1, <1>3, LogGrows DEF Ingest, OfAnother, TypeOK
  <2> QED
    BY <1>1, <1>2, <2>1 DEF OfAnother
<1>4. CASE t = p.transaction_id
  <2>1. /\ transactions'[t] = UpsertTransaction(transactions[t], p)
        /\ reconciliation'[t] = UpsertReconciliation(reconciliation[t], transactions[t], p)
        /\ Positions(t)' = Positions(t) \cup {n}
    BY <1>1, <1>4, LogGrows DEF Ingest, TypeOK
  <2>2. /\ transactions[t] \in Transaction \cup {None}
        /\ reconciliation[t] \in ReconciliationRecord \cup {None}
        /\ transactions[t] = None <=> reconciliation[t] = None
    BY DEF TypeOK, MirrorsStatus
  <2>3. transactions'[t] # None
    <3>1. transactions'[t] \in Transaction
      BY <1>1, <2>1, <2>2, UpsertTransactionType
    <3> QED
      BY <3>1, NoneAssumption DEF Transaction
  <2>4. CASE transactions[t] = None
    BY <1>1, <1>2, <2>1, <2>2, <2>3, <2>4
    DEF FirstOf, UpsertTransaction, UpsertReconciliation
  <2>5. CASE transactions[t] # None
    <3>1. LaterOf(t, p, n)
      BY <1>2, <2>1, <2>2, <2>5 DEF LaterOf, UpsertTransaction, Transaction
    <3> QED
      BY <1>1, <2>1, <2>3, <3>1
  <2> QED
    BY <2>4, <2>5
<1> QED
  BY <1>3, <1>4

\* What an event adds to the history of its transaction.
LEMMA LastEvent ==
    ASSUME TypeOK, NEW p \in Payload, Ingest(p), NEW t \in TransactionId,
           NEW n, n = Len(payment_events) + 1, n \in Positions(t)'
    PROVE  /\ RecordsSettlement(t, n)' <=>
                 /\ p.event_type = "settled" /\ Positions(t) # {}
                 /\ ~FailedAt(t, n - 1)
           /\ Contradicts(t, n)' <=>
                 \/ p.event_type = "settled" /\ FailedAt(t, n - 1)
                 \/ /\ p.event_type = "payment_failed"
                    /\ \E j \in Positions(t) : RecordsSettlement(t, j)
                 \/ /\ p.event_type = "payment_processed"
                    /\ \E j \in Positions(t) : Type(j) = "settled"
<1>1. /\ n \in Nat /\ Type(n)' = p.event_type
      /\ Positions(t)' \in {Positions(t), Positions(t) \cup {n}}
      /\ \A i \in 1..(n - 1) : Type(i)' = Type(i)
      /\ \A j \in Positions(t) : j \in 1..(n - 1)
  <2>1. \A j \in Positions(t) : j \in 1..(n - 1)
    BY EventsHaveRanks
  <2> QED
    BY <2>1, LogGrows
<1>2. FailedAt(t, n - 1)' <=> FailedAt(t, n - 1)
  BY <1>1, HistoryStays
<1>3. \A j \in 1..(n - 1) : /\ RecordsSettlement(t, j)' <=> RecordsSettlement(t, j)
                            /\ RecordsSettlement(t, j) => j \in Positions(t)
  BY <1>1, HistoryStays DEF RecordsSettlement
<1>4. /\ Positions(t)' = Positions(t) \cup {n}
      /\ \A j \in Positions(t) : j \in 1..(n - 1) /\ j < n /\ Type(j)' = Type(j)
      /\ \A j \in Positions(t)' : j < n <=> j \in Positions(t)
  BY <1>1
<1>5. RecordsSettlement(t, n)' <=>
                 /\ p.event_type = "settled" /\ Positions(t) # {}
                 /\ ~FailedAt(t, n - 1)
  BY <1>1, <1>2, <1>4 DEF RecordsSettlement
<1>6. (\E j \in 1..(n - 1) : RecordsSettlement(t, j)')
         <=> \E j \in Positions(t) : RecordsSettlement(t, j)
  BY <1>3, <1>4
<1>7. (\E j \in Positions(t)' : j < n /\ Type(j)' = "settled")
         <=> \E j \in Positions(t) : Type(j) = "settled"
  BY <1>4
<1>8. Contradicts(t, n)' <=>
                 \/ p.event_type = "settled" /\ FailedAt(t, n - 1)
                 \/ /\ p.event_type = "payment_failed"
                    /\ \E j \in 1..(n - 1) : RecordsSettlement(t, j)'
                 \/ /\ p.event_type = "payment_processed"
                    /\ \E j \in Positions(t)' : j < n /\ Type(j)' = "settled"
  BY <1>1, <1>2 DEF Contradicts
<1> QED
  BY <1>5, <1>6, <1>7, <1>8

\* The earliest event of the highest rank fixes the status after one more event.
LEMMA StatusStep ==
    ASSUME LedgerInv, StatusIsFirstOfHighestRank, NEW p \in Payload, Ingest(p)
    PROVE  StatusIsFirstOfHighestRank'
<1> SUFFICES ASSUME NEW t \in TransactionId, NEW n, n = Len(payment_events) + 1,
                    Positions(t)' # {}
             PROVE  \E i \in Positions(t)' :
                       /\ Decides(t, n, i)'
                       /\ transactions'[t].current_status = EVENT_TO_STATUS[Type(i)']
  <2>1. PICK n : n = Len(payment_events) + 1
    OBVIOUS
  <2>2. Len(payment_events)' = n
    BY <2>1, LogGrows DEF LedgerInv
  <2> QED
    BY <2>1, <2>2, IngestIsOneOf DEF StatusIsFirstOfHighestRank, Decides
<1>1. /\ n \in Nat /\ Type(n)' = p.event_type
      /\ \A i \in 1..(n - 1) : Type(i)' = Type(i) /\ Rank(i)' = Rank(i)
      /\ \A i \in Positions(t) : i \in 1..(n - 1) /\ Type(i) \in EventType /\ Rank(i) \in 0..2
  BY LogGrows, EventsHaveRanks DEF LedgerInv
<1>2. p.event_type \in EventType /\ Rank(n)' = STATUS_RANK[EVENT_TO_STATUS[p.event_type]]
      /\ Rank(n)' \in 0..2
  BY <1>1, IngestIsOneOf, StatusOfEvent, RankOfStatus DEF Rank
<1>3. CASE FirstOf(t, p, n)
  BY <1>1, <1>2, <1>3 DEF FirstOf, Decides
<1>4. ASSUME Positions(t) # {}
      PROVE  \E i \in Positions(t) :
                /\ transactions[t].current_status = EVENT_TO_STATUS[Type(i)]
                /\ \A j \in Positions(t) : Rank(j) < Rank(i) \/ (Rank(j) = Rank(i) /\ i <= j)
  BY <1>1, <1>4 DEF StatusIsFirstOfHighestRank, Decides
<1>5. CASE OfAnother(t)
  <2>1. PICK i \in Positions(t) :
                /\ transactions[t].current_status = EVENT_TO_STATUS[Type(i)]
                /\ \A j \in Positions(t) : Rank(j) < Rank(i) \/ (Rank(j) = Rank(i) /\ i <= j)
    BY <1>4, <1>5 DEF OfAnother
  <2>2. Decides(t, n, i)'
    BY <1>1, <1>5, <2>1 DEF OfAnother, Decides
  <2> QED
    BY <1>1, <1>5, <2>1, <2>2 DEF OfAnother
<1>6. CASE LaterOf(t, p, n)
  <2>1. PICK i \in Positions(t) :
                /\ transactions[t].current_status = EVENT_TO_STATUS[Type(i)]
                /\ \A j \in Positions(t) : Rank(j) < Rank(i) \/ (Rank(j) = Rank(i) /\ i <= j)
    BY <1>4, <1>6 DEF LaterOf
  <2>2. Positions(t)' = Positions(t) \cup {n}
    BY <1>6 DEF LaterOf
  <2>3. CASE Rank(n)' > Rank(i)
    <3>1. transactions'[t].current_status = EVENT_TO_STATUS[p.event_type]
      BY <1>2, <1>6, <2>1, <2>3 DEF LaterOf, should_advance, Rank
    <3>2. Decides(t, n, n)'
      BY <1>1, <1>2, <2>1, <2>2, <2>3 DEF Decides
    <3> QED
      BY <1>1, <2>2, <3>1, <3>2
  <2>4. CASE ~(Rank(n)' > Rank(i))
    <3>1. transactions'[t].current_status = transactions[t].current_status
      BY <1>2, <1>6, <2>1, <2>4 DEF LaterOf, should_advance, Rank
    <3>2. Decides(t, n, i)'
      BY <1>1, <1>2, <2>1, <2>2, <2>4 DEF Decides
    <3> QED
      BY <1>1, <2>1, <2>2, <3>1, <3>2
  <2> QED
    BY <2>3, <2>4
<1> QED
  BY <1>3, <1>5, <1>6, IngestIsOneOf

\* The row of a later event of t, in the terms of the history before it.
LEMMA LaterRow ==
    ASSUME LedgerInv, HistoryInv, NEW p \in Payload, Ingest(p), NEW t \in TransactionId,
           NEW n, n = Len(payment_events) + 1, LaterOf(t, p, n)
    PROVE  /\ reconciliation'[t].discrepancy_flag <=> Contradicts(t, n)'
           /\ reconciliation'[t].discrepancy_flag
                 <=> reconciliation'[t].discrepancy_reason # None
           /\ reconciliation'[t].settlement_status =
                 IF Contradicts(t, n)' THEN reconciliation[t].settlement_status
                 ELSE IF p.event_type = "settled" THEN "settled"
                 ELSE IF p.event_type = "payment_failed" THEN "not_applicable"
                 ELSE reconciliation[t].settlement_status
           /\ reconciliation'[t].settled_at =
                 IF p.event_type = "settled" /\ ~Contradicts(t, n)'
                 THEN p.event_id ELSE reconciliation[t].settled_at
           /\ p.event_type = "settled" => (RecordsSettlement(t, n)' <=> ~Contradicts(t, n)')
           /\ (p.event_type = "settled" /\ Contradicts(t, n)')
                 => reconciliation[t].settlement_status = "not_applicable"
           /\ p.event_type = "payment_failed"
                 => (Contradicts(t, n)' <=> reconciliation[t].settlement_status = "settled")
<1> USE DEF LedgerInv, HistoryInv
<1>1. /\ n \in Positions(t)' /\ Positions(t) # {} /\ p \in PaymentEvent
      /\ transactions[t] \in Transaction /\ transactions[t] # None
      /\ reconciliation[t] \in ReconciliationRecord /\ reconciliation[t] # None
      /\ reconciliation'[t] = UpsertReconciliation(reconciliation[t], transactions[t], p)
  BY IngestIsOneOf DEF LaterOf
<1>2. /\ FailedAt(t, n - 1) <=> transactions[t].current_status = "failed"
      /\ (\E j \in Positions(t) : Type(j) = "settled")
            <=> transactions[t].current_status = "settled"
  <2>1. n - 1 = Len(payment_events)
    BY EventsHaveRanks
  <2> QED
    BY <1>1, <2>1, StatusTells
<1>3. (\E j \in Positions(t) : RecordsSettlement(t, j))
         <=> reconciliation[t].settlement_status = "settled"
  BY <1>1 DEF RecordedIsSettled, SettlementIsEarned
<1>4. /\ RecordsSettlement(t, n)' <=> p.event_type = "settled" /\ ~FailedAt(t, n - 1)
      /\ Contradicts(t, n)' <=>
            \/ p.event_type = "settled" /\ transactions[t].current_status = "failed"
            \/ p.event_type = "payment_failed" /\ reconciliation[t].settlement_status = "settled"
            \/ p.event_type = "payment_processed" /\ transactions[t].current_status = "settled"
  BY <1>1, <1>2, <1>3, LastEvent
<1>5. transactions[t].current_status = "failed"
         => reconciliation[t].settlement_status = "not_applicable"
  BY <1>1 DEF SettlementFollowsStatus
<1> QED
  BY <1>1, <1>2, <1>4, <1>5, UpsertColumns

\* The settlements, the closures and the flags after one more event.
LEMMA HistoryStep ==
    ASSUME LedgerInv, HistoryInv, NEW p \in Payload, Ingest(p)
    PROVE  HistoryInv'
<1> USE DEF LedgerInv, HistoryInv
<1>1. PICK n : n = Len(payment_events) + 1
  OBVIOUS
<1>2. \A t \in TransactionId : OfAnother(t) \/ FirstOf(t, p, n) \/ LaterOf(t, p, n)
  BY <1>1, IngestIsOneOf
<1>3. /\ n \in Nat /\ payment_events'[n] = p /\ Type(n)' = p.event_type
      /\ \A i \in 1..(n - 1) : payment_events'[i] = payment_events[i] /\ Type(i)' = Type(i)
      /\ \A t \in TransactionId : Positions(t) \subseteq 1..(n - 1)
  <2>1. \A t \in TransactionId : Positions(t) \subseteq 1..(n - 1)
    BY <1>1, EventsHaveRanks
  <2> QED
    BY <1>1, <2>1, LogGrows
<1>4. p.event_type \in EventType /\ p.event_id # None
  <2>1. p.event_type \in EventType /\ p.event_id \in EventId
    BY PayloadAssumption DEF PaymentEvent
  <2> QED
    BY <2>1, NoneAssumption
<1>5. \A t \in TransactionId : \A i \in 1..(n - 1) :
         /\ RecordsSettlement(t, i)' <=> RecordsSettlement(t, i)
         /\ Contradicts(t, i)' <=> Contradicts(t, i)
  BY <1>1, HistoryStays
<1>6. ASSUME NEW t \in TransactionId, FirstOf(t, p, n)
      PROVE  ~Contradicts(t, n)' /\ ~RecordsSettlement(t, n)'
  <2>1. Positions(t) = {} /\ n \in Positions(t)'
    BY <1>6 DEF FirstOf
  <2>2. ~FailedAt(t, n - 1)
    BY <2>1 DEF FailedAt, Decides
  <2> QED
    BY <1>1, <2>1, <2>2, LastEvent
<1>7. RecordedIsSettled'
  <2> SUFFICES ASSUME NEW t \in TransactionId, NEW j \in Positions(t)',
                      RecordsSettlement(t, j)'
               PROVE  reconciliation'[t].settlement_status = "settled"
    BY DEF RecordedIsSettled
  <2>1. CASE OfAnother(t)
    BY <1>3, <1>5, <2>1 DEF OfAnother, RecordedIsSettled
  <2>2. CASE FirstOf(t, p, n)
    BY <1>6, <2>2 DEF FirstOf
  <2>3. CASE LaterOf(t, p, n)
    <3>1. CASE j = n
      BY <1>1, <1>3, <2>3, <3>1, LaterRow DEF RecordsSettlement
    <3>2. CASE j # n
      <4>1. j \in Positions(t)
        BY <2>3, <3>2 DEF LaterOf
      <4>2. reconciliation[t].settlement_status = "settled"
        BY <1>3, <1>5, <4>1 DEF RecordedIsSettled
      <4> QED
        BY <1>1, <2>3, <4>2, LaterRow
    <3> QED
      BY <3>1, <3>2
  <2> QED
    BY <1>2, <2>1, <2>2, <2>3
<1>8. ClosedByFailure'
  <2> SUFFICES ASSUME NEW t \in TransactionId, reconciliation'[t] # None,
                      reconciliation'[t].settlement_status = "not_applicable"
               PROVE  \E i \in Positions(t)' : Type(i)' = "payment_failed"
    BY DEF ClosedByFailure
  <2>1. CASE OfAnother(t)
    BY <1>3, <2>1 DEF OfAnother, ClosedByFailure
  <2>2. CASE FirstOf(t, p, n)
    BY <1>3, <2>2 DEF FirstOf, NewReconciliation, InitialSettlement
  <2>3. CASE LaterOf(t, p, n)
    <3>1. Positions(t)' = Positions(t) \cup {n} /\ reconciliation[t] # None
      BY <2>3 DEF LaterOf
    <3>2. \/ reconciliation[t].settlement_status = "not_applicable"
          \/ p.event_type = "payment_failed"
      BY <1>1, <2>3, LaterRow
    <3> QED
      BY <1>3, <3>1, <3>2 DEF ClosedByFailure
  <2> QED
    BY <1>2, <2>1, <2>2, <2>3
<1>9. FlagHasReason'
  <2> SUFFICES ASSUME NEW t \in TransactionId, reconciliation'[t] # None
               PROVE  reconciliation'[t].discrepancy_flag
                         <=> reconciliation'[t].discrepancy_reason # None
    BY DEF FlagHasReason
  <2>1. CASE OfAnother(t)
    BY <2>1 DEF OfAnother, FlagHasReason
  <2>2. CASE FirstOf(t, p, n)
    BY <2>2 DEF FirstOf, NewReconciliation
  <2>3. CASE LaterOf(t, p, n)
    BY <1>1, <2>3, LaterRow
  <2> QED
    BY <1>2, <2>1, <2>2, <2>3
<1>10. FlagMatchesLog'
  <2> SUFFICES ASSUME NEW t \in TransactionId, reconciliation'[t] # None
               PROVE  \E last \in Positions(t)' :
                         /\ \A j \in Positions(t)' : j <= last
                         /\ reconciliation'[t].discrepancy_flag <=> Contradicts(t, last)'
    BY DEF FlagMatchesLog
  <2>1. CASE OfAnother(t)
    BY <1>3, <1>5, <2>1 DEF OfAnother, FlagMatchesLog
  <2>2. CASE FirstOf(t, p, n)
    BY <1>3, <1>6, <2>2 DEF FirstOf, NewReconciliation
  <2>3. CASE LaterOf(t, p, n)
    <3>1. n \in Positions(t)' /\ \A j \in Positions(t)' : j <= n
      BY <1>3, <2>3 DEF LaterOf
    <3> QED
      BY <1>1, <2>3, <3>1, LaterRow
  <2> QED
    BY <1>2, <2>1, <2>2, <2>3
<1>11. SettlementIsEarned'
  <2> SUFFICES ASSUME NEW t \in TransactionId, reconciliation'[t] # None
               PROVE  LET r == reconciliation'[t]
                      IN  /\ (r.settlement_status = "settled") = (r.settled_at # None)
                          /\ r.settled_at # None =>
                                \E i \in Positions(t)' :
                                    /\ payment_events'[i].event_id = r.settled_at
                                    /\ RecordsSettlement(t, i)'
                                    /\ \A j \in Positions(t)' : j > i => Type(j)' # "settled"
    BY DEF SettlementIsEarned
  <2>1. CASE OfAnother(t)
    BY <1>3, <1>5, <2>1 DEF OfAnother, SettlementIsEarned
  <2>2. CASE FirstOf(t, p, n)
    BY <2>2 DEF FirstOf, NewReconciliation, InitialSettlement
  <2>3. CASE LaterOf(t, p, n)
    <3> DEFINE old == reconciliation[t]
               new == reconciliation'[t]
    <3>1. /\ Positions(t)' = Positions(t) \cup {n} /\ old # None
          /\ (old.settlement_status = "settled") = (old.settled_at # None)
      BY <2>3 DEF LaterOf, SettlementIsEarned
    <3>2. CASE p.event_type = "settled" /\ ~Contradicts(t, n)'
      <4>1. /\ new.settlement_status = "settled" /\ new.settled_at = p.event_id
            /\ RecordsSettlement(t, n)'
        BY <1>1, <2>3, <3>2, LaterRow
      <4>2. \A j \in Positions(t)' : ~(j > n)
        BY <1>3, <3>1
      <4> QED
        BY <1>3, <1>4, <3>1, <4>1, <4>2
    <3>3. CASE p.event_type = "settled" /\ Contradicts(t, n)'
      <4>1. /\ new.settlement_status = old.settlement_status
            /\ new.settled_at = old.settled_at /\ old.settlement_status = "not_applicable"
        BY <1>1, <2>3, <3>3, LaterRow
      <4> QED
        BY <3>1, <4>1
    <3>4. CASE p.event_type = "payment_failed" /\ ~Contradicts(t, n)'
      <4>1. /\ new.settlement_status = "not_applicable"
            /\ new.settled_at = old.settled_at /\ old.settlement_status # "settled"
        BY <1>1, <2>3, <3>4, LaterRow
      <4> QED
        BY <3>1, <4>1
    <3>5. CASE p.event_type # "settled" /\ ~(p.event_type = "payment_failed" /\ ~Contradicts(t, n)')
      <4>1. new.settlement_status = old.settlement_status /\ new.settled_at = old.settled_at
        BY <1>1, <2>3, <3>5, LaterRow
      <4>2. old.settled_at # None =>
               \E i \in Positions(t) :
                   /\ payment_events[i].event_id = old.settled_at
                   /\ RecordsSettlement(t, i)
                   /\ \A j \in Positions(t) : j > i => Type(j) # "settled"
        BY <3>1 DEF SettlementIsEarned
      <4> QED
        BY <1>3, <1>5, <3>1, <3>5, <4>1, <4>2
    <3> QED
      BY <3>2, <3>3, <3>4, <3>5
  <2> QED
    BY <1>2, <2>1, <2>2, <2>3
<1> QED
  BY <1>7, <1>8, <1>9, <1>10, <1>11, StatusStep

LEMMA HistoryInvAlways == Spec => [](LedgerInv /\ HistoryInv)
<1>1. Init => HistoryInv
  BY DEF Init, HistoryInv, StatusIsFirstOfHighestRank, SettlementIsEarned, FlagMatchesLog,
         RecordedIsSettled, ClosedByFailure, FlagHasReason, Positions
<1>2. LedgerInv /\ HistoryInv /\ [Next]_vars => HistoryInv'
  <2> SUFFICES ASSUME LedgerInv, HistoryInv, [Next]_vars
               PROVE  HistoryInv'
    OBVIOUS
  <2>1. ASSUME NEW p \in Payload, Ingest(p)
        PROVE  HistoryInv'
    BY <2>1, HistoryStep
  <2>2. CASE UNCHANGED vars
    BY <2>2
    DEF vars, HistoryInv, StatusIsFirstOfHighestRank, SettlementIsEarned, FlagMatchesLog,
        RecordedIsSettled, ClosedByFailure, FlagHasReason, Positions, Decides, FailedAt,
        RecordsSettlement, Contradicts, Type, Rank
  <2> QED
    BY <2>1, <2>2 DEF Next
<1> QED
  BY <1>1, <1>2, TypeCorrect, StatusIsMirrored, SettlementAgrees, PTL DEF Spec, LedgerInv

-----------------------------------------------------------------------------
(* The properties.                                                          *)

\* current_status is the status of the earliest logged event of the highest rank.
THEOREM StatusIsDecided == Spec => []StatusIsFirstOfHighestRank
<1>1. HistoryInv => StatusIsFirstOfHighestRank
  BY DEF HistoryInv
<1> QED
  BY <1>1, HistoryInvAlways, PTL

\* A settlement is in the row exactly when settled_at is, and both are those of the last
\* settled event of the log, which came to a transaction that was known and not failed.
THEOREM SettlementsAreEarned == Spec => []SettlementIsEarned
<1>1. HistoryInv => SettlementIsEarned
  BY DEF HistoryInv
<1> QED
  BY <1>1, HistoryInvAlways, PTL

\* The flag is raised exactly when the latest event contradicts the ones before it.
THEOREM FlagsMatchLog == Spec => []FlagMatchesLog
<1>1. HistoryInv => FlagMatchesLog
  BY DEF HistoryInv
<1> QED
  BY <1>1, HistoryInvAlways, PTL

\* The report of discrepancies never falls back on the sentence of last resort.
THEOREM DiscrepanciesHaveReasons == Spec => []ListedHaveReasons
<1>1. LedgerInv /\ HistoryInv => ListedHaveReasons
  <2> SUFFICES ASSUME LedgerInv, HistoryInv, NEW t \in TransactionId,
                      reconciliation[t] # None, Discrepant(reconciliation[t])
               PROVE  ListedReason(reconciliation[t]) # "inconsistent"
    BY DEF ListedHaveReasons, Discrepancies
  <2>1. /\ reconciliation[t] \in ReconciliationRecord
        /\ reconciliation[t].discrepancy_flag <=> reconciliation[t].discrepancy_reason # None
    BY DEF LedgerInv, TypeOK, HistoryInv, FlagHasReason
  <2>2. CASE reconciliation[t].discrepancy_reason = None
    BY <2>1, <2>2 DEF Discrepant, ListedReason, infer_reason
  <2>3. CASE reconciliation[t].discrepancy_reason # None
    BY <2>1, <2>3 DEF ListedReason, ReconciliationRecord, DiscrepancyReason
  <2> QED
    BY <2>2, <2>3
<1> QED
  BY <1>1, HistoryInvAlways, PTL

\* Events in the order of the lifecycle, without a failure, are listed only while the
\* settlement is missing.
THEOREM CleanLifecyclesStayUnlisted == Spec => []CleanLifecycleNotListed
<1>1. LedgerInv /\ HistoryInv => CleanLifecycleNotListed
  <2> SUFFICES ASSUME LedgerInv, HistoryInv, NEW t \in TransactionId, Positions(t) # {},
                      \A i, j \in Positions(t) : i < j => Rank(i) < Rank(j),
                      \A i \in Positions(t) : Type(i) # "payment_failed"
               PROVE  t \in Discrepancies(transactions, reconciliation, None)
                         <=> transactions[t].current_status = "processed"
    BY DEF CleanLifecycleNotListed
  <2> DEFINE r == reconciliation[t]
             status == transactions[t].current_status
  <2>1. /\ transactions[t] # None /\ r # None /\ r \in ReconciliationRecord
        /\ r.payment_status = status
        /\ r.settlement_status = "settled" => status = "settled"
        /\ status = "failed" => r.settlement_status = "not_applicable"
        /\ r.settlement_status # "not_applicable"
    BY DEF LedgerInv, TypeOK, MirrorsStatus, SettlementFollowsStatus, HistoryInv,
           StatusIsFirstOfHighestRank, ClosedByFailure
  <2>2. r.settlement_status \in {"pending", "settled"}
    BY <2>1 DEF ReconciliationRecord, SettlementStatus
  <2>3. ~r.discrepancy_flag
    <3>1. PICK last \in Positions(t) : r.discrepancy_flag <=> Contradicts(t, last)
      BY <2>1 DEF HistoryInv, FlagMatchesLog
    <3>2. \A k : ~FailedAt(t, k)
      BY DEF FailedAt, Decides
    <3>3. \A j \in Positions(t) : j < last => Rank(j) < Rank(last)
      OBVIOUS
    <3>4. ~(/\ Type(last) = "payment_processed"
            /\ \E j \in Positions(t) : j < last /\ Type(j) = "settled")
      BY <3>3 DEF Rank, EVENT_TO_STATUS, STATUS_RANK
    <3> QED
      BY <3>1, <3>2, <3>4 DEF Contradicts
  <2>4. t \in Discrepancies(transactions, reconciliation, None) <=> Discrepant(r)
    BY <2>1 DEF Discrepancies
  <2> QED
    BY <2>1, <2>2, <2>3, <2>4 DEF Discrepant
<1> QED
  BY <1>1, HistoryInvAlways, PTL

-----------------------------------------------------------------------------
(* The reports.                                                             *)

\* A transaction is stored with its merchant.
MerchantsAreStored ==
    \A t \in TransactionId : transactions[t] # None =>
        merchants[transactions[t].merchant_id] # None

LEMMA MerchantsAreStoredStep ==
    ASSUME TypeOK, MerchantsAreStored, NEW p \in Payload, Ingest(p)
    PROVE  MerchantsAreStored'
<1> SUFFICES ASSUME NEW t \in TransactionId, transactions'[t] # None
             PROVE  merchants'[transactions'[t].merchant_id] # None
  BY DEF MerchantsAreStored
<1>1. /\ p \in PaymentEvent /\ p.merchant_id \in MerchantId /\ p.merchant_name # None
      /\ p.transaction_id \in TransactionId
  BY PayloadAssumption, NoneAssumption DEF PaymentEvent
<1>2. /\ merchants'[p.merchant_id] = p.merchant_name
      /\ \A m \in MerchantId : merchants[m] # None => merchants'[m] # None
  BY <1>1 DEF Ingest, TypeOK
<1>3. CASE transactions[t] = None
  <2>1. t = p.transaction_id /\ transactions'[t] = UpsertTransaction(None, p)
    BY <1>1, <1>3 DEF Ingest, TypeOK
  <2>2. transactions'[t].merchant_id = p.merchant_id
    BY <2>1 DEF UpsertTransaction
  <2> QED
    BY <1>1, <1>2, <2>2
<1>4. CASE transactions[t] # None
  <2>1. transactions[t] \in Transaction /\ transactions[t].merchant_id \in MerchantId
    BY <1>4 DEF TypeOK, Transaction
  <2>2. transactions'[t].merchant_id = transactions[t].merchant_id
    BY <1>1, <2>1, UpsertTransactionForward DEF Ingest, TypeOK
  <2> QED
    BY <1>2, <1>4, <2>1, <2>2 DEF MerchantsAreStored
<1> QED
  BY <1>3, <1>4

LEMMA MerchantsStay == Spec => []MerchantsAreStored
<1>1. Init => MerchantsAreStored
  BY DEF Init, MerchantsAreStored
<1>2. TypeOK /\ MerchantsAreStored /\ [Next]_vars => MerchantsAreStored'
  <2>1. TypeOK /\ MerchantsAreStored /\ UNCHANGED vars => MerchantsAreStored'
    BY DEF MerchantsAreStored, vars
  <2> QED
    BY <2>1, MerchantsAreStoredStep DEF Next
<1> QED
  BY <1>1, <1>2, TypeCorrect, PTL DEF Spec

\* There are as many transactions stored as events name, finitely many.
LEMMA StoredIsFinite ==
    ASSUME TypeOK, StatusIsFirstOfHighestRank
    PROVE  IsFiniteSet({t \in TransactionId : transactions[t] # None})
<1> DEFINE stored == {t \in TransactionId : transactions[t] # None}
           f == [i \in DOMAIN payment_events |-> payment_events[i].transaction_id]
<1>1. \A t \in stored : \E i \in DOMAIN payment_events : f[i] = t
  BY DEF StatusIsFirstOfHighestRank, Positions
<1>2. IsFiniteSet(DOMAIN payment_events)
  BY EventsHaveRanks, FS_Interval
<1> DEFINE named == {f[i] : i \in DOMAIN payment_events}
<1>3. f \in Surjection(DOMAIN payment_events, named)
  BY DEF Surjection
<1>4. IsFiniteSet(named) /\ stored \in SUBSET named
  BY <1>1, <1>2, <1>3, FS_Surjection
<1> QED
  BY <1>4, FS_Subset

\* The group of each transaction of A.
GroupsOf(A, created_on, group_by) ==
    [t \in A |-> GroupOf(transactions[t], created_on[t], group_by)]

\* The groups of a summary hold each transaction once.
LEMMA SummaryGroups ==
    ASSUME NEW A, A = Summarised(merchants, transactions, None), IsFiniteSet(A),
           NEW created_on, NEW group_by, NEW g, g = GroupsOf(A, created_on, group_by),
           NEW summary,
           summary = Summary(merchants, transactions, created_on, group_by, None)
    PROVE  /\ \A k : k \in DOMAIN summary <=> \E t \in A : k = g[t]
           /\ \A k \in DOMAIN summary : summary[k] = Cardinality(Members(A, g, {k}))
           /\ \A G \in SUBSET (DOMAIN summary) :
                 SumOver(summary, G) = Cardinality(Members(A, g, G))
<1>1. summary = [k \in {g[t] : t \in A} |-> Cardinality(Members(A, g, {k}))]
  <2>1. {GroupOf(transactions[t], created_on[t], group_by) : t \in A} = {g[t] : t \in A}
    BY DEF GroupsOf
  <2>2. \A k : {t \in A : GroupOf(transactions[t], created_on[t], group_by) = k}
                  = Members(A, g, {k})
    BY DEF Members, GroupsOf
  <2> QED
    BY <2>1, <2>2 DEF Summary
<1>2. g \in Surjection(A, {g[t] : t \in A})
  BY DEF Surjection, GroupsOf
<1>3. IsFiniteSet({g[t] : t \in A})
  BY <1>2, FS_Surjection
<1>4. ASSUME NEW G \in SUBSET (DOMAIN summary)
      PROVE  SumOver(summary, G) = Cardinality(Members(A, g, G))
  <2>1. IsFiniteSet(G) /\ \A k \in G : summary[k] = Cardinality(Members(A, g, {k}))
    BY <1>1, <1>3, FS_Subset
  <2> QED
    BY <2>1, GroupsAddUp
<1> QED
  BY <1>1, <1>4

\* The groups of the summary add up to all transactions, a group without its date is the
\* sum of that group's days, and each listed discrepancy has a reason of its own.
THEOREM ReportsStayComplete == Spec => []ReportsAreComplete
<1>1. ASSUME TypeOK, StatusIsFirstOfHighestRank, MerchantsAreStored,
             NEW created_on \in [TransactionId -> 1..2],
             NEW group_by \in {"merchant", "status"},
             NEW summary,
             summary = Summary(merchants, transactions, created_on, group_by, None),
             NEW days, days = Summary(merchants, transactions, created_on, "date", None)
      PROVE  /\ TotalTransactions(summary)
                   = Cardinality({t \in TransactionId : transactions[t] # None})
             /\ \A k \in DOMAIN summary :
                   summary[k] = SumOver(days, {d \in DOMAIN days : d.row = k.row})
  <2>1. PICK A : A = Summarised(merchants, transactions, None)
    OBVIOUS
  <2>2. A = {t \in TransactionId : transactions[t] # None}
    BY <1>1, <2>1 DEF Summarised, MerchantsAreStored
  <2>3. IsFiniteSet(A)
    BY <1>1, <2>2, StoredIsFinite
  <2>4. PICK g : g = GroupsOf(A, created_on, group_by)
    OBVIOUS
  <2>5. PICK h : h = GroupsOf(A, created_on, "date")
    OBVIOUS
  <2>6. /\ \A k : k \in DOMAIN summary <=> \E t \in A : k = g[t]
        /\ \A k \in DOMAIN summary : summary[k] = Cardinality(Members(A, g, {k}))
        /\ SumOver(summary, DOMAIN summary) = Cardinality(Members(A, g, DOMAIN summary))
    BY <1>1, <2>1, <2>3, <2>4, SummaryGroups
  <2>7. /\ \A k : k \in DOMAIN days <=> \E t \in A : k = h[t]
        /\ \A G \in SUBSET (DOMAIN days) :
              SumOver(days, G) = Cardinality(Members(A, h, G))
    BY <1>1, <2>1, <2>3, <2>5, SummaryGroups
  <2>8. TotalTransactions(summary) = Cardinality(A)
    <3>1. Members(A, g, DOMAIN summary) = A
      BY <2>6 DEF Members
    <3>2. TotalTransactions(summary) = SumOver(summary, DOMAIN summary)
      BY DEF TotalTransactions, SumOver
    <3> QED
      BY <2>6, <3>1, <3>2
  <2>9. ASSUME NEW k \in DOMAIN summary
        PROVE  summary[k] = SumOver(days, {d \in DOMAIN days : d.row = k.row})
    <3> DEFINE G == {d \in DOMAIN days : d.row = k.row}
    <3>3. PICK a \in A : k = g[a]
      BY <2>6
    <3>4. ASSUME NEW t \in A
          PROVE  g[t] = k <=> h[t].row = k.row
      <4>1. /\ g[t] = [row |-> transactions[t], date |-> None]
            /\ k = [row |-> transactions[a], date |-> None]
        BY <1>1, <2>4, <3>3 DEF GroupsOf, GroupOf
      <4>2. h[t] = [row |-> transactions[t], date |-> created_on[t]]
        BY <2>5 DEF GroupsOf, GroupOf
      <4> QED
        BY ONLY <4>1, <4>2
    <3>5. \A t \in A : h[t] \in G <=> h[t].row = k.row
      BY <2>7
    <3> HIDE DEF G
    <3>6. Members(A, g, {k}) = Members(A, h, G)
      BY <3>4, <3>5 DEF Members
    <3>7. G \in SUBSET (DOMAIN days)
      BY DEF G
    <3>8. summary[k] = SumOver(days, G)
      BY <2>6, <2>7, <3>6, <3>7
    <3> QED
      BY <3>8 DEF G
  <2> QED
    BY <2>2, <2>8, <2>9
<1>2. ASSUME TypeOK, StatusIsFirstOfHighestRank, MerchantsAreStored, ListedHaveReasons
      PROVE  ReportsAreComplete
  <2>1. SUFFICES ASSUME NEW created_on \in [TransactionId -> 1..2],
                        NEW group_by \in {"merchant", "status"}
                 PROVE  LET Groups(by) == Summary(merchants, transactions, created_on, by, None)
                            days == Groups("date")
                            Count(d) == days[d]
                        IN  /\ TotalTransactions(Groups(group_by))
                                  = Cardinality({t \in TransactionId : transactions[t] # None})
                            /\ \A k \in DOMAIN Groups(group_by) :
                                  Groups(group_by)[k]
                                      = MapThenSumSet(Count, {d \in DOMAIN days : d.row = k.row})
    BY <1>2, Zenon DEF ReportsAreComplete
  <2> DEFINE By(by) == Summary(merchants, transactions, created_on, by, None)
  <2>2. /\ TotalTransactions(By(group_by))
              = Cardinality({t \in TransactionId : transactions[t] # None})
        /\ \A k \in DOMAIN By(group_by) : By(group_by)[k] =
              SumOver(By("date"), {d \in DOMAIN By("date") : d.row = k.row})
    BY <1>1, <1>2
  <2> QED
    BY <2>2, Zenon DEF SumOver
<1> QED
  BY <1>2, TypeCorrect, HistoryInvAlways, MerchantsStay, DiscrepanciesHaveReasons, PTL
  DEF HistoryInv
=============================================================================
