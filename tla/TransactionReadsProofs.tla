------------------------ MODULE TransactionReadsProofs ------------------------
(* Proofs that reads made of several SELECTs, with commits between them,    *)
(* answer as promised.                                                      *)
EXTENDS TransactionReads, LedgerProofs, SequenceTheorems

-----------------------------------------------------------------------------
(* The readers leave the tables alone, so what holds of the Ledger holds    *)
(* beside them.                                                             *)

LedgerStands == LedgerInv /\ HistoryInv /\ MerchantsAreStored

\* What readers see is the Ledger, event by event.
LEMMA LedgerStandsAlways == ReadsSpec => []LedgerStands
<1>1. ReadsInit => Init
  BY DEF ReadsInit
<1>2. [ReadsNext]_all_vars => [Next]_vars
  BY DEF ReadsNext, Read, Write, GetTxn, SelectTransaction, LoadRelation, ListTxns, CountRows,
         SelectRows, NextPage, Done, all_vars
<1>5. ReadsSpec => Spec
  BY <1>1, <1>2, PTL DEF ReadsSpec, Spec
<1> QED
  BY <1>5, MerchantsStay, HistoryInvAlways, PTL DEF LedgerStands

-----------------------------------------------------------------------------
(* Lists.                                                                   *)

\* A transaction with events has a first one.
LEMMA FirstEvent ==
    ASSUME TypeOK, NEW t \in TransactionId, Positions(t) # {}
    PROVE  First(t) \in Positions(t) /\ \A j \in Positions(t) : First(t) <= j
<1>1. Positions(t) \subseteq Nat
  BY EventsHaveRanks
<1>2. \E i \in Positions(t) : \A j \in Positions(t) : i <= j
  BY <1>1, LeastNatural
<1> QED
  BY <1>2 DEF First

\* Only stored transactions are listed, of which there are finitely many.
LEMMA MatchingIsFinite ==
    ASSUME LedgerStands, NEW q
    PROVE  /\ Matching(q) \subseteq {t \in TransactionId : transactions[t] # None}
           /\ IsFiniteSet(Matching(q)) /\ Cardinality(Matching(q)) \in Nat
<1> DEFINE stored == {t \in TransactionId : transactions[t] # None}
<1>1. Matching(q) \subseteq stored
  BY DEF Matching, Discrepancies
<1>2. IsFiniteSet(stored)
  BY StoredIsFinite DEF LedgerStands, LedgerInv, HistoryInv
<1>6. IsFiniteSet(Matching(q))
  BY <1>1, <1>2, FS_Subset
<1> QED
  BY <1>1, <1>6, FS_CardinalityType

\* An answer to a query holds each row of it once, and no other.
LEMMA AnswersHoldRows ==
    ASSUME NEW S, IsFiniteSet(S), NEW rows \in SetToSeqs(S)
    PROVE  /\ Cardinality(S) \in Nat /\ rows \in [1..Cardinality(S) -> S]
           /\ rows \in Seq(S) /\ Len(rows) = Cardinality(S)
           /\ \A i, j \in 1..Cardinality(S) : i # j => rows[i] # rows[j]
           /\ \A x \in S : \E i \in 1..Cardinality(S) : rows[i] = x
<1>1. Cardinality(S) \in Nat
  BY FS_CardinalityType
<1>2. /\ rows \in [1..Cardinality(S) -> S]
      /\ \A i, j \in 1..Cardinality(S) : i # j => rows[i] # rows[j]
  BY DEF SetToSeqs
<1>3. IsInjective(rows)
  BY <1>2 DEF IsInjective
<1>4. rows \in Injection(1..Cardinality(S), S)
  BY <1>2, <1>3 DEF Injection
<1>5. IsFiniteSet(1..Cardinality(S)) /\ Cardinality(1..Cardinality(S)) = Cardinality(S)
  BY <1>1, FS_Interval
<1>6. rows \in Surjection(1..Cardinality(S), S)
  BY <1>4, <1>5, FS_Injection
<1>7. rows \in Seq(S) /\ Len(rows) = Cardinality(S)
  BY <1>1, <1>2
<1> QED
  BY <1>1, <1>2, <1>6, <1>7 DEF Surjection

\* A page starts after the pages before it; it is full, or the rows end on it.
LEMMA PageIsCut ==
    ASSUME NEW S, IsFiniteSet(S), NEW rows \in SetToSeqs(S),
           NEW n \in Nat, n >= 1, NEW size \in Nat \ {0}, NEW k, k = (n - 1) * size
    PROVE  /\ k \in Nat /\ n * size = k + size
           /\ PageOf(rows, n, size) \in Seq(S)
           /\ Len(PageOf(rows, n, size)) \in 0..size
           /\ Len(PageOf(rows, n, size)) = size \/ Cardinality(S) <= k + Len(PageOf(rows, n, size))
           /\ \A i \in (k + 1)..(k + size) : i <= Cardinality(S) =>
                 rows[i] \in Range(PageOf(rows, n, size))
<1> DEFINE c == Cardinality(S)
           last == IF k + size < c THEN k + size ELSE c
           cut == SubSeq(rows, k + 1, last)
<1>1. k \in Nat /\ n * size = k + size
  OBVIOUS
<1>2. c \in Nat /\ rows \in [1..c -> S] /\ Len(rows) = c
  BY AnswersHoldRows
<1>3. PageOf(rows, n, size) = cut
  BY <1>1, <1>2 DEF PageOf
<1> HIDE DEF c
<1>4. last \in Nat /\ last <= c /\ last <= k + size /\ (last = k + size \/ last = c)
  BY <1>1, <1>2
<1> HIDE DEF last
<1>5. \A i \in (k + 1)..last : rows[i] \in S
  BY <1>1, <1>2, <1>4
<1>6. /\ cut \in Seq(S)
      /\ Len(cut) = IF k + 1 <= last THEN last - k ELSE 0
      /\ \A i \in 1..(last - k) : cut[i] = rows[k + i]
  <2>1. k + 1 \in Int /\ last \in Int
    BY <1>1, <1>4
  <2>2. /\ cut \in Seq(S)
        /\ Len(cut) = IF k + 1 <= last THEN last - (k + 1) + 1 ELSE 0
        /\ \A i \in 1..(last - (k + 1) + 1) : cut[i] = rows[(k + 1) + i - 1]
    BY <1>5, <2>1, SubSeqProperties
  <2> QED
    BY <1>1, <1>4, <2>2
<1> HIDE DEF cut
<1>7. Len(cut) \in 0..size /\ (Len(cut) = size \/ c <= k + Len(cut))
  BY <1>1, <1>2, <1>4, <1>6
<1>8. ASSUME NEW i \in (k + 1)..(k + size), i <= c
      PROVE  rows[i] \in Range(cut)
  <2>1. i - k \in 1..(last - k) /\ i - k \in 1..Len(cut) /\ k + (i - k) = i
    BY <1>1, <1>2, <1>4, <1>6, <1>8
  <2>2. DOMAIN cut = 1..Len(cut)
    BY <1>6
  <2>3. cut[i - k] = rows[i]
    BY <1>6, <2>1
  <2> QED
    BY <2>1, <2>2, <2>3 DEF Range
<1> QED
  BY <1>1, <1>3, <1>6, <1>7, <1>8 DEF c

\* The events of a transaction are finitely many.
LEMMA EventsAreFinite ==
    ASSUME TypeOK, NEW t \in TransactionId
    PROVE  IsFiniteSet(EventsOf(t)) /\ EventsOf(t) \subseteq PaymentEvent
<1> DEFINE f == [i \in Positions(t) |-> payment_events[i]]
<1>1. Positions(t) \subseteq 1..Len(payment_events) /\ Len(payment_events) \in Nat
  BY EventsHaveRanks
<1>2. IsFiniteSet(Positions(t))
  <2>1. IsFiniteSet(1..Len(payment_events))
    BY <1>1, FS_Interval
  <2> QED
    BY <1>1, <2>1, FS_Subset
<1>3. f \in Surjection(Positions(t), EventsOf(t))
  BY DEF Surjection, EventsOf
<1>4. IsFiniteSet(EventsOf(t))
  BY <1>2, <1>3, FS_Surjection
<1>5. \A i \in Positions(t) : payment_events[i] \in PaymentEvent
  BY <1>1 DEF TypeOK
<1> QED
  BY <1>4, <1>5 DEF EventsOf

-----------------------------------------------------------------------------
(* The read that is in progress.                                            *)

Listing == {"count", "rows", "page"}

\* A read has parameters as long as it lists, and a row once it has one to complete.
ReaderStands ==
    /\ ReadsTypeOK
    /\ rpc = "select_transaction" => detail.id \in TransactionId
    /\ rpc \in {"relations", "detail"} =>
          detail.id \in TransactionId /\ detail.transaction \in Transaction
    /\ rpc = "detail" => pending = {}
    /\ rpc \in Listing => query \in Queries /\ page >= 1
    /\ rpc \notin Listing => query = None

LEMMA QueriesHavePages ==
    ASSUME NEW q \in Queries
    PROVE  q # None /\ q.page_size \in Nat \ {0} /\ q.list \in Lists
BY QueriesAssumption DEF Query

LEMMA GetTxnType ==
    ASSUME ReaderStands, NEW t \in TransactionId, GetTxn(t)
    PROVE  ReaderStands'
<1>1. /\ rpc' = "select_transaction" /\ detail' = [NoDetail EXCEPT !.id = t] /\ query = None
      /\ UNCHANGED <<vars, pending, query, page, total, items, history>>
  BY DEF GetTxn, ReaderStands, Listing
<1>2. detail' = [id |-> t, transaction |-> None, merchant |-> None,
                 events |-> <<>>, reconciliation |-> None]
  BY <1>1 DEF NoDetail
<1>3. /\ detail'.id = t
      /\ detail' \in [id : TransactionId \cup {None}, transaction : Transaction \cup {None},
                      merchant : MerchantName \cup {None}, events : Seq(PaymentEvent),
                      reconciliation : ReconciliationRecord \cup {None}]
  BY <1>2
<1> QED
  BY <1>1, <1>3
  DEF ReaderStands, ReadsTypeOK, TypeOK, vars, history, Listing

LEMMA SelectTransactionType ==
    ASSUME ReaderStands, SelectTransaction
    PROVE  ReaderStands'
<1> DEFINE row == transactions[detail.id]
<1>1. /\ rpc = "select_transaction" /\ detail.id \in TransactionId /\ query = None
      /\ row \in Transaction \cup {None}
      /\ UNCHANGED <<vars, query, page, total, items, history>>
  BY DEF SelectTransaction, ReaderStands, ReadsTypeOK, TypeOK, Listing
<1>2. CASE row = None
  <2>1. rpc' = "idle" /\ pending' = {} /\ detail' = NoDetail
    BY <1>2 DEF SelectTransaction
  <2> QED
    BY <1>1, <2>1 DEF ReaderStands, ReadsTypeOK, TypeOK, vars, history, NoDetail, Listing
<1>3. CASE row # None
  <2>1. /\ rpc' = "relations" /\ pending' = Relations
        /\ detail' = [detail EXCEPT !.transaction = row]
    BY <1>3 DEF SelectTransaction
  <2>2. row \in Transaction
    BY <1>1, <1>3
  <2> HIDE DEF row
  <2>3. /\ detail'.id = detail.id /\ detail'.transaction = row
        /\ detail' \in [id : TransactionId \cup {None}, transaction : Transaction \cup {None},
                        merchant : MerchantName \cup {None}, events : Seq(PaymentEvent),
                        reconciliation : ReconciliationRecord \cup {None}]
    BY <2>1, <2>2 DEF ReaderStands, ReadsTypeOK
  <2> QED
    BY <1>1, <2>1, <2>2, <2>3
    DEF ReaderStands, ReadsTypeOK, TypeOK, vars, history, Listing
<1> QED
  BY <1>2, <1>3

LEMMA LoadRelationType ==
    ASSUME ReaderStands, NEW r \in Relations, LoadRelation(r)
    PROVE  ReaderStands'
<1>1. /\ rpc = "relations" /\ detail.id \in TransactionId /\ detail.transaction \in Transaction
      /\ query = None /\ detail.transaction.merchant_id \in MerchantId
      /\ UNCHANGED <<vars, query, page, total, items, history>>
      /\ pending' = pending \ {r}
      /\ rpc' = IF pending' = {} THEN "detail" ELSE "relations"
  BY DEF LoadRelation, ReaderStands, Listing, Transaction
<1> DEFINE Detail == [id : TransactionId \cup {None}, transaction : Transaction \cup {None},
                      merchant : MerchantName \cup {None}, events : Seq(PaymentEvent),
                      reconciliation : ReconciliationRecord \cup {None}]
<1>2. detail \in Detail /\ TypeOK
  BY DEF ReaderStands, ReadsTypeOK
<1>3. detail' \in Detail /\ detail'.id = detail.id /\ detail'.transaction = detail.transaction
  <2>1. CASE r = "merchant"
    <3>1. detail' = [detail EXCEPT !.merchant = merchants[detail.transaction.merchant_id]]
      BY <2>1 DEF LoadRelation
    <3>2. merchants[detail.transaction.merchant_id] \in MerchantName \cup {None}
      BY <1>1, <1>2 DEF TypeOK
    <3> QED
      BY <1>2, <3>1, <3>2
  <2>2. CASE r = "events"
    <3>1. PICK rows \in Histories(detail.id) : detail' = [detail EXCEPT !.events = rows]
      BY <2>2 DEF LoadRelation
    <3>2. rows \in SetToSeqs(EventsOf(detail.id))
      BY DEF Histories, Answers
    <3>3. rows \in [1..Cardinality(EventsOf(detail.id)) -> EventsOf(detail.id)]
          /\ Cardinality(EventsOf(detail.id)) \in Nat
      BY <1>1, <1>2, <3>2, EventsAreFinite, AnswersHoldRows
    <3>4. rows \in [1..Cardinality(EventsOf(detail.id)) -> PaymentEvent]
      BY <1>1, <1>2, <3>3, EventsAreFinite
    <3>5. rows \in Seq(PaymentEvent)
      BY <3>3, <3>4
    <3> QED
      BY <1>2, <3>1, <3>5
  <2>3. CASE r = "reconciliation"
    <3>1. detail' = [detail EXCEPT !.reconciliation = reconciliation[detail.id]]
      BY <2>3 DEF LoadRelation
    <3>2. reconciliation[detail.id] \in ReconciliationRecord \cup {None}
      BY <1>1, <1>2 DEF TypeOK
    <3> QED
      BY <1>2, <3>1, <3>2
  <2> QED
    BY <2>1, <2>2, <2>3 DEF Relations
<1> QED
  BY <1>1, <1>3 DEF ReaderStands, ReadsTypeOK, TypeOK, vars, history, Listing

LEMMA ListsType ==
    ASSUME LedgerStands, ReaderStands,
           (\E q \in Queries : ListTxns(q)) \/ CountRows \/ SelectRows \/ NextPage \/ Done
    PROVE  ReaderStands'
<1>1. /\ \A q : Matching(q) \subseteq TransactionId /\ Cardinality(Matching(q)) \in Nat
      /\ \A q : IsFiniteSet(Matching(q))
  BY MatchingIsFinite
<1> USE DEF ReaderStands, ReadsTypeOK, TypeOK, vars, Listing
<1>2. CASE \E q \in Queries : ListTxns(q)
  BY <1>1, <1>2 DEF ListTxns
<1>3. CASE CountRows
  BY <1>1, <1>3 DEF CountRows, history
<1>4. CASE SelectRows
  <2>1. query \in Queries /\ query.page_size \in Nat \ {0} /\ page >= 1 /\ page \in Nat
    BY <1>4, QueriesHavePages DEF SelectRows
  <2>2. PICK rows \in SetToSeqs(Matching(query)) : items' = PageOf(rows, page, query.page_size)
    BY <1>4 DEF SelectRows, Answers
  <2>3. items' \in Seq(Matching(query))
    BY <1>1, <2>1, <2>2, PageIsCut
  <2>4. items' \in Seq(TransactionId) /\ Range(items') \subseteq TransactionId
    BY <1>1, <2>3 DEF Range
  <2> QED
    BY <1>4, <2>4 DEF SelectRows
<1>5. CASE NextPage
  BY <1>5 DEF NextPage, history
<1>6. CASE Done
  BY <1>6 DEF Done, NoDetail
<1> QED
  BY <1>2, <1>3, <1>4, <1>5, <1>6

LEMMA WriteType ==
    ASSUME LedgerStands, LedgerStands', ReaderStands, Write
    PROVE  ReaderStands'
<1>1. /\ UNCHANGED <<rpc, pending, detail, query, page, total, items, collected>> /\ TypeOK'
  BY DEF Write, LedgerStands, LedgerInv
<1>2. owed' \subseteq TransactionId /\ left' \in Nat
  <2>1. CASE query = None
    BY <2>1 DEF Write, ReaderStands, ReadsTypeOK
  <2>2. CASE query # None
    <3> DEFINE gone == Matching(query) \ Matching(query)'
    <3>1. owed' = owed \ gone /\ left' = left + Cardinality(gone)
      BY <2>2 DEF Write
    <3>2. IsFiniteSet(Matching(query))
      BY MatchingIsFinite
    <3>3. IsFiniteSet(gone)
      BY <3>2, FS_Difference
    <3>4. Cardinality(gone) \in Nat
      BY <3>3, FS_CardinalityType
    <3> QED
      BY <3>1, <3>4 DEF ReaderStands, ReadsTypeOK
  <2> QED
    BY <2>1, <2>2
<1> QED
  BY <1>1, <1>2 DEF ReaderStands, ReadsTypeOK, Listing

LEMMA ReaderStandsAlways == ReadsSpec => []ReaderStands
<1>1. ReadsInit => ReaderStands
  <2> SUFFICES ASSUME ReadsInit PROVE ReaderStands
    OBVIOUS
  <2>1. TypeOK
    BY DEF ReadsInit, Init, TypeOK
  <2>2. /\ detail.events = <<>>
        /\ detail \in [id : TransactionId \cup {None}, transaction : Transaction \cup {None},
                       merchant : MerchantName \cup {None}, events : Seq(PaymentEvent),
                       reconciliation : ReconciliationRecord \cup {None}]
    BY DEF ReadsInit, NoDetail
  <2> QED
    BY <2>1, <2>2 DEF ReadsInit, ReaderStands, ReadsTypeOK, Listing
<1>2. LedgerStands /\ LedgerStands' /\ ReaderStands /\ [ReadsNext]_all_vars => ReaderStands'
  <2> SUFFICES ASSUME LedgerStands, LedgerStands', ReaderStands, [ReadsNext]_all_vars
               PROVE  ReaderStands'
    OBVIOUS
  <2>1. CASE Read
    BY <2>1, GetTxnType, SelectTransactionType, LoadRelationType, ListsType DEF Read
  <2>2. CASE Write
    BY <2>2, WriteType
  <2>3. CASE UNCHANGED all_vars
    BY <2>3 DEF all_vars, vars, reader, history, ReaderStands, ReadsTypeOK, TypeOK, Listing
  <2> QED
    BY <2>1, <2>2, <2>3 DEF ReadsNext
<1> QED
  BY <1>1, <1>2, LedgerStandsAlways, PTL DEF ReadsSpec

\* Tables, answers and the state of a read keep their types; what COUNT counts and what
\* pages hold is finite whatever the set of transactions.
THEOREM ReadsTypeCorrect == ReadsSpec => []ReadsTypeOK
<1>1. ReaderStands => ReadsTypeOK
  BY DEF ReaderStands
<1> QED
  BY <1>1, ReaderStandsAlways, PTL

-----------------------------------------------------------------------------
(* A commit between two SELECTs.                                            *)

LEMMA ForwardTwice ==
    ASSUME NEW a \in Transaction, NEW b \in Transaction, NEW c \in Transaction,
           Forward(a, b), Forward(b, c)
    PROVE  Forward(a, c)
<1>1. a # None /\ b # None
  BY NoneAssumption DEF Transaction
<1>2. \A row \in {a, b, c} : STATUS_RANK[row.current_status] \in 0..2
  BY RankOfStatus DEF Transaction
<1> QED
  BY <1>1, <1>2 DEF Forward, should_advance

\* A stored row stays, with its merchant, its events and their order; its status does not
\* go back.
LEMMA CommitKeepsRows ==
    ASSUME LedgerStands, Next, NEW t \in TransactionId, transactions[t] # None
    PROVE  /\ transactions'[t] \in Transaction /\ transactions'[t] # None
           /\ transactions'[t].merchant_id = transactions[t].merchant_id
           /\ Forward(transactions[t], transactions'[t])
           /\ Positions(t) # {} /\ Positions(t) \subseteq Positions(t)'
           /\ \A i \in Positions(t) : payment_events'[i] = payment_events[i] /\ Type(i)' = Type(i)
           /\ First(t) \in Positions(t) /\ First(t)' = First(t)
<1> USE DEF LedgerStands, LedgerInv, HistoryInv
<1>1. PICK p \in Payload : Ingest(p)
  BY DEF Next
<1>2. PICK n : n = Len(payment_events) + 1
  OBVIOUS
<1>3. p \in PaymentEvent /\ p.transaction_id \in TransactionId
  BY PayloadAssumption DEF PaymentEvent
<1>4. transactions[t] \in Transaction
  BY DEF TypeOK
<1>5. transactions'[t] \in {transactions[t], UpsertTransaction(transactions[t], p)}
  BY <1>1, <1>3 DEF Ingest, TypeOK
<1>6. /\ transactions'[t] \in Transaction
      /\ transactions'[t].merchant_id = transactions[t].merchant_id
      /\ Forward(transactions[t], transactions'[t])
  BY <1>3, <1>4, <1>5, UpsertTransactionType, UpsertTransactionForward DEF Forward
<1>7. transactions'[t] # None
  BY <1>6, NoneAssumption DEF Transaction
<1>8. Positions(t) # {} /\ Positions(t) \subseteq 1..(n - 1) /\ n \in Nat
  BY <1>2, EventsHaveRanks DEF StatusIsFirstOfHighestRank
<1>9. /\ Positions(t)' \in {Positions(t), Positions(t) \cup {n}}
      /\ \A i \in 1..(n - 1) : payment_events'[i] = payment_events[i] /\ Type(i)' = Type(i)
  BY <1>1, <1>2, LogGrows
<1>10. First(t) \in Positions(t) /\ \A j \in Positions(t) : First(t) <= j
  BY <1>8, FirstEvent
<1>11. First(t)' = First(t)
  <2>1. First(t) \in Positions(t)' /\ \A j \in Positions(t)' : First(t) <= j
    BY <1>8, <1>9, <1>10
  <2>2. Positions(t)' \subseteq Nat
    BY <1>8, <1>9
  <2>3. \A i \in Positions(t)' : (\A j \in Positions(t)' : i <= j) => i = First(t)
    BY <2>1, <2>2
  <2>4. First(t)' = CHOOSE i \in Positions(t)' : \A j \in Positions(t)' : i <= j
    BY DEF First
  <2> QED
    BY <2>1, <2>3, <2>4
<1> QED
  BY <1>6, <1>7, <1>8, <1>9, <1>10, <1>11

-----------------------------------------------------------------------------
(* Detail.                                                                  *)

\* What has been loaded is as late as the row it was loaded for, or later.
Loaded(answer, missing) ==
    /\ "merchant" \notin missing => answer.merchant # None
    /\ "events" \notin missing =>
          \E i \in DOMAIN answer.events :
              EVENT_TO_STATUS[answer.events[i].event_type] = answer.transaction.current_status
    /\ "reconciliation" \notin missing =>
          /\ answer.reconciliation # None
          /\ STATUS_RANK[answer.reconciliation.payment_status]
                >= STATUS_RANK[answer.transaction.current_status]

\* A row that has been read is no further than the one that is stored, and the event
\* behind it is in the log.
DetailStands ==
    rpc \in {"relations", "detail"} =>
        /\ transactions[detail.id] # None
        /\ transactions[detail.id].merchant_id = detail.transaction.merchant_id
        /\ Forward(detail.transaction, transactions[detail.id])
        /\ \E i \in Positions(detail.id) :
              EVENT_TO_STATUS[Type(i)] = detail.transaction.current_status
        /\ Loaded(detail, pending)

LEMMA DetailWrite ==
    ASSUME LedgerStands, ReaderStands, DetailStands, Write
    PROVE  DetailStands'
<1> SUFFICES ASSUME rpc \in {"relations", "detail"} PROVE DetailStands'
  BY DEF Write, DetailStands
<1>1. /\ Next /\ rpc' = rpc /\ pending' = pending /\ detail' = detail
      /\ detail.id \in TransactionId /\ detail.transaction \in Transaction
  BY DEF Write, ReaderStands
<1>2. PICK t \in TransactionId : t = detail.id
  BY <1>1
<1>3. PICK row \in Transaction : row = detail.transaction
  BY <1>1
<1>4. /\ transactions[t] # None /\ transactions[t].merchant_id = row.merchant_id
      /\ Forward(row, transactions[t])
      /\ \E i \in Positions(t) : EVENT_TO_STATUS[Type(i)] = row.current_status
  BY <1>2, <1>3 DEF DetailStands
<1>5. transactions[t] \in Transaction
  BY <1>4 DEF LedgerStands, LedgerInv, TypeOK
<1>6. /\ transactions'[t] # None /\ transactions'[t].merchant_id = row.merchant_id
      /\ Forward(row, transactions'[t])
      /\ \E i \in Positions(t)' : EVENT_TO_STATUS[Type(i)'] = row.current_status
  BY <1>1, <1>4, <1>5, CommitKeepsRows, ForwardTwice
<1>7. Positions(detail.id)' = Positions(t)'
  BY <1>1, <1>2 DEF Positions
<1> QED
  BY <1>1, <1>2, <1>3, <1>6, <1>7 DEF DetailStands

LEMMA DetailSelect ==
    ASSUME LedgerStands, ReaderStands, SelectTransaction
    PROVE  DetailStands'
<1> DEFINE t == detail.id
           row == transactions[t]
<1>1. /\ t \in TransactionId /\ UNCHANGED vars
      /\ detail \in [id : TransactionId \cup {None}, transaction : Transaction \cup {None},
                     merchant : MerchantName \cup {None}, events : Seq(PaymentEvent),
                     reconciliation : ReconciliationRecord \cup {None}]
  BY DEF SelectTransaction, ReaderStands, ReadsTypeOK
<1>2. CASE row = None
  BY <1>2 DEF SelectTransaction, DetailStands
<1>3. CASE row # None
  <2>1. /\ pending' = Relations /\ detail' = [detail EXCEPT !.transaction = row]
        /\ transactions' = transactions /\ payment_events' = payment_events
    BY <1>1, <1>3 DEF SelectTransaction, vars
  <2>2. detail'.id = t /\ detail'.transaction = row
    BY <1>1, <2>1
  <2>3. \E i \in Positions(t) : EVENT_TO_STATUS[Type(i)] = row.current_status
    BY <1>1, <1>3 DEF LedgerStands, HistoryInv, StatusIsFirstOfHighestRank
  <2>4. PICK i \in Positions(t) : EVENT_TO_STATUS[Type(i)] = row.current_status
    BY <2>3
  <2>5. i \in Positions(detail.id)' /\ EVENT_TO_STATUS[Type(i)'] = row.current_status
    BY <2>1, <2>2, <2>4 DEF Positions, Type
  <2>6. Forward(row, row) /\ Loaded(detail', Relations)
    BY DEF Forward, Loaded, Relations
  <2> QED
    BY <1>3, <2>1, <2>2, <2>5, <2>6 DEF DetailStands
<1> QED
  BY <1>2, <1>3

LEMMA DetailLoad ==
    ASSUME LedgerStands, ReaderStands, DetailStands, NEW r \in Relations, LoadRelation(r)
    PROVE  DetailStands'
<1> DEFINE t == detail.id
           row == detail.transaction
           Detail == [id : TransactionId \cup {None}, transaction : Transaction \cup {None},
                      merchant : MerchantName \cup {None}, events : Seq(PaymentEvent),
                      reconciliation : ReconciliationRecord \cup {None}]
<1> USE DEF LedgerStands, LedgerInv, HistoryInv
<1>1. /\ rpc = "relations" /\ pending' = pending \ {r} /\ UNCHANGED vars
      /\ t \in TransactionId /\ row \in Transaction /\ detail \in Detail /\ TypeOK
  BY DEF LoadRelation, ReaderStands, ReadsTypeOK
<1>2. /\ transactions[t] # None /\ transactions[t].merchant_id = row.merchant_id
      /\ Forward(row, transactions[t]) /\ Loaded(detail, pending)
  BY <1>1 DEF DetailStands
<1>3. PICK i \in Positions(t) : EVENT_TO_STATUS[Type(i)] = row.current_status
  BY <1>1 DEF DetailStands
<1>4. detail'.id = t /\ detail'.transaction = row /\ Loaded(detail', pending \ {r})
  <2>1. CASE r = "merchant"
    <3>1. detail' = [detail EXCEPT !.merchant = merchants[row.merchant_id]]
      BY <2>1 DEF LoadRelation
    <3>2. merchants[row.merchant_id] # None
      BY <1>1, <1>2 DEF MerchantsAreStored
    <3> QED
      BY <1>1, <1>2, <2>1, <3>1, <3>2 DEF Loaded
  <2>2. CASE r = "events"
    <3>1. PICK rows \in SetToSeqs(EventsOf(t)) : detail' = [detail EXCEPT !.events = rows]
      BY <2>2 DEF LoadRelation, Histories, Answers
    <3>2. IsFiniteSet(EventsOf(t)) /\ payment_events[i] \in EventsOf(t)
      BY <1>1, EventsAreFinite DEF EventsOf
    <3>3. \E j \in DOMAIN rows : rows[j] = payment_events[i]
      BY <3>2, AnswersHoldRows
    <3>4. \E j \in DOMAIN rows : EVENT_TO_STATUS[rows[j].event_type] = row.current_status
      BY <1>3, <3>3 DEF Type
    <3> QED
      BY <1>1, <1>2, <2>2, <3>1, <3>4 DEF Loaded
  <2>3. CASE r = "reconciliation"
    <3>1. detail' = [detail EXCEPT !.reconciliation = reconciliation[t]]
      BY <2>3 DEF LoadRelation
    <3>2. /\ reconciliation[t] # None
          /\ reconciliation[t].payment_status = transactions[t].current_status
      BY <1>1, <1>2 DEF MirrorsStatus
    <3>3. transactions[t] \in Transaction /\ row # None
      BY <1>1, <1>2, NoneAssumption DEF TypeOK, Transaction
    <3>4. STATUS_RANK[transactions[t].current_status] >= STATUS_RANK[row.current_status]
      BY <1>1, <1>2, <3>3, RankOfStatus DEF Forward, should_advance, Transaction
    <3> QED
      BY <1>1, <1>2, <2>3, <3>1, <3>2, <3>4 DEF Loaded
  <2> QED
    BY <2>1, <2>2, <2>3 DEF Relations
<1>5. /\ transactions' = transactions
      /\ i \in Positions(detail.id)' /\ EVENT_TO_STATUS[Type(i)'] = row.current_status
  BY <1>1, <1>3, <1>4 DEF vars, Positions, Type
<1> QED
  BY <1>1, <1>2, <1>4, <1>5 DEF DetailStands

\* The history is loaded in order, and stays as it was loaded.
LEMMA ChronologyStep ==
    ASSUME ReaderStands, HistoryIsChronological, [ReadsNext]_all_vars
    PROVE  HistoryIsChronological'
<1>1. detail \in [id : TransactionId \cup {None}, transaction : Transaction \cup {None},
                  merchant : MerchantName \cup {None}, events : Seq(PaymentEvent),
                  reconciliation : ReconciliationRecord \cup {None}]
  BY DEF ReaderStands, ReadsTypeOK
<1>2. CASE detail'.events = detail.events
  BY <1>2 DEF HistoryIsChronological
<1>3. CASE detail'.events = <<>>
  BY <1>3 DEF HistoryIsChronological
<1>4. CASE LoadRelation("events")
  <2>1. detail.id \in TransactionId /\ TypeOK
    BY <1>4 DEF LoadRelation, ReaderStands, ReadsTypeOK
  <2>2. PICK rows \in Histories(detail.id) : detail' = [detail EXCEPT !.events = rows]
    BY <1>4 DEF LoadRelation
  <2>3. detail'.events = rows
    BY <1>1, <2>2
  <2>4. /\ rows \in SetToSeqs(EventsOf(detail.id))
        /\ \A i, j \in DOMAIN rows : i < j => ~(StoredTimestamp(rows[j]) < StoredTimestamp(rows[i]))
    BY DEF Histories, Answers
  <2>5. /\ IsFiniteSet(EventsOf(detail.id)) /\ EventsOf(detail.id) \subseteq PaymentEvent
    BY <2>1, EventsAreFinite
  <2>6. /\ Cardinality(EventsOf(detail.id)) \in Nat
        /\ rows \in [1..Cardinality(EventsOf(detail.id)) -> EventsOf(detail.id)]
    BY <2>4, <2>5, AnswersHoldRows
  <2>7. \A i \in DOMAIN rows : i \in Nat /\ rows[i].event_id \in EventId
    BY <2>5, <2>6 DEF PaymentEvent
  <2>8. \A e \in EventId : Timestamp[e].instant \in Int /\ Timestamp[e].offset \in Int
    BY QueriesAssumption
  <2>9. ASSUME NEW i \in DOMAIN rows, NEW j \in DOMAIN rows,
               Timestamp[rows[i].event_id].offset = Timestamp[rows[j].event_id].offset,
               Timestamp[rows[i].event_id].instant < Timestamp[rows[j].event_id].instant
        PROVE  i < j
    <3>1. i # j
      BY <2>7, <2>8, <2>9
    <3>2. StoredTimestamp(rows[i]) < StoredTimestamp(rows[j])
      BY <2>7, <2>8, <2>9 DEF StoredTimestamp
    <3> QED
      BY <2>4, <2>7, <3>1, <3>2
  <2> QED
    BY <2>3, <2>9 DEF HistoryIsChronological
<1>5. CASE LoadRelation("merchant") \/ LoadRelation("reconciliation")
  BY <1>1, <1>2, <1>5 DEF LoadRelation
<1>6. CASE SelectTransaction
  BY <1>1, <1>2, <1>3, <1>6 DEF SelectTransaction, NoDetail
<1>7. CASE (\E t \in TransactionId : GetTxn(t)) \/ Done
  BY <1>3, <1>7 DEF GetTxn, Done, NoDetail
<1>8. CASE (\E q \in Queries : ListTxns(q)) \/ CountRows \/ SelectRows \/ NextPage \/ Write
  BY <1>2, <1>8 DEF ListTxns, CountRows, SelectRows, NextPage, Write
<1>9. CASE UNCHANGED all_vars
  BY <1>2, <1>9 DEF all_vars, reader
<1> QED
  BY <1>4, <1>5, <1>6, <1>7, <1>8, <1>9 DEF ReadsNext, Read, Relations

LEMMA DetailStep ==
    ASSUME LedgerStands, ReaderStands, DetailStands, [ReadsNext]_all_vars
    PROVE  DetailStands'
<1>1. CASE Write
  BY <1>1, DetailWrite
<1>2. CASE SelectTransaction
  BY <1>2, DetailSelect
<1>3. CASE \E r \in Relations : LoadRelation(r)
  BY <1>3, DetailLoad
<1>4. CASE (\E t \in TransactionId : GetTxn(t)) \/ (\E q \in Queries : ListTxns(q)) \/ CountRows
           \/ SelectRows \/ NextPage \/ Done
  <2>1. rpc' \notin {"relations", "detail"}
    BY <1>4 DEF GetTxn, ListTxns, CountRows, SelectRows, NextPage, Done
  <2> QED
    BY <2>1 DEF DetailStands
<1>5. CASE UNCHANGED all_vars
  BY <1>5 DEF all_vars, vars, reader, DetailStands, Positions, Type
<1> QED
  BY <1>1, <1>2, <1>3, <1>4, <1>5 DEF ReadsNext, Read

\* However commits fall between its SELECTs, a detail has its merchant and its
\* reconciliation row, shows the event behind its status, and is in order.
THEOREM DetailsAreBacked == ReadsSpec => []DetailIsBacked
<1>1. ReadsInit => DetailStands /\ HistoryIsChronological
  BY DEF ReadsInit, NoDetail, DetailStands, HistoryIsChronological
<1>2. ReaderStands /\ DetailStands /\ HistoryIsChronological => DetailIsBacked
  BY DEF ReaderStands, DetailStands, DetailIsBacked, Loaded
<1> QED
  BY <1>1, <1>2, LedgerStandsAlways, ReaderStandsAlways, DetailStep, ChronologyStep, PTL
  DEF ReadsSpec

-----------------------------------------------------------------------------
(* Pages.                                                                   *)

ListsAreFinite == \A q \in Queries : IsFiniteSet(Matching(q))

\* Between COUNT and the rows, rows leave the list only as left counts them.
PagesStand ==
    /\ rpc = "rows" => total <= Cardinality(Matching(query)) + left
    /\ PageCoversTotal

LEMMA CommitMovesRows ==
    ASSUME LedgerStands, ListsAreFinite', ReaderStands, Write, rpc \in Listing,
           NEW q, q = query, NEW gone, gone = Matching(q) \ Matching(q)'
    PROVE  /\ q \in Queries /\ query' = q /\ Matching(query)' = Matching(q)'
           /\ IsFiniteSet(Matching(q)) /\ IsFiniteSet(Matching(q)') /\ IsFiniteSet(gone)
           /\ Cardinality(gone) \in Nat /\ Cardinality(Matching(q)') \in Nat
           /\ owed' = owed \ gone /\ left' = left + Cardinality(gone)
           /\ Cardinality(Matching(q)) <= Cardinality(Matching(q)') + Cardinality(gone)
<1>1. q \in Queries /\ q # None /\ query' = q
  BY QueriesAssumption DEF Write, ReaderStands
<1>2. Matching(query)' = Matching(q)'
  BY <1>1 DEF Matching
<1>3. IsFiniteSet(Matching(q)) /\ Cardinality(Matching(q)) \in Nat
  BY MatchingIsFinite
<1>4. IsFiniteSet(Matching(q)')
  BY <1>1 DEF ListsAreFinite
<1> DEFINE old == Matching(q)
           new == Matching(q)'
<1>5. IsFiniteSet(gone) /\ Cardinality(gone) = Cardinality(old) - Cardinality(old \cap new)
  BY <1>3, FS_Difference
<1>6. IsFiniteSet(old \cap new) /\ Cardinality(old \cap new) <= Cardinality(new)
  <2>1. old \cap new \in SUBSET new
    OBVIOUS
  <2> QED
    BY <1>4, <2>1, FS_Subset
<1>7. /\ Cardinality(gone) \in Nat /\ Cardinality(new) \in Nat
      /\ Cardinality(old \cap new) \in Nat
  BY <1>4, <1>5, <1>6, FS_CardinalityType
<1>8. owed' = owed \ gone /\ left' = left + Cardinality(gone)
  BY <1>1, <1>2 DEF Write
<1> QED
  BY <1>1, <1>2, <1>3, <1>4, <1>5, <1>6, <1>7, <1>8

LEMMA MatchingStays ==
    ASSUME UNCHANGED <<vars, query>>
    PROVE  Matching(query)' = Matching(query)
BY DEF vars, Matching, created_at, First, Positions

LEMMA PagesStep ==
    ASSUME LedgerStands, ListsAreFinite', ReaderStands, PagesStand, [ReadsNext]_all_vars
    PROVE  PagesStand'
<1>1. CASE SelectRows
  <2> DEFINE k == (page - 1) * query.page_size
  <2>1. /\ query \in Queries /\ query.page_size \in Nat \ {0} /\ page \in Nat /\ page >= 1
        /\ rpc = "rows" /\ rpc' = "page" /\ UNCHANGED <<query, page, total, left>>
        /\ total \in Nat /\ left \in Nat
    BY <1>1, QueriesHavePages DEF SelectRows, ReaderStands, ReadsTypeOK, Listing
  <2>2. PICK rows \in SetToSeqs(Matching(query)) : items' = PageOf(rows, page, query.page_size)
    BY <1>1 DEF SelectRows, Answers
  <2>3. IsFiniteSet(Matching(query)) /\ Cardinality(Matching(query)) \in Nat
    BY MatchingIsFinite
  <2>4. /\ k \in Nat /\ Len(PageOf(rows, page, query.page_size)) \in 0..query.page_size
        /\ \/ Len(PageOf(rows, page, query.page_size)) = query.page_size
           \/ Cardinality(Matching(query)) <= k + Len(PageOf(rows, page, query.page_size))
    BY <2>1, <2>3, PageIsCut
  <2>5. total <= Cardinality(Matching(query)) + left
    BY <2>1 DEF PagesStand
  <2>6. /\ Len(items') \in Nat
        /\ Len(items') = query.page_size \/ Cardinality(Matching(query)) <= k + Len(items')
    BY <2>1, <2>2, <2>4
  <2> QED
    BY <2>1, <2>3, <2>4, <2>5, <2>6 DEF PagesStand, PageCoversTotal
<1>2. CASE Write /\ rpc \in Listing
  <2>1. PICK q, gone : q = query /\ gone = Matching(q) \ Matching(q)'
    OBVIOUS
  <2>2. /\ query' = q /\ Matching(query)' = Matching(q)' /\ left' = left + Cardinality(gone)
        /\ Cardinality(gone) \in Nat /\ Cardinality(Matching(q)') \in Nat
        /\ Cardinality(Matching(q)) <= Cardinality(Matching(q)') + Cardinality(gone)
    BY <1>2, <2>1, CommitMovesRows
  <2>3. /\ UNCHANGED <<rpc, query, page, total, items>> /\ left \in Nat /\ total \in Nat
        /\ Len(items) \in Nat
    BY <1>2 DEF Write, ReaderStands, ReadsTypeOK
  <2>4. Cardinality(Matching(q)) \in Nat
    BY MatchingIsFinite
  <2>5. rpc = "rows" => total <= Cardinality(Matching(q)) + left
    BY <2>1 DEF PagesStand
  <2>6. rpc' = "rows" => total' <= Cardinality(Matching(query)') + left'
    BY <2>2, <2>3, <2>4, <2>5
  <2>7. (page - 1) * query.page_size \in Int
    BY <1>2, <2>3, QueriesHavePages DEF ReaderStands, ReadsTypeOK
  <2>8. PageCoversTotal'
    BY <2>2, <2>3, <2>7 DEF PagesStand, PageCoversTotal
  <2> QED
    BY <2>6, <2>8 DEF PagesStand
<1>3. CASE Write /\ rpc \notin Listing
  BY <1>3 DEF Write, Listing, PagesStand, PageCoversTotal
<1>4. CASE CountRows
  <2>1. Cardinality(Matching(query)) \in Nat
    BY MatchingIsFinite
  <2>2. total' = Cardinality(Matching(query)) /\ left' = left /\ left \in Nat /\ rpc' = "rows"
        /\ Matching(query)' = Matching(query)
    BY <1>4, MatchingStays DEF CountRows, ReaderStands, ReadsTypeOK, history
  <2> QED
    BY <2>1, <2>2 DEF PagesStand, PageCoversTotal
<1>5. CASE (\E t \in TransactionId : GetTxn(t)) \/ SelectTransaction
           \/ (\E r \in Relations : LoadRelation(r)) \/ (\E q \in Queries : ListTxns(q))
           \/ NextPage \/ Done
  <2>1. rpc' \notin {"rows", "page"}
    BY <1>5 DEF GetTxn, SelectTransaction, LoadRelation, ListTxns, NextPage, Done
  <2> QED
    BY <2>1 DEF PagesStand, PageCoversTotal
<1>6. CASE UNCHANGED all_vars
  <2>1. Matching(query)' = Matching(query) /\ UNCHANGED reader
    BY <1>6, MatchingStays DEF all_vars, reader
  <2> QED
    BY <2>1 DEF reader, history, PagesStand, PageCoversTotal
<1> QED
  BY <1>1, <1>2, <1>3, <1>4, <1>5, <1>6 DEF ReadsNext, Read

\* A page falls short of what its total promises by no more rows than have left the list.
THEOREM PagesCoverTotals == ReadsSpec => []PageCoversTotal
<1>1. ReadsInit => PagesStand
  BY DEF ReadsInit, PagesStand, PageCoversTotal
<1>2. LedgerStands => ListsAreFinite
  BY MatchingIsFinite DEF ListsAreFinite
<1>3. PagesStand => PageCoversTotal
  BY DEF PagesStand
<1> QED
  BY <1>1, <1>2, <1>3, LedgerStandsAlways, ReaderStandsAlways, PagesStep, PTL DEF ReadsSpec

-----------------------------------------------------------------------------
(* Paging.                                                                  *)

Stored == {t \in TransactionId : transactions[t] # None}

\* Query q sorts by a key that no event changes, and no two rows have the same.
Ordered(q) == q.sort_by # "updated_at" /\ ~Ties(q)

\* The rows before t in the list of query q.
RowsBefore(q, t) == {u \in Matching(q) : Precedes(q, u, t)}

\* How many places of the list the pages have shown.
Shown(q) == IF rpc = "page" THEN page * q.page_size ELSE (page - 1) * q.page_size

\* The rows that are at one of these places and have not been shown.
Passed(q) == {t \in owed \ collected : Cardinality(RowsBefore(q, t)) < Shown(q)}

\* Each row that has left the list lets at most one pass.
PagingStands ==
    rpc \in Listing =>
        \E q \in Queries :
            /\ q = query
            /\ owed \subseteq Matching(q)
            /\ Ordered(q) =>
                  /\ Cardinality(Passed(q)) <= left
                  /\ (rpc = "page" /\ Len(items) < q.page_size)
                        => Cardinality(owed \ collected) <= left

\* The order of the rows is strict and total.
LEMMA OrderIsStrict ==
    ASSUME LedgerStands, NEW q \in Queries, Ordered(q)
    PROVE  /\ \A t \in Stored : ~Precedes(q, t, t)
           /\ \A u, t \in Stored : u # t => Precedes(q, u, t) \/ Precedes(q, t, u)
           /\ \A u, t, v \in Stored :
                 Precedes(q, u, t) /\ Precedes(q, t, v) => Precedes(q, u, v)
<1>1. ASSUME NEW t \in Stored
      PROVE  SortKey(q, t) \in Nat
  <2>1. Positions(t) # {} /\ TypeOK /\ t \in TransactionId
    BY DEF Stored, LedgerStands, HistoryInv, LedgerInv, StatusIsFirstOfHighestRank
  <2>2. First(t) \in Positions(t)
    BY <2>1, FirstEvent
  <2>3. First(t) \in Nat /\ First(t) \in DOMAIN payment_events
    BY <2>1, <2>2, EventsHaveRanks
  <2>4. payment_events[First(t)].event_id \in EventId
    <3>1. payment_events[First(t)] \in PaymentEvent
      BY <2>1, <2>3 DEF TypeOK
    <3> QED
      BY <3>1 DEF PaymentEvent
  <2>5. AmountOf(t) \in Nat
    BY <2>4, QueriesAssumption DEF AmountOf
  <2>6. q.sort_by \in {"created_at", "amount"}
    BY QueriesAssumption DEF Ordered, Query
  <2> QED
    BY <2>3, <2>5, <2>6 DEF SortKey, created_at
<1>2. \A u, t \in Stored : u # t => SortKey(q, u) # SortKey(q, t)
  BY DEF Ordered, Ties, Stored
<1> QED
  BY <1>1, <1>2 DEF Precedes

\* The place of a row in the list is the number of rows before it.
LEMMA PlacesInList ==
    ASSUME LedgerStands, NEW q \in Queries, Ordered(q)
    PROVE  /\ \A t \in Matching(q) : /\ IsFiniteSet(RowsBefore(q, t))
                                     /\ Cardinality(RowsBefore(q, t)) \in Nat
                                     /\ Cardinality(RowsBefore(q, t)) < Cardinality(Matching(q))
           /\ \A u, t \in Matching(q) :
                 u # t => Cardinality(RowsBefore(q, u)) # Cardinality(RowsBefore(q, t))
<1>1. IsFiniteSet(Matching(q)) /\ Matching(q) \subseteq Stored /\ Cardinality(Matching(q)) \in Nat
  BY MatchingIsFinite DEF Stored
<1>2. ASSUME NEW t \in Matching(q)
      PROVE  /\ IsFiniteSet(RowsBefore(q, t)) /\ Cardinality(RowsBefore(q, t)) \in Nat
             /\ t \notin RowsBefore(q, t)
  <2>1. RowsBefore(q, t) \in SUBSET Matching(q)
    BY DEF RowsBefore
  <2>2. IsFiniteSet(RowsBefore(q, t))
    BY <1>1, <2>1, FS_Subset
  <2> QED
    BY <1>1, <2>2, OrderIsStrict, FS_CardinalityType DEF RowsBefore
<1>3. ASSUME NEW t \in Matching(q), NEW S, S \subseteq Matching(q),
             RowsBefore(q, t) \cup {t} \subseteq S
      PROVE  Cardinality(RowsBefore(q, t)) < Cardinality(S)
  <2>1. IsFiniteSet(S)
    BY <1>1, <1>3, FS_Subset
  <2>2. Cardinality(RowsBefore(q, t) \cup {t}) = Cardinality(RowsBefore(q, t)) + 1
    BY <1>2, FS_AddElement
  <2>3. Cardinality(RowsBefore(q, t) \cup {t}) <= Cardinality(S)
    BY <1>3, <2>1, FS_Subset
  <2>4. Cardinality(S) \in Nat
    BY <2>1, FS_CardinalityType
  <2> QED
    BY <1>2, <2>2, <2>3, <2>4
<1>4. ASSUME NEW u \in Matching(q), NEW t \in Matching(q), Precedes(q, u, t)
      PROVE  Cardinality(RowsBefore(q, u)) < Cardinality(RowsBefore(q, t))
  <2>1. RowsBefore(q, u) \cup {u} \subseteq RowsBefore(q, t)
    BY <1>1, <1>4, OrderIsStrict DEF RowsBefore
  <2>2. RowsBefore(q, t) \subseteq Matching(q)
    BY DEF RowsBefore
  <2> QED
    BY <1>3, <2>1, <2>2
<1>5. ASSUME NEW t \in Matching(q)
      PROVE  Cardinality(RowsBefore(q, t)) < Cardinality(Matching(q))
  <2>1. RowsBefore(q, t) \cup {t} \subseteq Matching(q)
    BY DEF RowsBefore
  <2> QED
    BY <1>3, <2>1
<1>6. ASSUME NEW u \in Matching(q), NEW t \in Matching(q), u # t
      PROVE  Cardinality(RowsBefore(q, u)) # Cardinality(RowsBefore(q, t))
  <2>1. Precedes(q, u, t) \/ Precedes(q, t, u)
    BY <1>1, <1>6, OrderIsStrict
  <2> QED
    BY <1>2, <1>4, <2>1
<1> QED
  BY <1>2, <1>5, <1>6

\* An answer has each row at its place.
LEMMA AnswerHasPlaces ==
    ASSUME LedgerStands, NEW q \in Queries, Ordered(q), NEW rows \in SetToSeqs(Matching(q)),
           \A i, j \in DOMAIN rows : i < j => ~Precedes(q, rows[j], rows[i]),
           NEW i \in 1..Cardinality(Matching(q))
    PROVE  Cardinality(RowsBefore(q, rows[i])) = i - 1
<1> DEFINE f == [j \in 1..(i - 1) |-> rows[j]]
           T == RowsBefore(q, rows[i])
<1>1. IsFiniteSet(Matching(q)) /\ Matching(q) \subseteq Stored
  BY MatchingIsFinite DEF Stored
<1>2. /\ Cardinality(Matching(q)) \in Nat /\ rows \in [1..Cardinality(Matching(q)) -> Matching(q)]
      /\ \A j, k \in 1..Cardinality(Matching(q)) : j # k => rows[j] # rows[k]
      /\ \A x \in Matching(q) : \E j \in 1..Cardinality(Matching(q)) : rows[j] = x
  BY <1>1, AnswersHoldRows
<1>3. \A j \in 1..Cardinality(Matching(q)) : Precedes(q, rows[j], rows[i]) <=> j < i
  BY <1>1, <1>2, OrderIsStrict
<1>4. /\ f \in [1..(i - 1) -> T]
      /\ \A x \in T : \E j \in 1..(i - 1) : f[j] = x
  BY <1>2, <1>3 DEF RowsBefore
<1>5. \A j, k \in DOMAIN f : f[j] = f[k] => j = k
  BY <1>2
<1> HIDE DEF f, T
<1>6. f \in Bijection(1..(i - 1), T)
  BY <1>4, <1>5 DEF Bijection, Injection, Surjection, IsInjective
<1>7. Cardinality(T) = i - 1
  BY <1>6, FS_CountingElements DEF ExistsBijection
<1> QED
  BY <1>7 DEF T

\* A commit leaves the order of the stored rows as it is, and takes at most one place from
\* each row for every row that leaves the list.
LEMMA CommitKeepsOrder ==
    ASSUME LedgerStands, Next, NEW q \in Queries, Ordered(q)'
    PROVE  /\ Ordered(q)
           /\ \A t \in Stored : RowsBefore(q, t)
                 \subseteq RowsBefore(q, t)' \cup (Matching(q) \ Matching(q)')
<1>1. q.sort_by \in {"created_at", "amount"}
  BY QueriesAssumption DEF Ordered, Query
<1>2. ASSUME NEW t \in Stored
      PROVE  SortKey(q, t)' = SortKey(q, t) /\ t \in Stored'
  <2>1. /\ transactions'[t] # None /\ t \in TransactionId /\ First(t)' = First(t)
        /\ payment_events'[First(t)] = payment_events[First(t)]
    BY CommitKeepsRows DEF Stored
  <2>2. created_at(t)' = created_at(t) /\ AmountOf(t)' = AmountOf(t)
    BY <2>1 DEF created_at, AmountOf
  <2> QED
    BY <1>1, <2>1, <2>2 DEF SortKey, Stored
<1>3. \A u, t \in Stored : Precedes(q, u, t)' = Precedes(q, u, t)
  BY <1>2 DEF Precedes
<1>4. Ordered(q)
  BY <1>2 DEF Ordered, Ties, Stored
<1>5. Matching(q) \subseteq Stored
  BY MatchingIsFinite DEF Stored
<1> QED
  BY <1>3, <1>4, <1>5 DEF RowsBefore

LEMMA PagingStays ==
    ASSUME UNCHANGED vars, NEW q
    PROVE  /\ Matching(q)' = Matching(q) /\ (Ordered(q)' <=> Ordered(q))
           /\ \A t : RowsBefore(q, t)' = RowsBefore(q, t)
<1>1. \A t : Positions(t)' = Positions(t) /\ First(t)' = First(t)
  BY DEF vars, Positions, First
<1>2. \A t : created_at(t)' = created_at(t) /\ AmountOf(t)' = AmountOf(t)
  BY <1>1 DEF vars, created_at, AmountOf
<1>3. \A t : updated_at(t)' = updated_at(t)
  BY <1>1 DEF vars, updated_at, Decides, Rank, Type
<1>4. Matching(q)' = Matching(q)
  BY <1>2 DEF vars, Matching
<1>5. \A t : SortKey(q, t)' = SortKey(q, t)
  BY <1>2, <1>3 DEF SortKey
<1> QED
  BY <1>4, <1>5 DEF vars, Ordered, Ties, RowsBefore, Precedes

LEMMA PagingWrite ==
    ASSUME LedgerStands, ListsAreFinite', ReaderStands, PagingStands, Write, rpc \in Listing
    PROVE  PagingStands'
<1>1. PICK q \in Queries :
         /\ q = query /\ owed \subseteq Matching(q)
         /\ Ordered(q) => /\ Cardinality(Passed(q)) <= left
                          /\ (rpc = "page" /\ Len(items) < q.page_size)
                                => Cardinality(owed \ collected) <= left
  BY DEF PagingStands
<1>2. PICK gone : gone = Matching(q) \ Matching(q)'
  OBVIOUS
<1>3. /\ query' = q /\ IsFiniteSet(Matching(q)) /\ Cardinality(gone) \in Nat
      /\ IsFiniteSet(Matching(q)') /\ IsFiniteSet(gone)
      /\ owed' = owed \ gone /\ left' = left + Cardinality(gone) /\ left \in Nat
      /\ UNCHANGED <<rpc, page, items, collected>> /\ Next
  BY <1>1, <1>2, CommitMovesRows DEF Write, ReaderStands, ReadsTypeOK
<1>4. owed' \subseteq Matching(q)'
  BY <1>1, <1>2, <1>3
<1>5. ASSUME Ordered(q)'
      PROVE  Cardinality(Passed(q)') <= left'
  <2> DEFINE a == Shown(q)
             b == a + Cardinality(gone)
             Rank1(t) == Cardinality(RowsBefore(q, t))
             slid == {t \in Matching(q) : Rank1(t) \in a..(b - 1)}
             f == [t \in slid |-> Rank1(t)]
  <2>1. Ordered(q) /\ \A t \in Stored : RowsBefore(q, t) \subseteq RowsBefore(q, t)' \cup gone
    BY <1>2, <1>3, <1>5, CommitKeepsOrder
  <2>2. a \in Nat /\ b \in Nat /\ Shown(q)' = a
    <3>1. /\ page \in Nat /\ page - 1 \in Nat /\ q.page_size \in Nat
          /\ page' = page /\ (rpc' = "page" <=> rpc = "page")
      BY <1>1, <1>3, QueriesHavePages DEF ReaderStands, ReadsTypeOK
    <3>2. page * q.page_size \in Nat /\ (page - 1) * q.page_size \in Nat
      BY <3>1
    <3>3. a \in Nat /\ Shown(q)' = a
      BY <3>1, <3>2 DEF Shown
    <3> QED
      BY <1>3, <3>3
  <2>3. Matching(q) \subseteq Stored
    BY MatchingIsFinite DEF Stored
  <2>4. /\ \A t \in Matching(q) : Rank1(t) \in Nat /\ IsFiniteSet(RowsBefore(q, t))
        /\ \A u, t \in Matching(q) : u # t => Rank1(u) # Rank1(t)
    BY <2>1, PlacesInList
  <2>5. ASSUME NEW t \in Matching(q)
        PROVE  Rank1(t) <= Cardinality(RowsBefore(q, t)') + Cardinality(gone)
    <3> DEFINE new == RowsBefore(q, t)'
    <3>1. new \subseteq Matching(q)'
      BY DEF RowsBefore
    <3>2. IsFiniteSet(new)
      BY <1>3, <3>1, FS_Subset
    <3>3. /\ IsFiniteSet(new \cup gone)
          /\ Cardinality(new \cup gone)
                = Cardinality(new) + Cardinality(gone) - Cardinality(new \cap gone)
      BY <1>3, <3>2, FS_Union
    <3>4. IsFiniteSet(new \cap gone)
      BY <3>2, FS_Intersection
    <3>5. Cardinality(new) \in Nat /\ Cardinality(new \cap gone) \in Nat
      BY <3>2, <3>4, FS_CardinalityType
    <3>6. RowsBefore(q, t) \subseteq new \cup gone
      BY <2>1, <2>3
    <3>7. Rank1(t) <= Cardinality(new \cup gone)
      BY <3>3, <3>6, FS_Subset
    <3>8. Rank1(t) \in Nat /\ Cardinality(gone) \in Nat
      BY <1>3, <2>4
    <3> QED
      BY <3>3, <3>5, <3>7, <3>8
  <2>6. Passed(q)' \subseteq Passed(q) \cup slid
    <3> SUFFICES ASSUME NEW t \in Passed(q)'
                 PROVE  t \in Passed(q) \cup slid
      OBVIOUS
    <3>1. t \in owed' /\ t \notin collected' /\ Cardinality(RowsBefore(q, t)') < Shown(q)'
      BY DEF Passed
    <3>2. t \in owed /\ t \notin collected /\ t \in Matching(q)
      BY <1>1, <1>3, <3>1
    <3>3. IsFiniteSet(RowsBefore(q, t)')
      <4>1. RowsBefore(q, t)' \subseteq Matching(q)'
        BY DEF RowsBefore
      <4> QED
        BY <1>3, <4>1, FS_Subset
    <3>4. Cardinality(RowsBefore(q, t)') \in Nat
      BY <3>3, FS_CardinalityType
    <3>5. Rank1(t) < b /\ Rank1(t) \in Nat
      BY <1>3, <2>2, <2>4, <2>5, <3>1, <3>2, <3>4
    <3>6. CASE Rank1(t) < a
      BY <3>2, <3>6 DEF Passed
    <3>7. CASE a <= Rank1(t)
      BY <2>2, <3>2, <3>5, <3>7
    <3> QED
      BY <2>2, <3>5, <3>6, <3>7
  <2> HIDE DEF a
  <2>7. IsFiniteSet(slid) /\ Cardinality(slid) <= Cardinality(gone)
    <3>1. f \in [slid -> a..(b - 1)] /\ IsInjective(f)
      BY <2>4 DEF IsInjective
    <3>2. f \in Injection(slid, a..(b - 1))
      BY <3>1 DEF Injection
    <3>3. /\ IsFiniteSet(a..(b - 1))
          /\ Cardinality(a..(b - 1)) = IF a > b - 1 THEN 0 ELSE (b - 1) - a + 1
      <4>1. a \in Int /\ b - 1 \in Int
        BY <2>2
      <4> HIDE DEF b
      <4> QED
        BY <4>1, FS_Interval
    <3>4. Cardinality(a..(b - 1)) = Cardinality(gone)
      BY <1>3, <2>2, <3>3
    <3> QED
      BY <3>2, <3>3, <3>4, FS_Injection
  <2>8. IsFiniteSet(Passed(q)) /\ Cardinality(Passed(q)) <= left
    <3>1. Passed(q) \subseteq Matching(q)
      BY <1>1 DEF Passed
    <3> QED
      BY <1>1, <1>3, <2>1, <3>1, FS_Subset
  <2> HIDE DEF slid
  <2>9. /\ IsFiniteSet(Passed(q) \cup slid)
        /\ Cardinality(Passed(q) \cup slid)
              = Cardinality(Passed(q)) + Cardinality(slid) - Cardinality(Passed(q) \cap slid)
    BY <2>7, <2>8, FS_Union
  <2>10. IsFiniteSet(Passed(q) \cap slid)
    BY <2>8, FS_Intersection
  <2>11. /\ Cardinality(Passed(q) \cap slid) \in Nat /\ Cardinality(Passed(q)) \in Nat
         /\ Cardinality(slid) \in Nat
    BY <2>7, <2>8, <2>10, FS_CardinalityType
  <2>12. IsFiniteSet(Passed(q)') /\ Cardinality(Passed(q)') <= Cardinality(Passed(q) \cup slid)
    BY <2>6, <2>9, FS_Subset
  <2>13. Cardinality(Passed(q)') \in Nat
    BY <2>12, FS_CardinalityType
  <2> QED
    BY <1>3, <2>7, <2>8, <2>9, <2>11, <2>12, <2>13
<1>6. ASSUME Ordered(q)', rpc = "page", Len(items) < q.page_size
      PROVE  Cardinality(owed' \ collected') <= left'
  <2>1. Cardinality(owed \ collected) <= left
    BY <1>1, <1>3, <1>6, CommitKeepsOrder
  <2>2. owed \ collected \subseteq Matching(q) /\ owed' \ collected' \subseteq owed \ collected
    BY <1>1, <1>3
  <2>3. IsFiniteSet(owed \ collected)
    BY <1>3, <2>2, FS_Subset
  <2>4. /\ IsFiniteSet(owed' \ collected')
        /\ Cardinality(owed' \ collected') <= Cardinality(owed \ collected)
    BY <2>2, <2>3, FS_Subset
  <2>5. Cardinality(owed' \ collected') \in Nat /\ Cardinality(owed \ collected) \in Nat
    BY <2>3, <2>4, FS_CardinalityType
  <2> QED
    BY <1>3, <2>1, <2>4, <2>5
<1> QED
  BY <1>1, <1>3, <1>4, <1>5, <1>6 DEF PagingStands

LEMMA PagingSelect ==
    ASSUME LedgerStands, ReaderStands, PagingStands, SelectRows
    PROVE  PagingStands'
<1>1. PICK q \in Queries :
         /\ q = query /\ owed \subseteq Matching(q)
         /\ Ordered(q) => Cardinality(Passed(q)) <= left
  BY DEF PagingStands, SelectRows, Listing
<1> DEFINE k == (page - 1) * q.page_size
           c == Cardinality(Matching(q))
<1>2. /\ rpc = "rows" /\ rpc' = "page" /\ UNCHANGED <<query, page, owed, left>> /\ UNCHANGED vars
      /\ page \in Nat /\ page >= 1 /\ q.page_size \in Nat \ {0} /\ left \in Nat
      /\ collected' = collected \cup Range(items')
  BY <1>1, QueriesHavePages DEF SelectRows, ReaderStands, ReadsTypeOK, Listing
<1>3. PICK rows \in SetToSeqs(Matching(q)) :
         /\ items' = PageOf(rows, page, q.page_size)
         /\ \A i, j \in DOMAIN rows : i < j => ~Precedes(q, rows[j], rows[i])
  BY <1>1 DEF SelectRows, Answers
<1>4. IsFiniteSet(Matching(q)) /\ c \in Nat
  BY MatchingIsFinite
<1>5. /\ k \in Nat /\ page * q.page_size = k + q.page_size
      /\ Len(items') \in 0..q.page_size
      /\ Len(items') = q.page_size \/ c <= k + Len(items')
      /\ \A i \in (k + 1)..(k + q.page_size) : i <= c => rows[i] \in Range(items')
  <2>1. PICK n : n = k
    OBVIOUS
  <2> QED
    BY <1>2, <1>3, <1>4, <2>1, PageIsCut
<1>6. Shown(q) = k /\ Shown(q)' = k + q.page_size
  BY <1>2, <1>5 DEF Shown
<1>7. /\ Matching(q)' = Matching(q) /\ (Ordered(q)' <=> Ordered(q))
      /\ \A t : RowsBefore(q, t)' = RowsBefore(q, t)
  BY <1>2, PagingStays
<1> HIDE DEF k, c
<1>8. ASSUME Ordered(q)
      PROVE  /\ Cardinality(Passed(q)') <= left'
             /\ Len(items') < q.page_size => Cardinality(owed' \ collected') <= left'
  <2>1. \A t \in Matching(q) : /\ Cardinality(RowsBefore(q, t)) \in Nat
                               /\ Cardinality(RowsBefore(q, t)) < c
    BY <1>8, PlacesInList DEF c
  <2>2. ASSUME NEW t \in owed \ collected', Cardinality(RowsBefore(q, t)) < k + q.page_size
        PROVE  Cardinality(RowsBefore(q, t)) < k
    <3>1. t \in Matching(q)
      BY <1>1
    <3>2. PICK i \in 1..c : rows[i] = t
      BY <1>3, <1>4, <3>1, AnswersHoldRows DEF c
    <3>3. Cardinality(RowsBefore(q, t)) = i - 1
      BY <1>3, <1>8, <3>2, AnswerHasPlaces DEF c
    <3>4. t \notin Range(items')
      BY <1>2
    <3> QED
      BY <1>2, <1>4, <1>5, <2>2, <3>2, <3>3, <3>4
  <2>3. Passed(q)' \subseteq Passed(q)
    BY <1>2, <1>6, <1>7, <2>2 DEF Passed
  <2>4. IsFiniteSet(Passed(q))
    <3>1. Passed(q) \subseteq Matching(q)
      BY <1>1 DEF Passed
    <3> QED
      BY <1>4, <3>1, FS_Subset
  <2>5. IsFiniteSet(Passed(q)') /\ Cardinality(Passed(q)') <= Cardinality(Passed(q))
    BY <2>3, <2>4, FS_Subset
  <2>6. Cardinality(Passed(q)') \in Nat /\ Cardinality(Passed(q)) \in Nat
    BY <2>4, <2>5, FS_CardinalityType
  <2>7. Cardinality(Passed(q)') <= left'
    BY <1>1, <1>2, <1>8, <2>5, <2>6
  <2>8. ASSUME Len(items') < q.page_size
        PROVE  owed' \ collected' = Passed(q)'
    <3>1. c <= k + q.page_size
      BY <1>2, <1>4, <1>5, <2>8
    <3>2. \A t \in owed : Cardinality(RowsBefore(q, t)) < k + q.page_size
      BY <1>1, <1>2, <1>4, <1>5, <2>1, <3>1
    <3> QED
      BY <1>2, <1>6, <1>7, <3>2 DEF Passed
  <2> QED
    BY <2>7, <2>8
<1> QED
  BY <1>1, <1>2, <1>7, <1>8 DEF PagingStands

LEMMA PagingStep ==
    ASSUME LedgerStands, ListsAreFinite', ReaderStands, PagingStands, [ReadsNext]_all_vars
    PROVE  PagingStands'
<1>1. CASE SelectRows
  BY <1>1, PagingSelect
<1>2. CASE Write /\ rpc \in Listing
  BY <1>2, PagingWrite
<1>3. CASE \E q \in Queries : ListTxns(q)
  <2>1. PICK q \in Queries : ListTxns(q)
    BY <1>3
  <2>2. /\ query' = q /\ rpc' = "count" /\ page' = 1 /\ owed' = Matching(q) /\ left' = 0
        /\ UNCHANGED vars
    BY <2>1 DEF ListTxns
  <2>3. Matching(q)' = Matching(q) /\ \A t : RowsBefore(q, t)' = RowsBefore(q, t)
    BY <2>2, PagingStays
  <2>4. Shown(q)' = 0
    BY <2>2, QueriesHavePages DEF Shown
  <2>5. ASSUME Ordered(q)'
        PROVE  Passed(q)' = {}
    <3>1. Ordered(q)
      BY <2>2, <2>5, PagingStays
    <3>2. \A t \in Matching(q) : Cardinality(RowsBefore(q, t)) \in Nat
      BY <3>1, PlacesInList
    <3> QED
      BY <2>2, <2>3, <2>4, <3>2 DEF Passed
  <2>6. Cardinality({}) = 0
    BY FS_EmptySet
  <2>7. Ordered(q)' => Cardinality(Passed(q)') <= left'
    BY <2>2, <2>5, <2>6
  <2> QED
    BY <2>2, <2>3, <2>7 DEF PagingStands
<1>4. CASE CountRows \/ NextPage
  <2>1. PICK q \in Queries :
           /\ q = query /\ owed \subseteq Matching(q)
           /\ Ordered(q) => Cardinality(Passed(q)) <= left
    BY <1>4 DEF PagingStands, CountRows, NextPage, Listing
  <2>2. UNCHANGED <<vars, query, owed, collected, left>> /\ rpc' # "page"
    BY <1>4 DEF CountRows, NextPage, history
  <2>3. /\ Matching(q)' = Matching(q) /\ (Ordered(q)' <=> Ordered(q))
        /\ \A t : RowsBefore(q, t)' = RowsBefore(q, t)
    BY <2>2, PagingStays
  <2>4. page \in Nat /\ q.page_size \in Nat
    BY QueriesHavePages DEF ReaderStands, ReadsTypeOK
  <2>5. (page + 1) - 1 = page
    BY <2>4
  <2>6. Shown(q)' = Shown(q)
    BY <1>4, <2>4, <2>5 DEF CountRows, NextPage, Shown
  <2>7. Passed(q)' = Passed(q)
    BY <2>2, <2>3, <2>6 DEF Passed
  <2> QED
    BY <2>1, <2>2, <2>3, <2>7 DEF PagingStands
<1>5. CASE \/ (\E t \in TransactionId : GetTxn(t)) \/ SelectTransaction
           \/ (\E r \in Relations : LoadRelation(r)) \/ Done \/ (Write /\ rpc \notin Listing)
  <2>1. rpc' \notin Listing
    BY <1>5 DEF GetTxn, SelectTransaction, LoadRelation, Done, Write, Listing
  <2> QED
    BY <2>1 DEF PagingStands
<1>6. CASE UNCHANGED all_vars
  <2>1. UNCHANGED vars /\ UNCHANGED reader
    BY <1>6 DEF all_vars
  <2>2. \A q : /\ Matching(q)' = Matching(q) /\ (Ordered(q)' <=> Ordered(q))
               /\ \A t : RowsBefore(q, t)' = RowsBefore(q, t)
    BY <2>1, PagingStays
  <2>3. \A q : Passed(q)' = Passed(q)
    BY <2>1, <2>2 DEF reader, history, Passed, Shown
  <2> QED
    BY <2>1, <2>2, <2>3 DEF reader, history, PagingStands
<1> QED
  BY <1>1, <1>2, <1>3, <1>4, <1>5, <1>6 DEF ReadsNext, Read

\* A client that reads page after page, by a key that no event changes and no two rows
\* share, misses no more rows than have left the list meanwhile, whatever is ingested.
THEOREM PagingMissesOnlyWhatLeft == ReadsSpec => []PagingMissesNothing
<1>1. ReadsInit => PagingStands
  BY DEF ReadsInit, PagingStands, Listing
<1>2. LedgerStands => ListsAreFinite
  BY MatchingIsFinite DEF ListsAreFinite
<1>3. PagingStands => PagingMissesNothing
  BY DEF PagingStands, PagingMissesNothing, Ordered, Listing
<1> QED
  BY <1>1, <1>2, <1>3, LedgerStandsAlways, ReaderStandsAlways, PagingStep, PTL DEF ReadsSpec
=============================================================================
