-------------------------- MODULE TransactionReads --------------------------
(***************************************************************************)
(* GET /transactions, GET /transactions/{transaction_id} and               *)
(* GET /reconciliation/discrepancies while events are being ingested.  A   *)
(* read runs several SELECTs and no transaction spans them: each sees the  *)
(* latest commit.  The detail reads the transaction row, then its          *)
(* merchant, its events and its reconciliation row; a page of a list reads *)
(* COUNT( * ) and then the rows.  A client that wants all of a list asks   *)
(* for page after page until one comes back short.                         *)
(*                                                                         *)
(* The clock is the log: created_at is the place of the transaction's      *)
(* first event and updated_at that of the event that last wrote its row.   *)
(* An event's own timestamp has an offset from UTC, which SQLite drops:    *)
(* what is stored and sorted is the time of day as it was written.         *)
(***************************************************************************)
EXTENDS Ledger, Integers, SequencesExt

CONSTANTS Amount,          \* the amount of each event
          Timestamp,       \* its instant, and the offset it is written with
          Queries          \* the parameters clients list with

Lists == {"transactions", "discrepancies"}

Query == [list : Lists,
          merchant_id : MerchantId \cup {None}, status : TransactionStatus \cup {None},
          date_from : Nat \cup {None}, date_to : Nat \cup {None},
          sort_by : {"created_at", "updated_at", "amount"}, sort_order : {"asc", "desc"},
          page_size : Nat \ {0}]

\* The discrepancies have no filter but the merchant, and one order.
ASSUME QueriesAssumption ==
    /\ Amount \in [EventId -> Nat]
    /\ Timestamp \in [EventId -> [instant : Int, offset : Int]]
    /\ Queries \subseteq Query /\ None \notin Queries
    /\ \A q \in Queries : q.list = "discrepancies" =>
          /\ q.status = None /\ q.date_from = None /\ q.date_to = None
          /\ q.sort_by = "created_at" /\ q.sort_order = "desc"

VARIABLES
    rpc,                   \* the statement the read executes next
    pending,               \* the relations of the detail still to load
    detail,                \* the detail answer as far as it is read
    query,                 \* the list parameters
    page, total, items,    \* the page asked for, and its answer
    owed, collected,       \* history: the rows in the list since the first page was asked
                           \* for, the rows that pages have shown,
    left                   \* and how many times a row has left the list since

reader == <<rpc, pending, detail, query, page, total, items, owed, collected, left>>
history == <<owed, collected, left>>
all_vars == <<vars, reader>>

Relations == {"merchant", "events", "reconciliation"}

NoDetail == [id |-> None, transaction |-> None, merchant |-> None,
             events |-> <<>>, reconciliation |-> None]

ReadsTypeOK ==
    /\ TypeOK
    /\ rpc \in {"idle", "select_transaction", "relations", "detail", "count", "rows", "page"}
    /\ pending \subseteq Relations
    /\ detail \in [id : TransactionId \cup {None}, transaction : Transaction \cup {None},
                   merchant : MerchantName \cup {None}, events : Seq(PaymentEvent),
                   reconciliation : ReconciliationRecord \cup {None}]
    /\ query \in Queries \cup {None}
    /\ page \in Nat /\ total \in Nat
    /\ items \in Seq(TransactionId)
    /\ owed \subseteq TransactionId /\ collected \subseteq TransactionId
    /\ left \in Nat

ReadsInit ==
    /\ Init
    /\ rpc = "idle" /\ pending = {} /\ detail = NoDetail
    /\ query = None /\ page = 0 /\ total = 0 /\ items = <<>>
    /\ owed = {} /\ collected = {} /\ left = 0

-----------------------------------------------------------------------------
(* GET /transactions/{transaction_id}                                      *)

\* The rows of set S in an answer with an ORDER BY, in which Before(a, b) puts a before
\* b: any order of them that agrees with it, for rows that tie are in no order.
Answers(S, Before(_, _)) ==
    {rows \in SetToSeqs(S) : \A i, j \in DOMAIN rows : i < j => ~Before(rows[j], rows[i])}

\* Mutant: only the latest event is loaded.
LatestEventOf(t) ==
    {payment_events[i] : i \in {k \in Positions(t) : \A j \in Positions(t) : j <= k}}

EventsOf(t) == {payment_events[i] : i \in Positions(t)}

\* The column payment_events.timestamp as SQLite stores it.
StoredTimestamp(e) == Timestamp[e.event_id].instant + Timestamp[e.event_id].offset

\* The event history of t, ordered by timestamp.
Histories(t) ==
    LET Before(e, f) == StoredTimestamp(e) < StoredTimestamp(f)
    IN  Answers(EventsOf(t), Before)

GetTxn(t) ==
    /\ rpc = "idle"
    /\ rpc' = "select_transaction"
    /\ detail' = [NoDetail EXCEPT !.id = t]
    /\ UNCHANGED <<vars, pending, query, page, total, items, history>>

\* An unknown transaction is answered 404.
SelectTransaction ==
    LET row == transactions[detail.id]
    IN  /\ rpc = "select_transaction"
        /\ rpc' = IF row = None THEN "idle" ELSE "relations"
        /\ pending' = IF row = None THEN {} ELSE Relations
        /\ detail' = IF row = None THEN NoDetail ELSE [detail EXCEPT !.transaction = row]
        /\ UNCHANGED <<vars, query, page, total, items, history>>

\* The eager load of one relation of the row, a SELECT of its own.
LoadRelation(r) ==
    /\ rpc = "relations" /\ r \in pending
    /\ pending' = pending \ {r}
    /\ CASE r = "merchant" ->
              detail' = [detail EXCEPT !.merchant = merchants[detail.transaction.merchant_id]]
         [] r = "events" ->
              \E history_of \in Histories(detail.id) :
                  detail' = [detail EXCEPT !.events = history_of]
         [] r = "reconciliation" ->
              detail' = [detail EXCEPT !.reconciliation = reconciliation[detail.id]]
    /\ rpc' = IF pending' = {} THEN "detail" ELSE "relations"
    /\ UNCHANGED <<vars, query, page, total, items, history>>

-----------------------------------------------------------------------------
(* GET /transactions and GET /reconciliation/discrepancies                 *)

First(t) == CHOOSE i \in Positions(t) : \A j \in Positions(t) : i <= j

created_at(t) == First(t)

\* The place of the event that last changed the row of t: its first, or the latest one
\* that advanced its status.
updated_at(t) == CHOOSE i \in Positions(t) : Decides(t, Len(payment_events), i)

\* Mutant: the amount of a transaction is that of its latest event.
LatestAmount(t) ==
    Amount[payment_events[CHOOSE i \in Positions(t) : \A j \in Positions(t) : j <= i].event_id]

\* The amount of a transaction is that of its first event; later ones do not change it.
AmountOf(t) == Amount[payment_events[First(t)].event_id]

\* The rows the filters of query q let through.
Matching(q) ==
    IF q.list = "discrepancies"
    THEN Discrepancies(transactions, reconciliation, q.merchant_id)
    ELSE {t \in TransactionId :
            /\ transactions[t] # None
            /\ q.merchant_id # None => transactions[t].merchant_id = q.merchant_id
            /\ q.status # None => transactions[t].current_status = q.status
            /\ q.date_from # None => created_at(t) >= q.date_from
            /\ q.date_to # None => created_at(t) <= q.date_to}

SortKey(q, t) ==
    CASE q.sort_by = "created_at" -> created_at(t)
      [] q.sort_by = "updated_at" -> updated_at(t)
      [] q.sort_by = "amount" -> AmountOf(t)

Precedes(q, u, t) == IF q.sort_order = "asc" THEN SortKey(q, u) < SortKey(q, t)
                                             ELSE SortKey(q, u) > SortKey(q, t)

\* Mutant: page n starts after n pages, not after n - 1.
PageFromOne(rows, n, size) ==
    LET last == (n + 1) * size
    IN  SubSeq(rows, n * size + 1, IF last < Len(rows) THEN last ELSE Len(rows))

\* OFFSET (n - 1) * size LIMIT size.
PageOf(rows, n, size) ==
    LET last == n * size
    IN  SubSeq(rows, (n - 1) * size + 1, IF last < Len(rows) THEN last ELSE Len(rows))

\* date_from after date_to is answered 422.
ListTxns(q) ==
    /\ rpc = "idle"
    /\ (q.date_from # None /\ q.date_to # None) => q.date_from <= q.date_to
    /\ rpc' = "count"
    /\ query' = q /\ page' = 1
    /\ owed' = Matching(q) /\ collected' = {} /\ left' = 0
    /\ UNCHANGED <<vars, pending, detail, total, items>>

CountRows ==
    /\ rpc = "count"
    /\ total' = Cardinality(Matching(query))
    /\ rpc' = "rows"
    /\ UNCHANGED <<vars, pending, detail, query, page, items, history>>

SelectRows ==
    LET Before(u, t) == Precedes(query, u, t)
    IN  /\ rpc = "rows"
        /\ \E rows \in Answers(Matching(query), Before) :
              items' = PageOf(rows, page, query.page_size)
        /\ collected' = collected \cup Range(items')
        /\ rpc' = "page"
        /\ UNCHANGED <<vars, pending, detail, query, page, total, owed, left>>

NextPage ==
    /\ rpc = "page" /\ Len(items) = query.page_size
    /\ page' = page + 1
    /\ rpc' = "count"
    /\ UNCHANGED <<vars, pending, detail, query, total, items, history>>

\* The client has its answer.
Done ==
    /\ \/ rpc = "detail"
       \/ rpc = "page" /\ Len(items) < query.page_size
    /\ rpc' = "idle" /\ pending' = {} /\ detail' = NoDetail
    /\ query' = None /\ page' = 0 /\ total' = 0 /\ items' = <<>>
    /\ owed' = {} /\ collected' = {} /\ left' = 0
    /\ UNCHANGED vars

Read ==
    \/ \E t \in TransactionId : GetTxn(t)
    \/ SelectTransaction
    \/ \E r \in Relations : LoadRelation(r)
    \/ \E q \in Queries : ListTxns(q)
    \/ CountRows \/ SelectRows \/ NextPage \/ Done

\* An event is ingested while the read is in progress.
Write ==
    /\ Next
    /\ UNCHANGED <<rpc, pending, detail, query, page, total, items, collected>>
    /\ IF query = None
       THEN UNCHANGED <<owed, left>>
       ELSE LET gone == Matching(query) \ Matching(query)'
            IN  owed' = owed \ gone /\ left' = left + Cardinality(gone)

ReadsNext == Read \/ Write

ReadsSpec == ReadsInit /\ [][ReadsNext]_all_vars

-----------------------------------------------------------------------------
(* Properties.                                                             *)

\* However late events arrive, the history of a detail is in the order in which they
\* happened, so far as their timestamps are written with one offset.
HistoryIsChronological ==
    \A i, j \in DOMAIN detail.events :
        LET e == Timestamp[detail.events[i].event_id]
            f == Timestamp[detail.events[j].event_id]
        IN  (e.offset = f.offset /\ e.instant < f.instant) => i < j

\* The parts of a detail are read apart, but an answer is never missing what its own
\* status rests on: the event behind the status is in the history it shows, which is in
\* order, the merchant and the reconciliation row are there, and the latter is not behind.
DetailIsBacked ==
    rpc = "detail" =>
        /\ detail.merchant # None
        /\ \E i \in DOMAIN detail.events :
              EVENT_TO_STATUS[detail.events[i].event_type] = detail.transaction.current_status
        /\ HistoryIsChronological
        /\ detail.reconciliation # None
        /\ STATUS_RANK[detail.reconciliation.payment_status]
              >= STATUS_RANK[detail.transaction.current_status]

\* Rows committed between COUNT( * ) and the rows do not leave a page shorter than its
\* total promises; only rows that leave the list do, each by one.
PageCoversTotal ==
    rpc = "page" =>
        \/ Len(items) = query.page_size
        \/ Len(items) + left >= total - (page - 1) * query.page_size

\* Rows with the same sort key are in no order, which may change from page to page.
Ties(q) ==
    \E u, t \in TransactionId :
        u # t /\ transactions[u] # None /\ transactions[t] # None
              /\ SortKey(q, u) = SortKey(q, t)

\* A client that pages through a list misses no more rows than have left the list while
\* it did: none when nothing leaves, whatever is ingested meanwhile.  The sort key must
\* be one that no event changes, and must not tie.
PagingMissesNothing ==
    (/\ rpc = "page" /\ Len(items) < query.page_size
     /\ query.sort_by # "updated_at" /\ ~Ties(query))
        => Cardinality(owed \ collected) <= left
=============================================================================
