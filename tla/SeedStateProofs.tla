---------------------------- MODULE SeedStateProofs ----------------------------
(* Proofs about what the seeder computes from a file: the order of its       *)
(* entries, and the rows that stand after each of them.                      *)
EXTENDS SeedState, PaymentLifecycleProofs, FiniteSetTheorems

-----------------------------------------------------------------------------
(* Sorting.                                                                 *)

LEMMA BeforeIsTotal ==
    ASSUME NEW S, S \subseteq Nat, NEW key \in [S -> Nat]
    PROVE  /\ \A i \in S : ~Before(key, i, i)
           /\ \A i, j \in S : i = j \/ Before(key, i, j) \/ Before(key, j, i)
           /\ \A i, j, k \in S : Before(key, i, j) /\ Before(key, j, k) => Before(key, i, k)
<1>1. \A i \in S : i \in Nat /\ key[i] \in Nat
  OBVIOUS
<1> QED
  BY <1>1 DEF Before

\* The number of places that sort before place i tells it from every other.
LEMMA PlacesBefore ==
    ASSUME NEW S, S \subseteq Nat, IsFiniteSet(S), NEW key \in [S -> Nat]
    PROVE  /\ \A i \in S : Cardinality({j \in S : Before(key, j, i)}) \in 0..(Cardinality(S) - 1)
           /\ \A i, k \in S : Before(key, i, k) =>
                 Cardinality({j \in S : Before(key, j, i)})
                    < Cardinality({j \in S : Before(key, j, k)})
<1> DEFINE T(i) == {j \in S : Before(key, j, i)}
<1>1. ASSUME NEW i \in S
      PROVE  IsFiniteSet(T(i)) /\ Cardinality(T(i)) \in Nat /\ i \notin T(i)
  <2>1. T(i) \in SUBSET S
    OBVIOUS
  <2>2. IsFiniteSet(T(i))
    BY <2>1, FS_Subset
  <2> QED
    BY <2>2, BeforeIsTotal, FS_CardinalityType
<1>2. ASSUME NEW i \in S, NEW U, U \subseteq S, T(i) \cup {i} \subseteq U
      PROVE  Cardinality(T(i)) < Cardinality(U)
  <2>1. IsFiniteSet(U)
    BY <1>2, FS_Subset
  <2>2. Cardinality(T(i) \cup {i}) = Cardinality(T(i)) + 1
    BY <1>1, FS_AddElement
  <2>3. Cardinality(T(i) \cup {i}) <= Cardinality(U)
    BY <1>2, <2>1, FS_Subset
  <2>4. Cardinality(U) \in Nat
    BY <2>1, FS_CardinalityType
  <2> QED
    BY <1>1, <2>2, <2>3, <2>4
<1>3. ASSUME NEW i \in S, NEW k \in S, Before(key, i, k)
      PROVE  Cardinality(T(i)) < Cardinality(T(k))
  <2>1. T(i) \cup {i} \subseteq T(k)
    BY <1>3, BeforeIsTotal
  <2> QED
    BY <1>2, <2>1
<1>4. ASSUME NEW i \in S
      PROVE  Cardinality(T(i)) < Cardinality(S)
  BY <1>2
<1>5. Cardinality(S) \in Nat
  BY FS_CardinalityType
<1> QED
  BY <1>1, <1>3, <1>4, <1>5

\* A sort has the places it was given, each once, in order.
LEMMA SortedByKey ==
    ASSUME NEW S, S \subseteq Nat, IsFiniteSet(S), NEW key \in [S -> Nat],
           NEW order, order = SortedBy(S, key)
    PROVE  /\ Cardinality(S) \in Nat /\ order \in [1..Cardinality(S) -> S]
           /\ \A i \in S : \E k \in DOMAIN order : order[k] = i
           /\ \A k, l \in DOMAIN order : k < l => Before(key, order[k], order[l])
<1> DEFINE n == Cardinality(S)
           place == [i \in S |-> Cardinality({j \in S : Before(key, j, i)}) + 1]
<1>1. n \in Nat
  BY FS_CardinalityType
<1>2. /\ \A i \in S : place[i] \in 1..n
      /\ \A i, k \in S : Before(key, i, k) => place[i] < place[k]
  <2>1. /\ \A i \in S : Cardinality({j \in S : Before(key, j, i)}) \in 0..(n - 1)
        /\ \A i, k \in S : Before(key, i, k) =>
              Cardinality({j \in S : Before(key, j, i)})
                 < Cardinality({j \in S : Before(key, j, k)})
    BY PlacesBefore
  <2> HIDE DEF n
  <2>2. \A i \in S : /\ Cardinality({j \in S : Before(key, j, i)}) = place[i] - 1
                     /\ place[i] \in 1..n
    BY <1>1, <2>1
  <2> QED
    BY <1>1, <2>1, <2>2
<1>3. \A i, k \in S : place[i] = place[k] => i = k
  <2> SUFFICES ASSUME NEW i \in S, NEW k \in S, place[i] = place[k], i # k
               PROVE  FALSE
    OBVIOUS
  <2>1. Before(key, i, k) \/ Before(key, k, i)
    BY BeforeIsTotal
  <2>2. place[i] < place[k] \/ place[k] < place[i]
    BY <1>2, <2>1
  <2>3. place[i] \in Nat /\ place[k] \in Nat
    BY <1>1, <1>2
  <2> QED
    BY <2>2, <2>3
<1>4. order = [k \in 1..n |-> CHOOSE i \in S : place[i] = k]
  <2>1. ASSUME NEW k \in 1..n, NEW i \in S
        PROVE  (Cardinality({j \in S : Before(key, j, i)}) = k - 1) <=> place[i] = k
    <3>1. Cardinality({j \in S : Before(key, j, i)}) \in 0..(n - 1)
      BY PlacesBefore
    <3>2. place[i] = Cardinality({j \in S : Before(key, j, i)}) + 1
      OBVIOUS
    <3> HIDE DEF place, n
    <3> QED
      BY <1>1, <3>1, <3>2
  <2> DEFINE first(k) == CHOOSE i \in S : Cardinality({j \in S : Before(key, j, i)}) = k - 1
             second(k) == CHOOSE i \in S : place[i] = k
  <2>2. order = [k \in 1..n |-> first(k)]
    BY DEF SortedBy
  <2>3. \A k \in 1..n : first(k) = second(k)
    <3> HIDE DEF place
    <3> QED
      BY <2>1
  <2> HIDE DEF place, n, first
  <2>4. order = [k \in 1..n |-> second(k)]
    BY <2>2, <2>3
  <2> QED
    BY <2>4
<1> HIDE DEF place
<1>5. place \in Injection(S, 1..n)
  <2>1. place \in [S -> 1..n]
    BY <1>2 DEF place
  <2>2. IsInjective(place)
    BY <1>3, <2>1 DEF IsInjective
  <2> QED
    BY <2>1, <2>2 DEF Injection
<1>6. IsFiniteSet(1..n) /\ Cardinality(1..n) = n
  BY <1>1, FS_Interval
<1>7. place \in Surjection(S, 1..n)
  BY <1>5, <1>6, FS_Injection
<1>8. \A k \in 1..n : order[k] \in S /\ place[order[k]] = k
  BY <1>4, <1>7 DEF Surjection
<1>9. \A i \in S : order[place[i]] = i
  BY <1>2, <1>3, <1>8
<1>10. \A k, l \in 1..n : k < l => Before(key, order[k], order[l])
  <2> SUFFICES ASSUME NEW k \in 1..n, NEW l \in 1..n, k < l
               PROVE  Before(key, order[k], order[l])
    OBVIOUS
  <2>1. order[k] \in S /\ order[l] \in S /\ order[k] # order[l]
    BY <1>1, <1>8
  <2>2. ASSUME Before(key, order[l], order[k])
        PROVE  FALSE
    <3>1. place[order[l]] < place[order[k]]
      BY <1>2, <2>1, <2>2
    <3> QED
      BY <1>1, <1>8, <3>1
  <2> QED
    BY <2>1, <2>2, BeforeIsTotal
<1>11. order \in [1..n -> S]
  BY <1>4, <1>8
<1> QED
  BY <1>1, <1>2, <1>9, <1>10, <1>11

\* The entries of events, those with earlier timestamps first, and any two of them from
\* two places of events.
InTime(events, ordered) ==
    /\ \A i \in DOMAIN events : \E k \in DOMAIN ordered : ordered[k] = events[i]
    /\ \A k \in DOMAIN ordered : \E i \in DOMAIN events : ordered[k] = events[i]
    /\ \A k, l \in DOMAIN ordered : k < l =>
          /\ ordered[k].timestamp <= ordered[l].timestamp
          /\ \E i, j \in DOMAIN events :
                i # j /\ ordered[k] = events[i] /\ ordered[l] = events[j]

\* A file in the order of its timestamps has the entries of the file.
LEMMA ChronologicalEntries ==
    ASSUME NEW events \in Seq(FileEvent), NEW ordered, ordered = Chronological(events)
    PROVE  /\ ordered \in Seq(FileEvent) /\ Len(ordered) = Len(events)
           /\ InTime(events, ordered)
<1> DEFINE key == [i \in DOMAIN events |-> events[i].timestamp]
<1>1. /\ DOMAIN events = 1..Len(events) /\ Len(events) \in Nat
      /\ DOMAIN events \subseteq Nat
      /\ \A i \in DOMAIN events : events[i] \in FileEvent
  OBVIOUS
<1>2. IsFiniteSet(DOMAIN events) /\ Cardinality(DOMAIN events) = Len(events)
  BY <1>1, FS_Interval
<1>3. key \in [DOMAIN events -> Nat]
  BY <1>1 DEF FileEvent
<1> HIDE DEF key
<1>4. PICK order : order = SortedBy(DOMAIN events, key)
  OBVIOUS
<1>5. /\ order \in [1..Len(events) -> DOMAIN events]
      /\ \A i \in DOMAIN events : \E k \in DOMAIN order : order[k] = i
      /\ \A k, l \in DOMAIN order : k < l => Before(key, order[k], order[l])
  <2>1. /\ DOMAIN events \subseteq Nat /\ IsFiniteSet(DOMAIN events)
        /\ key \in [DOMAIN events -> Nat]
    BY <1>1, <1>2, <1>3
  <2>2. /\ order \in [1..Cardinality(DOMAIN events) -> DOMAIN events]
        /\ \A i \in DOMAIN events : \E k \in DOMAIN order : order[k] = i
        /\ \A k, l \in DOMAIN order : k < l => Before(key, order[k], order[l])
    BY ONLY <1>4, <2>1, SortedByKey
  <2> QED
    BY <1>2, <2>2
<1>6. ordered = [k \in 1..Len(events) |-> events[order[k]]]
  BY <1>4, <1>5 DEF Chronological, EntriesAt, key
<1>7. ordered \in Seq(FileEvent) /\ Len(ordered) = Len(events)
  BY <1>1, <1>5, <1>6
<1>8. ASSUME NEW k \in DOMAIN ordered, NEW l \in DOMAIN ordered, k < l
      PROVE  /\ ordered[k].timestamp <= ordered[l].timestamp
             /\ \E i, j \in DOMAIN events :
                   i # j /\ ordered[k] = events[i] /\ ordered[l] = events[j]
  <2>1. /\ order[k] \in DOMAIN events /\ order[l] \in DOMAIN events
        /\ Before(key, order[k], order[l])
        /\ ordered[k] = events[order[k]] /\ ordered[l] = events[order[l]]
    BY <1>5, <1>6, <1>8
  <2>2. /\ key[order[k]] = ordered[k].timestamp /\ key[order[l]] = ordered[l].timestamp
        /\ key[order[k]] \in Nat /\ key[order[l]] \in Nat
    BY <1>3, <2>1 DEF key
  <2>3. key[order[k]] <= key[order[l]] /\ order[k] # order[l]
    BY <1>1, <2>1, <2>2 DEF Before
  <2> QED
    BY <2>1, <2>2, <2>3
<1>9. /\ \A i \in DOMAIN events : \E k \in DOMAIN ordered : ordered[k] = events[i]
      /\ \A k \in DOMAIN ordered : \E i \in DOMAIN events : ordered[k] = events[i]
  BY <1>5, <1>6
<1>10. InTime(events, ordered)
  BY <1>8, <1>9 DEF InTime
<1> QED
  BY <1>7, <1>10

\* What is taken from some places of a file has the entries of these places, in order.
LEMMA EntriesInFileOrder ==
    ASSUME NEW events \in Seq(FileEvent), NEW S, S \subseteq DOMAIN events,
           NEW kept, kept = InFileOrder(events, S)
    PROVE  /\ kept \in Seq(FileEvent)
           /\ \A i \in S : \E k \in DOMAIN kept : kept[k] = events[i]
           /\ \A k \in DOMAIN kept : \E i \in S : kept[k] = events[i]
           /\ \A k, l \in DOMAIN kept : k < l =>
                 \E i, j \in S : i < j /\ kept[k] = events[i] /\ kept[l] = events[j]
           /\ S = {} => kept = <<>>
<1> DEFINE key == [i \in S |-> i]
           n == Cardinality(S)
<1>1. /\ DOMAIN events = 1..Len(events) /\ Len(events) \in Nat
      /\ S \subseteq Nat
      /\ \A i \in S : events[i] \in FileEvent
  OBVIOUS
<1>2. IsFiniteSet(S) /\ n \in Nat
  <2>1. IsFiniteSet(DOMAIN events) /\ S \in SUBSET (DOMAIN events)
    BY <1>1, FS_Interval
  <2>2. IsFiniteSet(S)
    BY <2>1, FS_Subset
  <2> QED
    BY <2>2, FS_CardinalityType
<1>3. key \in [S -> Nat]
  BY <1>1
<1>4. PICK order : order = SortedBy(S, key)
  OBVIOUS
<1>5. /\ order \in [1..n -> S]
      /\ \A i \in S : \E k \in DOMAIN order : order[k] = i
      /\ \A k, l \in DOMAIN order : k < l => Before(key, order[k], order[l])
  <2> HIDE DEF key
  <2> QED
    BY <1>1, <1>2, <1>3, <1>4, SortedByKey
<1>6. \A k, l \in 1..n : k < l => order[k] < order[l]
  BY <1>1, <1>5 DEF Before
<1>7. kept = [k \in 1..n |-> events[order[k]]]
  BY <1>4, <1>5 DEF InFileOrder, EntriesAt
<1> HIDE DEF n
<1>8. kept \in Seq(FileEvent)
  BY <1>1, <1>2, <1>5, <1>7
<1>9. ASSUME S = {}
      PROVE  kept = <<>>
  <2>1. n = 0
    BY <1>9, FS_EmptySet DEF n
  <2> QED
    BY <1>7, <2>1
<1>10. DOMAIN kept = 1..n /\ DOMAIN order = 1..n /\ \A k \in 1..n : kept[k] = events[order[k]]
  BY <1>5, <1>7
<1>11. /\ \A i \in S : \E k \in DOMAIN kept : kept[k] = events[i]
       /\ \A k \in DOMAIN kept : \E i \in S : kept[k] = events[i]
  BY <1>5, <1>10
<1>12. \A k, l \in DOMAIN kept : k < l =>
          \E i, j \in S : i < j /\ kept[k] = events[i] /\ kept[l] = events[j]
  BY <1>5, <1>6, <1>10
<1> QED
  BY <1>8, <1>9, <1>11, <1>12

\* Of the entries with an event_id the first is one of those kept.
LEMMA FirstCopiesCover ==
    ASSUME NEW events \in Seq(FileEvent), NEW i \in DOMAIN events
    PROVE  \E j \in FirstCopies(events) : events[j].event_id = events[i].event_id
<1> DEFINE copies == {j \in DOMAIN events : events[j].event_id = events[i].event_id}
<1>1. DOMAIN events \subseteq Nat /\ i \in copies
  OBVIOUS
<1>2. PICK j \in copies : \A m \in copies : j <= m
  BY <1>1, LeastNatural
<1>3. \A m \in 1..(j - 1) : m \in DOMAIN events /\ m \notin copies
  BY <1>1, <1>2
<1> QED
  BY <1>2, <1>3 DEF FirstCopies

-----------------------------------------------------------------------------
(* The computation, one entry after the other.                             *)

\* The definition of StatesAfter by recursion defines it.
LEMMA StatesAfterEntries ==
    ASSUME NEW events \in Seq(FileEvent), NEW late, NEW rows, rows = StatesAfter(events, late)
    PROVE  /\ rows = [k \in 0..Len(events) |-> rows[k]] /\ rows[0] = NoRows
           /\ \A k \in 1..Len(events) : rows[k] = SeedEvent(rows[k - 1], events[k], late)
<1> DEFINE Unfold(g, n) == [k \in 0..n |->
               IF k = 0 THEN NoRows ELSE SeedEvent(g[k - 1], events[k], late)]
           Missing == {n \in Nat : ~\E g : g = Unfold(g, n)}
<1>1. Len(events) \in Nat
  OBVIOUS
<1>2. Missing = {}
  <2> SUFFICES ASSUME Missing # {}
               PROVE  FALSE
    OBVIOUS
  <2>1. PICK n \in Missing : \A m \in Missing : n <= m
    BY LeastNatural
  <2>2. CASE n = 0
    <3> DEFINE g == [k \in 0..0 |-> NoRows]
    <3>1. g = Unfold(g, 0)
      OBVIOUS
    <3> QED
      BY <2>1, <2>2, <3>1
  <2>3. CASE n # 0
    <3>1. n \in Nat /\ n - 1 \in Nat /\ n - 1 \notin Missing
      <4>1. n \in Nat
        OBVIOUS
      <4> HIDE DEF Missing
      <4> QED
        BY <2>1, <2>3, <4>1
    <3>2. PICK g : g = Unfold(g, n - 1)
      BY <3>1
    <3> DEFINE f == [k \in 0..n |-> IF k = n THEN SeedEvent(g[n - 1], events[n], late)
                                             ELSE g[k]]
    <3>3. ASSUME NEW k \in 0..n
          PROVE  f[k] = IF k = 0 THEN NoRows ELSE SeedEvent(f[k - 1], events[k], late)
      <4>1. CASE k = n
        BY <2>3, <3>1, <4>1
      <4>2. CASE k # n
        <5>1. k \in 0..(n - 1) /\ (k # 0 => k - 1 \in 0..n /\ k - 1 # n)
          BY <3>1, <4>2
        <5>2. g[k] = IF k = 0 THEN NoRows ELSE SeedEvent(g[k - 1], events[k], late)
          BY <3>2, <5>1
        <5> QED
          BY <4>2, <5>1, <5>2
      <4> QED
        BY <4>1, <4>2
    <3>4. f = Unfold(f, n)
      <4> HIDE DEF f
      <4>1. f = [k \in 0..n |-> f[k]]
        BY DEF f
      <4> QED
        BY <3>3, <4>1
    <3> HIDE DEF f, Unfold
    <3> QED
      BY <2>1, <3>4
  <2> QED
    BY <2>2, <2>3
<1>3. \E g : g = Unfold(g, Len(events))
  BY <1>1, <1>2
<1>4. rows = CHOOSE g : g = Unfold(g, Len(events))
  BY DEF StatesAfter
<1>5. rows = Unfold(rows, Len(events))
  <2> HIDE DEF Unfold
  <2> QED
    BY <1>3, <1>4
<1>6. \A k \in 0..Len(events) :
         rows[k] = IF k = 0 THEN NoRows ELSE SeedEvent(rows[k - 1], events[k], late)
  BY <1>1, <1>5
<1>7. rows = [k \in 0..Len(events) |-> rows[k]]
  BY <1>5
<1> QED
  BY <1>1, <1>6, <1>7

\* The rules read of an entry what is stored of it.
LEMMA EntryIsAnEvent ==
    ASSUME NEW ev \in FileEvent, NEW p, p = EventRow(ev)
    PROVE  /\ p \in PaymentEvent
           /\ \A row : UpsertTransaction(row, ev) = UpsertTransaction(row, p)
           /\ NewReconciliation(ev) = NewReconciliation(p)
           /\ \A row, previous, current :
                 UpdateReconciliation(row, previous, current, ev)
                    = UpdateReconciliation(row, previous, current, p)
<1>1. /\ p.event_id = ev.event_id /\ p.event_type = ev.event_type
      /\ p.merchant_id = ev.merchant_id
  BY DEF EventRow
<1>2. p \in PaymentEvent
  BY DEF EventRow, PaymentEvent, FileEvent
<1> QED
  BY <1>1, <1>2 DEF UpsertTransaction, NewReconciliation, InitialSettlement,
                    UpdateReconciliation, Conflict, SettlementAfter

LEMMA SeedReconciliationType ==
    ASSUME NEW row \in ReconciliationRecord \cup {None}, NEW current \in TransactionStatus,
           NEW ev \in FileEvent, NEW late
    PROVE  SeedReconciliation(row, current, ev, late) \in ReconciliationRecord
<1>1. PICK p : p = EventRow(ev)
  OBVIOUS
<1>2. p \in PaymentEvent /\ NewReconciliation(ev) = NewReconciliation(p)
  BY <1>1, EntryIsAnEvent
<1>3. CASE row = None
  BY <1>2, <1>3, NewReconciliationType DEF SeedReconciliation
<1>4. CASE row # None
  <2> DEFINE next == UpdateReconciliation(row, current, current, ev)
             reason == IF ev.event_type = "payment_processed" /\ ~late
                       THEN None
                       ELSE Conflict(current, current, row.settlement_status, ev)
  <2>1. next \in ReconciliationRecord
    <3>1. next = UpdateReconciliation(row, current, current, p)
      BY <1>1, EntryIsAnEvent
    <3> QED
      BY <1>2, <1>4, <3>1, UpdateReconciliationType
  <2>2. reason \in DiscrepancyReason \cup {None}
    BY ConflictType DEF DiscrepancyReason
  <2>3. /\ row.discrepancy_flag \in BOOLEAN
        /\ row.discrepancy_reason \in DiscrepancyReason \cup {None}
    BY <1>4 DEF ReconciliationRecord
  <2>4. SeedReconciliation(row, current, ev, late) =
           [next EXCEPT !.discrepancy_flag = row.discrepancy_flag \/ reason # None,
                        !.discrepancy_reason =
                            IF reason # None THEN reason ELSE row.discrepancy_reason]
    BY <1>4 DEF SeedReconciliation
  <2> HIDE DEF next, reason
  <2> QED
    BY <2>1, <2>2, <2>3, <2>4 DEF ReconciliationRecord
<1> QED
  BY <1>3, <1>4

\* The rows computed from the first k entries: they are of their types, there is a
\* transaction with its reconciliation row for each entry and for nothing else, and the
\* merchant of each transaction and of each entry.
RowsStand(events, k, rows) ==
    /\ rows \in [merchants : [MerchantId -> MerchantName \cup {None}],
                 transactions : [TransactionId -> Transaction \cup {None}],
                 reconciliation : [TransactionId -> ReconciliationRecord \cup {None}]]
    /\ \A i \in 1..k : rows.merchants[events[i].merchant_id] # None
    /\ \A t \in TransactionId :
          /\ rows.transactions[t] # None <=> \E i \in 1..k : events[i].transaction_id = t
          /\ rows.reconciliation[t] # None <=> rows.transactions[t] # None
          /\ rows.transactions[t] # None
                => rows.merchants[rows.transactions[t].merchant_id] # None

LEMMA NoRowsStand ==
    ASSUME NEW events \in Seq(FileEvent)
    PROVE  RowsStand(events, 0, NoRows)
BY DEF RowsStand, NoRows

LEMMA SeedEventStands ==
    ASSUME NEW events \in Seq(FileEvent), NEW k \in 1..Len(events), NEW rows, NEW late,
           RowsStand(events, k - 1, rows)
    PROVE  RowsStand(events, k, SeedEvent(rows, events[k], late))
<1> DEFINE ev  == events[k]
           row == UpsertTransaction(rows.transactions[ev.transaction_id], ev)
           recon == SeedReconciliation(rows.reconciliation[ev.transaction_id],
                                       row.current_status, ev, late)
           new == SeedEvent(rows, ev, late)
<1>1. /\ ev \in FileEvent /\ ev.transaction_id \in TransactionId
      /\ ev.merchant_id \in MerchantId /\ ev.merchant_name \in MerchantName
      /\ k \in Nat /\ k >= 1
  <2>1. ev \in FileEvent /\ k \in Nat /\ k >= 1
    OBVIOUS
  <2> QED
    BY <2>1 DEF FileEvent
<1>2. /\ rows.merchants \in [MerchantId -> MerchantName \cup {None}]
      /\ rows.transactions \in [TransactionId -> Transaction \cup {None}]
      /\ rows.reconciliation \in [TransactionId -> ReconciliationRecord \cup {None}]
  BY DEF RowsStand
<1>3. row \in Transaction
  <2>1. PICK p : p = EventRow(ev)
    OBVIOUS
  <2>2. p \in PaymentEvent /\ row = UpsertTransaction(rows.transactions[ev.transaction_id], p)
    BY <1>1, <2>1, EntryIsAnEvent
  <2> QED
    BY <1>1, <1>2, <2>2, UpsertTransactionType
<1>4. recon \in ReconciliationRecord
  <2> HIDE DEF row, ev
  <2>1. row.current_status \in TransactionStatus
    BY <1>3 DEF Transaction
  <2> QED
    BY <1>1, <1>2, <2>1, SeedReconciliationType
<1>5. row.merchant_id = IF rows.transactions[ev.transaction_id] = None THEN ev.merchant_id
                        ELSE rows.transactions[ev.transaction_id].merchant_id
  <2>1. CASE rows.transactions[ev.transaction_id] = None
    BY <2>1 DEF UpsertTransaction
  <2>2. CASE rows.transactions[ev.transaction_id] # None
    BY <1>1, <1>2, <2>2 DEF UpsertTransaction, Transaction
  <2> QED
    BY <2>1, <2>2
<1>6. new = [merchants |-> [rows.merchants EXCEPT ![ev.merchant_id] = ev.merchant_name],
             transactions |-> [rows.transactions EXCEPT ![ev.transaction_id] = row],
             reconciliation |-> [rows.reconciliation EXCEPT ![ev.transaction_id] = recon]]
  BY DEF SeedEvent
<1> HIDE DEF row, recon, new, ev
<1>7. /\ new.merchants \in [MerchantId -> MerchantName \cup {None}]
      /\ new.transactions \in [TransactionId -> Transaction \cup {None}]
      /\ new.reconciliation \in [TransactionId -> ReconciliationRecord \cup {None}]
  BY <1>1, <1>2, <1>3, <1>4, <1>6
<1>8. \A m \in MerchantId : /\ rows.merchants[m] # None => new.merchants[m] # None
                            /\ m = ev.merchant_id => new.merchants[m] # None
  BY <1>1, <1>2, <1>6, NoneAssumption
<1>9. row # None /\ recon # None
  BY <1>3, <1>4, NoneAssumption DEF Transaction, ReconciliationRecord
<1>10. \A i \in 1..k : new.merchants[events[i].merchant_id] # None
  <2>1. \A i \in 1..k : events[i].merchant_id \in MerchantId /\ (i = k \/ i \in 1..(k - 1))
    <3>1. \A i \in 1..k : events[i] \in FileEvent /\ (i = k \/ i \in 1..(k - 1))
      BY <1>1
    <3> QED
      BY <3>1 DEF FileEvent
  <2> QED
    BY <1>8, <2>1 DEF RowsStand, ev
<1>11. ASSUME NEW t \in TransactionId
       PROVE  /\ new.transactions[t] # None <=> \E i \in 1..k : events[i].transaction_id = t
              /\ new.reconciliation[t] # None <=> new.transactions[t] # None
              /\ new.transactions[t] # None
                    => new.merchants[new.transactions[t].merchant_id] # None
  <2>1. CASE t = ev.transaction_id
    <3>1. new.transactions[t] = row /\ new.reconciliation[t] = recon
      BY <1>1, <1>2, <1>6, <2>1
    <3>2. k \in 1..k /\ events[k].transaction_id = t
      BY <1>1, <2>1 DEF ev
    <3>3. new.merchants[row.merchant_id] # None
      <4>1. row.merchant_id \in MerchantId
        BY <1>3 DEF Transaction
      <4> QED
        BY <1>1, <1>5, <1>8, <4>1 DEF RowsStand
    <3> QED
      BY <1>9, <3>1, <3>2, <3>3
  <2>2. CASE t # ev.transaction_id
    <3>1. /\ new.transactions[t] = rows.transactions[t]
          /\ new.reconciliation[t] = rows.reconciliation[t]
      BY <1>1, <1>2, <1>6, <2>2
    <3>2. (\E i \in 1..k : events[i].transaction_id = t)
             <=> \E i \in 1..(k - 1) : events[i].transaction_id = t
      BY <1>1, <2>2 DEF ev
    <3>3. rows.transactions[t] # None => rows.transactions[t].merchant_id \in MerchantId
      BY <1>2 DEF Transaction
    <3> QED
      BY <1>8, <3>1, <3>2, <3>3 DEF RowsStand
  <2> QED
    BY <2>1, <2>2
<1>12. RowsStand(events, k, new)
  BY <1>6, <1>7, <1>10, <1>11 DEF RowsStand
<1> QED
  BY <1>12 DEF new, ev

-----------------------------------------------------------------------------
(* What the first k entries say of transaction t.                           *)

About(events, t, i) == events[i].transaction_id = t

RankAt(events, i) == STATUS_RANK[EVENT_TO_STATUS[events[i].event_type]]

DecidesIn(events, k, t, i) ==
    /\ i \in 1..k /\ About(events, t, i)
    /\ \A j \in 1..k : About(events, t, j) =>
          RankAt(events, j) < RankAt(events, i) \/ (RankAt(events, j) = RankAt(events, i) /\ i <= j)

Has(events, k, t, type) ==
    \E i \in 1..k : About(events, t, i) /\ events[i].event_type = type

Settles(events, k, t) ==
    \E h, i \in 1..k : /\ h < i /\ About(events, t, h) /\ About(events, t, i)
                       /\ events[i].event_type = "settled"

FailsLate(events, k, t) ==
    \E h, i, j \in 1..k : /\ h < i /\ i < j
                          /\ About(events, t, h) /\ About(events, t, i) /\ About(events, t, j)
                          /\ events[i].event_type = "settled"
                          /\ events[j].event_type = "payment_failed"

ProcessedLate(events, k, t) ==
    \E i, j \in 1..k : /\ i < j /\ About(events, t, i) /\ About(events, t, j)
                       /\ events[i].event_type = "settled"
                       /\ events[j].event_type = "payment_processed"

\* One entry more.
LEMMA EntryAdds ==
    ASSUME NEW events \in Seq(FileEvent), NEW k \in 1..Len(events), NEW t
    PROVE  /\ \A type : Has(events, k, t, type) <=>
                 \/ Has(events, k - 1, t, type)
                 \/ About(events, t, k) /\ events[k].event_type = type
           /\ Settles(events, k, t) <=>
                 \/ Settles(events, k - 1, t)
                 \/ /\ About(events, t, k) /\ events[k].event_type = "settled"
                    /\ \E h \in 1..(k - 1) : About(events, t, h)
           /\ FailsLate(events, k, t) <=>
                 \/ FailsLate(events, k - 1, t)
                 \/ /\ About(events, t, k) /\ events[k].event_type = "payment_failed"
                    /\ Settles(events, k - 1, t)
           /\ ProcessedLate(events, k, t) <=>
                 \/ ProcessedLate(events, k - 1, t)
                 \/ /\ About(events, t, k) /\ events[k].event_type = "payment_processed"
                    /\ Has(events, k - 1, t, "settled")
<1>1. /\ k \in Nat /\ k \in 1..k
      /\ \A i \in 1..k : i = k \/ i \in 1..(k - 1)
      /\ \A i \in 1..(k - 1) : i \in 1..k /\ i < k
      /\ \A i, j \in 1..k : i < j => i \in 1..(k - 1)
  OBVIOUS
<1>2. \A type : Has(events, k, t, type) <=>
         \/ Has(events, k - 1, t, type)
         \/ About(events, t, k) /\ events[k].event_type = type
  BY <1>1 DEF Has
<1>3. Settles(events, k, t) <=>
         \/ Settles(events, k - 1, t)
         \/ /\ About(events, t, k) /\ events[k].event_type = "settled"
            /\ \E h \in 1..(k - 1) : About(events, t, h)
  BY <1>1 DEF Settles
<1>4. FailsLate(events, k, t) <=>
         \/ FailsLate(events, k - 1, t)
         \/ /\ About(events, t, k) /\ events[k].event_type = "payment_failed"
            /\ Settles(events, k - 1, t)
  <2>1. ASSUME FailsLate(events, k, t)
        PROVE  \/ FailsLate(events, k - 1, t)
               \/ /\ About(events, t, k) /\ events[k].event_type = "payment_failed"
                  /\ Settles(events, k - 1, t)
    <3>1. PICK h \in 1..k, i \in 1..k, j \in 1..k :
              /\ h < i /\ i < j
              /\ About(events, t, h) /\ About(events, t, i) /\ About(events, t, j)
              /\ events[i].event_type = "settled" /\ events[j].event_type = "payment_failed"
      BY <2>1 DEF FailsLate
    <3>2. h \in 1..(k - 1) /\ i \in 1..(k - 1)
      BY <1>1, <3>1
    <3>3. Settles(events, k - 1, t)
      BY <3>1, <3>2 DEF Settles
    <3>4. CASE j = k
      BY <3>1, <3>3, <3>4
    <3>5. CASE j \in 1..(k - 1)
      BY <3>1, <3>2, <3>5 DEF FailsLate
    <3> QED
      BY <1>1, <3>4, <3>5
  <2>2. FailsLate(events, k - 1, t) => FailsLate(events, k, t)
    BY <1>1 DEF FailsLate
  <2>3. (/\ About(events, t, k) /\ events[k].event_type = "payment_failed"
         /\ Settles(events, k - 1, t)) => FailsLate(events, k, t)
    BY <1>1 DEF FailsLate, Settles
  <2> QED
    BY <2>1, <2>2, <2>3
<1>5. ProcessedLate(events, k, t) <=>
         \/ ProcessedLate(events, k - 1, t)
         \/ /\ About(events, t, k) /\ events[k].event_type = "payment_processed"
            /\ Has(events, k - 1, t, "settled")
  BY <1>1 DEF ProcessedLate, Has
<1> QED
  BY <1>2, <1>3, <1>4, <1>5

\* The computed rows are what the entries say: the status is that of the earliest of the
\* highest rank, and what settles, closes and flags a row is in the entries.
StatusStands(events, k, rows) ==
    \A t \in TransactionId : rows.transactions[t] # None =>
        \E i \in 1..k : /\ DecidesIn(events, k, t, i)
                        /\ rows.transactions[t].current_status
                              = EVENT_TO_STATUS[events[i].event_type]

FlagStands(events, k, rows, late) ==
    \A t \in TransactionId : rows.reconciliation[t] # None =>
        LET r == rows.reconciliation[t]
        IN  /\ r.payment_status = rows.transactions[t].current_status
            /\ r.settlement_status = "settled" <=> Settles(events, k, t)
            /\ r.settlement_status = "pending" <=>
                  ~Settles(events, k, t) /\ ~Has(events, k, t, "payment_failed")
            /\ r.discrepancy_flag <=>
                  FailsLate(events, k, t) \/ (late /\ ProcessedLate(events, k, t))
            /\ r.discrepancy_flag <=> r.discrepancy_reason # None

\* A transaction is settled exactly when an entry settles it.
LEMMA SettledHasEntry ==
    ASSUME NEW events \in Seq(FileEvent), NEW k \in 0..Len(events), NEW rows,
           StatusStands(events, k, rows), NEW t \in TransactionId, rows.transactions[t] # None
    PROVE  rows.transactions[t].current_status = "settled" <=> Has(events, k, t, "settled")
<1>1. PICK i \in 1..k : /\ DecidesIn(events, k, t, i)
                        /\ rows.transactions[t].current_status
                              = EVENT_TO_STATUS[events[i].event_type]
  BY DEF StatusStands
<1>2. \A j \in 1..k : events[j] \in FileEvent
  OBVIOUS
<1>3. \A j \in 1..k : /\ events[j].event_type \in EventType
                      /\ RankAt(events, j) \in 0..2
                      /\ RankAt(events, j) = 2 <=> events[j].event_type = "settled"
                      /\ EVENT_TO_STATUS[events[j].event_type] = "settled"
                            <=> events[j].event_type = "settled"
  BY <1>2 DEF FileEvent, EventType, RankAt, STATUS_RANK, EVENT_TO_STATUS
<1>4. ASSUME Has(events, k, t, "settled")
      PROVE  events[i].event_type = "settled"
  <2>1. PICK j \in 1..k : About(events, t, j) /\ events[j].event_type = "settled"
    BY <1>4 DEF Has
  <2> QED
    BY <1>1, <1>3, <2>1 DEF DecidesIn
<1> QED
  BY <1>1, <1>3, <1>4 DEF Has, DecidesIn

\* An entry changes the rows of its own transaction alone.
LEMMA EntryChangesItsRows ==
    ASSUME NEW rows, NEW ev, NEW late, NEW new, new = SeedEvent(rows, ev, late),
           rows.transactions \in [TransactionId -> Transaction \cup {None}],
           rows.reconciliation \in [TransactionId -> ReconciliationRecord \cup {None}],
           NEW t \in TransactionId
    PROVE  /\ ev.transaction_id = t =>
                /\ new.transactions[t] = UpsertTransaction(rows.transactions[t], ev)
                /\ new.reconciliation[t] =
                     SeedReconciliation(rows.reconciliation[t],
                                        new.transactions[t].current_status, ev, late)
           /\ ev.transaction_id # t =>
                /\ new.transactions[t] = rows.transactions[t]
                /\ new.reconciliation[t] = rows.reconciliation[t]
BY DEF SeedEvent

LEMMA StatusStep ==
    ASSUME NEW events \in Seq(FileEvent), NEW k \in 1..Len(events), NEW rows, NEW late,
           RowsStand(events, k - 1, rows), StatusStands(events, k - 1, rows)
    PROVE  StatusStands(events, k, SeedEvent(rows, events[k], late))
<1>1. PICK new : new = SeedEvent(rows, events[k], late)
  OBVIOUS
<1>5. \A t \in TransactionId :
         /\ About(events, t, k) =>
               new.transactions[t] = UpsertTransaction(rows.transactions[t], events[k])
         /\ ~About(events, t, k) => new.transactions[t] = rows.transactions[t]
  <2>1. /\ rows.transactions \in [TransactionId -> Transaction \cup {None}]
        /\ rows.reconciliation \in [TransactionId -> ReconciliationRecord \cup {None}]
    BY DEF RowsStand
  <2> QED
    BY <1>1, <2>1, EntryChangesItsRows DEF About
<1>2. /\ k \in Nat /\ k \in 1..k
      /\ \A i \in 1..k : i = k \/ i \in 1..(k - 1)
      /\ \A i \in 1..(k - 1) : i \in 1..k /\ i < k
      /\ \A i \in 1..k : events[i] \in FileEvent
  OBVIOUS
<1>3. \A i \in 1..k : /\ EVENT_TO_STATUS[events[i].event_type] \in TransactionStatus
                      /\ RankAt(events, i) \in Nat
  BY <1>2 DEF FileEvent, EventType, RankAt, STATUS_RANK, EVENT_TO_STATUS, TransactionStatus
<1>4. ASSUME NEW t \in TransactionId, new.transactions[t] # None
      PROVE  \E i \in 1..k : /\ DecidesIn(events, k, t, i)
                             /\ new.transactions[t].current_status
                                   = EVENT_TO_STATUS[events[i].event_type]
  <2>1. CASE ~About(events, t, k)
    <3>1. new.transactions[t] = rows.transactions[t]
      BY <1>5, <2>1
    <3>2. PICK i \in 1..(k - 1) : /\ DecidesIn(events, k - 1, t, i)
                                  /\ rows.transactions[t].current_status
                                        = EVENT_TO_STATUS[events[i].event_type]
      BY <1>4, <3>1 DEF StatusStands
    <3>3. DecidesIn(events, k, t, i)
      BY <1>2, <2>1, <3>2 DEF DecidesIn
    <3> QED
      BY <1>2, <3>1, <3>2, <3>3
  <2>2. CASE About(events, t, k) /\ rows.transactions[t] = None
    <3>1. new.transactions[t].current_status = EVENT_TO_STATUS[events[k].event_type]
      <4>1. new.transactions[t] = UpsertTransaction(rows.transactions[t], events[k])
        BY <1>5, <2>2
      <4> QED
        BY <2>2, <4>1 DEF UpsertTransaction
    <3>2. \A i \in 1..(k - 1) : ~About(events, t, i)
      BY <2>2 DEF RowsStand, About
    <3>3. DecidesIn(events, k, t, k)
      BY <1>2, <1>3, <2>2, <3>2 DEF DecidesIn
    <3> QED
      BY <1>2, <3>1, <3>3
  <2>3. CASE About(events, t, k) /\ rows.transactions[t] # None
    <3> DEFINE old == rows.transactions[t].current_status
               incoming == EVENT_TO_STATUS[events[k].event_type]
    <3>1. PICK i \in 1..(k - 1) : /\ DecidesIn(events, k - 1, t, i)
                                  /\ old = EVENT_TO_STATUS[events[i].event_type]
      BY <2>3 DEF StatusStands
    <3>2. new.transactions[t].current_status =
             IF STATUS_RANK[incoming] > STATUS_RANK[old] THEN incoming ELSE old
      <4>1. new.transactions[t] = UpsertTransaction(rows.transactions[t], events[k])
        BY <1>5, <2>3
      <4>2. rows.transactions[t] \in Transaction
        BY <2>3 DEF RowsStand
      <4> QED
        BY <2>3, <4>1, <4>2 DEF UpsertTransaction, Transaction, should_advance
    <3>3. STATUS_RANK[incoming] = RankAt(events, k) /\ STATUS_RANK[old] = RankAt(events, i)
      BY <3>1 DEF RankAt
    <3>4. CASE RankAt(events, k) > RankAt(events, i)
      <4>1. DecidesIn(events, k, t, k)
        BY <1>2, <1>3, <2>3, <3>1, <3>4 DEF DecidesIn
      <4> QED
        BY <1>2, <3>2, <3>3, <3>4, <4>1
    <3>5. CASE ~(RankAt(events, k) > RankAt(events, i))
      <4>1. DecidesIn(events, k, t, i)
        BY <1>2, <1>3, <2>3, <3>1, <3>5 DEF DecidesIn
      <4> QED
        BY <1>2, <3>1, <3>2, <3>3, <3>5, <4>1
    <3> QED
      BY <3>4, <3>5
  <2> QED
    BY <2>1, <2>2, <2>3
<1> QED
  BY <1>1, <1>4 DEF StatusStands

\* The reconciliation row of a transaction that had one, after an entry that leaves the
\* transaction in status `current'.
LEMMA SeedReconciliationRules ==
    ASSUME NEW r \in ReconciliationRecord, NEW current, NEW ev \in FileEvent,
           NEW late \in BOOLEAN, NEW new, new = SeedReconciliation(r, current, ev, late),
           ev.event_type = "settled" => current # "failed",
           r.discrepancy_flag <=> r.discrepancy_reason # None
    PROVE  /\ new.payment_status = current
           /\ new.settlement_status =
                 IF ev.event_type = "settled" THEN "settled"
                 ELSE IF ev.event_type = "payment_failed" /\ r.settlement_status # "settled"
                 THEN "not_applicable"
                 ELSE r.settlement_status
           /\ new.discrepancy_flag <=>
                 \/ r.discrepancy_flag
                 \/ ev.event_type = "payment_failed" /\ r.settlement_status = "settled"
                 \/ late /\ ev.event_type = "payment_processed" /\ current = "settled"
           /\ new.discrepancy_flag <=> new.discrepancy_reason # None
<1> DEFINE conflict == Conflict(current, current, r.settlement_status, ev)
           reason == IF ev.event_type = "payment_processed" /\ ~late THEN None ELSE conflict
<1>1. /\ r # None
      /\ None \notin {"settled_after_failed", "failed_after_settled", "processed_after_settled"}
  BY NoneAssumption DEF ReconciliationRecord, DiscrepancyReason
<1>2. conflict = CASE ev.event_type = "settled" /\ current = "failed" -> "settled_after_failed"
                   [] ev.event_type = "payment_failed" /\ r.settlement_status = "settled"
                        -> "failed_after_settled"
                   [] ev.event_type = "payment_processed" /\ current = "settled"
                        -> "processed_after_settled"
                   [] OTHER -> None
  BY DEF Conflict
<1> HIDE DEF conflict
<1>3. /\ new.payment_status = current
      /\ new.settlement_status = SettlementAfter(r.settlement_status, conflict, ev)
      /\ new.discrepancy_flag = (r.discrepancy_flag \/ reason # None)
      /\ new.discrepancy_reason = IF reason # None THEN reason ELSE r.discrepancy_reason
  BY <1>1 DEF SeedReconciliation, UpdateReconciliation, conflict
<1>4. ev.event_type \in EventType
  BY DEF FileEvent
<1>5. conflict # None <=>
         \/ ev.event_type = "payment_failed" /\ r.settlement_status = "settled"
         \/ ev.event_type = "payment_processed" /\ current = "settled"
  BY <1>1, <1>2, <1>4 DEF EventType
<1>6. new.settlement_status =
         IF ev.event_type = "settled" THEN "settled"
         ELSE IF ev.event_type = "payment_failed" /\ r.settlement_status # "settled"
         THEN "not_applicable"
         ELSE r.settlement_status
  BY <1>3, <1>4, <1>5 DEF SettlementAfter, EventType
<1>7. reason # None <=>
         \/ ev.event_type = "payment_failed" /\ r.settlement_status = "settled"
         \/ late /\ ev.event_type = "payment_processed" /\ current = "settled"
  BY <1>4, <1>5 DEF EventType
<1> HIDE DEF reason
<1> QED
  BY <1>3, <1>6, <1>7

LEMMA FlagStep ==
    ASSUME NEW events \in Seq(FileEvent), NEW k \in 1..Len(events), NEW rows,
           NEW late \in BOOLEAN,
           RowsStand(events, k - 1, rows), StatusStands(events, k - 1, rows),
           FlagStands(events, k - 1, rows, late)
    PROVE  FlagStands(events, k, SeedEvent(rows, events[k], late), late)
<1>1. PICK new : new = SeedEvent(rows, events[k], late)
  OBVIOUS
<1>2. /\ rows.transactions \in [TransactionId -> Transaction \cup {None}]
      /\ rows.reconciliation \in [TransactionId -> ReconciliationRecord \cup {None}]
      /\ events[k] \in FileEvent /\ k \in Nat /\ k - 1 \in 0..Len(events)
  BY DEF RowsStand
<1>3. RowsStand(events, k, new) /\ StatusStands(events, k, new)
  BY <1>1, SeedEventStands, StatusStep
<1>4. ASSUME NEW t \in TransactionId, new.reconciliation[t] # None
      PROVE  LET r == new.reconciliation[t]
             IN  /\ r.payment_status = new.transactions[t].current_status
                 /\ r.settlement_status = "settled" <=> Settles(events, k, t)
                 /\ r.settlement_status = "pending" <=>
                       ~Settles(events, k, t) /\ ~Has(events, k, t, "payment_failed")
                 /\ r.discrepancy_flag <=>
                       FailsLate(events, k, t) \/ (late /\ ProcessedLate(events, k, t))
                 /\ r.discrepancy_flag <=> r.discrepancy_reason # None
  <2>1. /\ Has(events, k, t, "payment_failed") <=>
              \/ Has(events, k - 1, t, "payment_failed")
              \/ About(events, t, k) /\ events[k].event_type = "payment_failed"
        /\ Settles(events, k, t) <=>
              \/ Settles(events, k - 1, t)
              \/ /\ About(events, t, k) /\ events[k].event_type = "settled"
                 /\ \E h \in 1..(k - 1) : About(events, t, h)
        /\ FailsLate(events, k, t) <=>
              \/ FailsLate(events, k - 1, t)
              \/ /\ About(events, t, k) /\ events[k].event_type = "payment_failed"
                 /\ Settles(events, k - 1, t)
        /\ ProcessedLate(events, k, t) <=>
              \/ ProcessedLate(events, k - 1, t)
              \/ /\ About(events, t, k) /\ events[k].event_type = "payment_processed"
                 /\ Has(events, k - 1, t, "settled")
    BY EntryAdds
  <2>2. CASE ~About(events, t, k)
    <3>1. /\ new.transactions[t] = rows.transactions[t]
          /\ new.reconciliation[t] = rows.reconciliation[t]
      BY <1>1, <1>2, <2>2, EntryChangesItsRows DEF About
    <3> QED
      BY <1>4, <2>1, <2>2, <3>1 DEF FlagStands
  <2>3. CASE About(events, t, k) /\ rows.reconciliation[t] = None
    <3>1. \A i \in 1..(k - 1) : ~About(events, t, i)
      BY <2>3 DEF RowsStand, About
    <3>2. /\ ~Has(events, k - 1, t, "payment_failed") /\ ~Has(events, k - 1, t, "settled")
          /\ ~Settles(events, k - 1, t) /\ ~FailsLate(events, k - 1, t)
          /\ ~ProcessedLate(events, k - 1, t)
      BY <3>1 DEF Has, Settles, FailsLate, ProcessedLate
    <3>3. rows.transactions[t] = None
      BY <2>3 DEF RowsStand
    <3>4. /\ new.transactions[t] = UpsertTransaction(None, events[k])
          /\ new.reconciliation[t] = NewReconciliation(events[k])
      <4>1. /\ new.transactions[t] = UpsertTransaction(rows.transactions[t], events[k])
            /\ new.reconciliation[t] =
                 SeedReconciliation(rows.reconciliation[t],
                                    new.transactions[t].current_status, events[k], late)
        BY <1>1, <1>2, <2>3, EntryChangesItsRows DEF About
      <4> QED
        BY <2>3, <3>3, <4>1 DEF SeedReconciliation
    <3>5. new.reconciliation[t].payment_status = new.transactions[t].current_status
      BY <3>4 DEF UpsertTransaction, NewReconciliation
    <3>6. /\ new.reconciliation[t].settlement_status =
                IF events[k].event_type = "payment_failed" THEN "not_applicable" ELSE "pending"
          /\ new.reconciliation[t].discrepancy_flag = FALSE
          /\ new.reconciliation[t].discrepancy_reason = None
      BY <3>4 DEF NewReconciliation, InitialSettlement
    <3> QED
      BY <2>1, <2>3, <3>1, <3>2, <3>5, <3>6
  <2>4. CASE About(events, t, k) /\ rows.reconciliation[t] # None
    <3>1. PICK r \in ReconciliationRecord : r = rows.reconciliation[t]
      BY <1>2, <2>4
    <3>2. PICK current : current = new.transactions[t].current_status
      OBVIOUS
    <3>3. /\ rows.transactions[t] # None /\ new.transactions[t] # None
          /\ new.transactions[t] \in Transaction
          /\ \E h \in 1..(k - 1) : About(events, t, h)
      BY <1>3, <1>4, <2>4 DEF RowsStand, About
    <3>4. new.reconciliation[t] = SeedReconciliation(r, current, events[k], late)
      BY <1>1, <1>2, <2>4, <3>1, <3>2, EntryChangesItsRows DEF About
    <3>5. current = "settled" <=> Has(events, k, t, "settled")
      BY <1>2, <1>3, <3>2, <3>3, SettledHasEntry
    <3>6. /\ events[k].event_type = "settled" => current = "settled"
          /\ events[k].event_type = "payment_processed" =>
                (current = "settled" <=> Has(events, k - 1, t, "settled"))
      <4>1. Has(events, k, t, "settled") <=>
               Has(events, k - 1, t, "settled") \/ events[k].event_type = "settled"
        BY <2>4, EntryAdds
      <4> QED
        BY <3>5, <4>1
    <3>7. /\ r.settlement_status = "settled" <=> Settles(events, k - 1, t)
          /\ r.settlement_status = "pending" <=>
                ~Settles(events, k - 1, t) /\ ~Has(events, k - 1, t, "payment_failed")
          /\ r.discrepancy_flag <=>
                FailsLate(events, k - 1, t) \/ (late /\ ProcessedLate(events, k - 1, t))
          /\ r.discrepancy_flag <=> r.discrepancy_reason # None
      BY <2>4, <3>1 DEF FlagStands
    <3>8. PICK q : q = new.reconciliation[t]
      OBVIOUS
    <3>9. /\ q.payment_status = current
          /\ q.settlement_status =
                IF events[k].event_type = "settled" THEN "settled"
                ELSE IF events[k].event_type = "payment_failed" /\ r.settlement_status # "settled"
                THEN "not_applicable"
                ELSE r.settlement_status
          /\ q.discrepancy_flag <=>
                \/ r.discrepancy_flag
                \/ events[k].event_type = "payment_failed" /\ r.settlement_status = "settled"
                \/ late /\ events[k].event_type = "payment_processed" /\ current = "settled"
          /\ q.discrepancy_flag <=> q.discrepancy_reason # None
      BY <1>2, <3>4, <3>6, <3>7, <3>8, SeedReconciliationRules
    <3>10. /\ q.settlement_status = "settled" <=> Settles(events, k, t)
           /\ q.settlement_status = "pending" <=>
                 ~Settles(events, k, t) /\ ~Has(events, k, t, "payment_failed")
      BY <2>1, <2>4, <3>3, <3>7, <3>9
    <3>11. q.discrepancy_flag <=>
              FailsLate(events, k, t) \/ (late /\ ProcessedLate(events, k, t))
      BY <2>1, <2>4, <3>6, <3>7, <3>9
    <3> QED
      BY <3>2, <3>8, <3>9, <3>10, <3>11
  <2> QED
    BY <2>2, <2>3, <2>4
<1> QED
  BY <1>1, <1>4 DEF FlagStands

\* After every number of entries the rows are what these say.
LEMMA EntriesStand ==
    ASSUME NEW events \in Seq(FileEvent), NEW late \in BOOLEAN,
           NEW rows, rows = StatesAfter(events, late), NEW k \in 0..Len(events)
    PROVE  /\ RowsStand(events, k, rows[k]) /\ StatusStands(events, k, rows[k])
           /\ FlagStands(events, k, rows[k], late)
<1> DEFINE Stands(n) == /\ RowsStand(events, n, rows[n]) /\ StatusStands(events, n, rows[n])
                        /\ FlagStands(events, n, rows[n], late)
           Fails == {n \in 0..Len(events) : ~Stands(n)}
<1>1. Len(events) \in Nat
  OBVIOUS
<1>2. /\ rows[0] = NoRows
      /\ \A n \in 1..Len(events) : rows[n] = SeedEvent(rows[n - 1], events[n], late)
  BY StatesAfterEntries
<1>3. Stands(0)
  <2>1. RowsStand(events, 0, rows[0])
    BY <1>2, NoRowsStand
  <2> QED
    BY <1>2, <2>1 DEF StatusStands, FlagStands, NoRows
<1>4. ASSUME NEW n \in 1..Len(events), Stands(n - 1)
      PROVE  Stands(n)
  <2>1. rows[n] = SeedEvent(rows[n - 1], events[n], late)
    BY <1>2
  <2> QED
    BY <1>4, <2>1, SeedEventStands, StatusStep, FlagStep
<1>5. Fails = {}
  <2> HIDE DEF Stands
  <2> SUFFICES ASSUME Fails # {}
               PROVE  FALSE
    OBVIOUS
  <2>1. PICK n \in Fails : \A m \in Fails : n <= m
    <3>1. Fails \subseteq Nat
      BY <1>1
    <3> HIDE DEF Fails
    <3> QED
      BY <3>1, LeastNatural
  <2>2. n # 0 /\ n \in 1..Len(events)
    BY <1>1, <1>3
  <2>3. n - 1 \in 0..Len(events) /\ ~(n <= n - 1)
    BY <1>1, <2>2
  <2>4. Stands(n - 1)
    BY <2>1, <2>3
  <2> QED
    BY <1>4, <2>2, <2>4
<1> QED
  BY <1>5

-----------------------------------------------------------------------------
(* What is computed from the whole file.                                    *)

LEMMA FlagStuckType ==
    ASSUME NEW row \in ReconciliationRecord \cup {None}, NEW transaction
    PROVE  /\ FlagStuck(row, transaction) \in ReconciliationRecord \cup {None}
           /\ FlagStuck(row, transaction) = None <=> row = None
           /\ row # None =>
                 /\ FlagStuck(row, transaction).payment_status = row.payment_status
                 /\ FlagStuck(row, transaction).settlement_status = row.settlement_status
                 /\ FlagStuck(row, transaction).discrepancy_flag <=>
                       \/ row.discrepancy_flag
                       \/ /\ transaction.current_status = "processed"
                          /\ row.settlement_status = "pending"
                 /\ (row.discrepancy_flag <=> row.discrepancy_reason # None)
                       => (FlagStuck(row, transaction).discrepancy_flag
                             <=> FlagStuck(row, transaction).discrepancy_reason # None)
<1>1. CASE row = None
  BY <1>1 DEF FlagStuck
<1>2. CASE row # None
  <2>1. FlagStuck(row, transaction) \in ReconciliationRecord
    BY <1>2 DEF FlagStuck, ReconciliationRecord, DiscrepancyReason
  <2>2. FlagStuck(row, transaction) # None
    BY <2>1, NoneAssumption DEF ReconciliationRecord
  <2>3. /\ FlagStuck(row, transaction).payment_status = row.payment_status
        /\ FlagStuck(row, transaction).settlement_status = row.settlement_status
    BY <1>2 DEF FlagStuck, ReconciliationRecord
  <2>4. FlagStuck(row, transaction).discrepancy_flag <=>
           \/ row.discrepancy_flag
           \/ /\ transaction.current_status = "processed"
              /\ row.settlement_status = "pending"
    BY <1>2 DEF FlagStuck, ReconciliationRecord
  <2>5. (row.discrepancy_flag <=> row.discrepancy_reason # None)
           => (FlagStuck(row, transaction).discrepancy_flag
                 <=> FlagStuck(row, transaction).discrepancy_reason # None)
    BY <1>2, NoneAssumption DEF FlagStuck, ReconciliationRecord, DiscrepancyReason
  <2> QED
    BY <1>2, <2>1, <2>2, <2>3, <2>4, <2>5
<1> QED
  BY <1>1, <1>2

\* The rows from which c is computed by flagging the transactions that are stuck.
UnflaggedOf(s, n, c, rows, late) ==
    /\ RowsStand(s, n, rows) /\ FlagStands(s, n, rows, late)
    /\ rows.transactions = c.transactions
    /\ c.reconciliation = [t \in TransactionId |->
                              FlagStuck(rows.reconciliation[t], c.transactions[t])]

\* The rows of a file, before and after stuck transactions are flagged.
LEMMA StatesStand ==
    ASSUME NEW events \in Seq(FileEvent), NEW late \in BOOLEAN,
           NEW c, c = ComputeStates(events, late),
           NEW s, s = Chronological(events), NEW n, n = Len(events)
    PROVE  /\ s \in Seq(FileEvent) /\ Len(s) = n /\ n \in Nat
           /\ c = [merchants |-> c.merchants, transactions |-> c.transactions,
                   reconciliation |-> c.reconciliation]
           /\ RowsStand(s, n, c) /\ StatusStands(s, n, c)
           /\ \E rows : UnflaggedOf(s, n, c, rows, late)
<1>1. s \in Seq(FileEvent) /\ Len(s) = n /\ n \in Nat
  BY ChronologicalEntries
<1>3. PICK all : all = StatesAfter(s, late)
  OBVIOUS
<1>4. PICK rows : rows = all[n]
  OBVIOUS
<1>5. /\ RowsStand(s, n, rows) /\ StatusStands(s, n, rows)
      /\ FlagStands(s, n, rows, late)
  BY <1>1, <1>3, <1>4, EntriesStand
<1>6. c = [rows EXCEPT !.reconciliation =
              [t \in TransactionId |-> FlagStuck(@[t], rows.transactions[t])]]
  BY <1>3, <1>4 DEF ComputeStates
<1>7. /\ rows \in [merchants : [MerchantId -> MerchantName \cup {None}],
                   transactions : [TransactionId -> Transaction \cup {None}],
                   reconciliation : [TransactionId -> ReconciliationRecord \cup {None}]]
  BY <1>5 DEF RowsStand
<1>8. /\ c.merchants = rows.merchants /\ c.transactions = rows.transactions
      /\ c.reconciliation = [t \in TransactionId |->
             FlagStuck(rows.reconciliation[t], c.transactions[t])]
      /\ c = [merchants |-> c.merchants, transactions |-> c.transactions,
              reconciliation |-> c.reconciliation]
  BY <1>6, <1>7
<1>9. \A t \in TransactionId :
         /\ c.reconciliation[t] \in ReconciliationRecord \cup {None}
         /\ c.reconciliation[t] = None <=> rows.reconciliation[t] = None
  <2> SUFFICES ASSUME NEW t \in TransactionId
               PROVE  /\ c.reconciliation[t] \in ReconciliationRecord \cup {None}
                      /\ c.reconciliation[t] = None <=> rows.reconciliation[t] = None
    OBVIOUS
  <2>1. PICK row, transaction : row = rows.reconciliation[t] /\ transaction = c.transactions[t]
    OBVIOUS
  <2>2. row \in ReconciliationRecord \cup {None} /\ c.reconciliation[t] = FlagStuck(row, transaction)
    <3>1. rows.reconciliation \in [TransactionId -> ReconciliationRecord \cup {None}]
      BY <1>7
    <3> QED
      BY <1>8, <2>1, <3>1
  <2>3. /\ FlagStuck(row, transaction) \in ReconciliationRecord \cup {None}
        /\ FlagStuck(row, transaction) = None <=> row = None
    BY <2>2, FlagStuckType
  <2> QED
    BY <2>1, <2>2, <2>3
<1>10. c \in [merchants : [MerchantId -> MerchantName \cup {None}],
              transactions : [TransactionId -> Transaction \cup {None}],
              reconciliation : [TransactionId -> ReconciliationRecord \cup {None}]]
  BY <1>7, <1>8, <1>9
<1>11. RowsStand(s, n, c)
  BY <1>5, <1>8, <1>9, <1>10 DEF RowsStand
<1>12. StatusStands(s, n, c)
  BY <1>5, <1>8 DEF StatusStands
<1>13. UnflaggedOf(s, n, c, rows, late)
  BY <1>5, <1>8 DEF UnflaggedOf
<1> QED
  BY <1>1, <1>8, <1>11, <1>12, <1>13
=============================================================================
