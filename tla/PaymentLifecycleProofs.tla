----------------------- MODULE PaymentLifecycleProofs -----------------------
(* Facts about the rules of PaymentLifecycle that the proofs about the      *)
(* modules built on them cite.                                              *)
EXTENDS PaymentLifecycle, FiniteSetsExt, FiniteSetTheorems, NaturalsInduction,
        WellFoundedInduction, TLAPS

\* A set of natural numbers has a least one: induction, for a set of counterexamples.
LEMMA LeastNatural ==
    ASSUME NEW S, S \subseteq Nat, S # {}
    PROVE  \E n \in S : \A m \in S : n <= m
<1>1. PICK n \in S : \A m \in S : <<m, n>> \notin OpToRel(<, Nat)
  BY NatLessThanWellFounded, WFMin
<1>2. \A m \in S : ~(m < n)
  BY <1>1 DEF OpToRel
<1> QED
  BY <1>2

\* Each event type has a status, and each status a rank.
LEMMA StatusOfEvent ==
    ASSUME NEW p \in PaymentEvent
    PROVE  EVENT_TO_STATUS[p.event_type] \in TransactionStatus
BY DEF PaymentEvent, EventType, TransactionStatus, EVENT_TO_STATUS

LEMMA RankOfStatus ==
    ASSUME NEW s \in TransactionStatus
    PROVE  STATUS_RANK[s] \in 0..2
BY DEF TransactionStatus, STATUS_RANK

\* The transaction rule gives a transaction row.
LEMMA UpsertTransactionType ==
    ASSUME NEW row \in Transaction \cup {None}, NEW p \in PaymentEvent
    PROVE  UpsertTransaction(row, p) \in Transaction
<1>1. EVENT_TO_STATUS[p.event_type] \in TransactionStatus
  BY StatusOfEvent
<1>2. p.merchant_id \in MerchantId
  BY DEF PaymentEvent
<1>3. CASE row = None
  BY <1>1, <1>2, <1>3 DEF UpsertTransaction, Transaction
<1>4. CASE row # None
  BY <1>1, <1>4 DEF UpsertTransaction, Transaction
<1> QED BY <1>3, <1>4

\* The transaction rule only moves the status of a row forward, and keeps its merchant.
LEMMA UpsertTransactionForward ==
    ASSUME NEW row \in Transaction, NEW p \in PaymentEvent
    PROVE  LET new == UpsertTransaction(row, p)
           IN  /\ new.merchant_id = row.merchant_id
               /\ new = row \/ should_advance(row.current_status, new.current_status)
<1>1. row # None
  BY NoneAssumption DEF Transaction
<1>2. EVENT_TO_STATUS[p.event_type] \in TransactionStatus
  BY StatusOfEvent
<1>3. CASE should_advance(row.current_status, EVENT_TO_STATUS[p.event_type])
  BY <1>1, <1>2, <1>3 DEF UpsertTransaction, Transaction
<1>4. CASE ~should_advance(row.current_status, EVENT_TO_STATUS[p.event_type])
  BY <1>1, <1>2, <1>4 DEF UpsertTransaction, Transaction
<1> QED BY <1>3, <1>4

\* A conflict is one of the three named ones.
LEMMA ConflictType ==
    ASSUME NEW previous, NEW current, NEW settlement, NEW p
    PROVE  Conflict(previous, current, settlement, p)
              \in {None, "settled_after_failed", "failed_after_settled",
                   "processed_after_settled"}
BY DEF Conflict

LEMMA NewReconciliationType ==
    ASSUME NEW p \in PaymentEvent
    PROVE  NewReconciliation(p) \in ReconciliationRecord
BY StatusOfEvent DEF NewReconciliation, InitialSettlement, ReconciliationRecord, SettlementStatus

LEMMA UpdateReconciliationType ==
    ASSUME NEW row \in ReconciliationRecord, NEW previous, NEW current \in TransactionStatus,
           NEW p \in PaymentEvent
    PROVE  UpdateReconciliation(row, previous, current, p) \in ReconciliationRecord
<1> DEFINE reason == Conflict(previous, current, row.settlement_status, p)
<1>1. reason \in DiscrepancyReason \cup {None}
  BY ConflictType DEF DiscrepancyReason
<1>2. p.event_id \in EventId
  BY DEF PaymentEvent
<1>3. /\ row.settlement_status \in SettlementStatus
      /\ row.settled_at \in EventId \cup {None}
  BY DEF ReconciliationRecord
<1> HIDE DEF reason
<1>4. UpdateReconciliation(row, previous, current, p) =
        [payment_status |-> current,
         settlement_status |-> IF p.event_type = "settled" /\ reason = None THEN "settled"
                               ELSE IF p.event_type = "payment_failed" /\ reason = None
                               THEN "not_applicable"
                               ELSE row.settlement_status,
         discrepancy_flag |-> reason # None,
         discrepancy_reason |-> reason,
         settled_at |-> IF p.event_type = "settled" /\ reason = None
                        THEN p.event_id ELSE row.settled_at]
  BY DEF UpdateReconciliation, SettlementAfter, reason
<1> QED
  BY <1>1, <1>2, <1>3, <1>4 DEF ReconciliationRecord, SettlementStatus

\* The reconciliation rule gives a reconciliation row.
LEMMA UpsertReconciliationType ==
    ASSUME NEW recon \in ReconciliationRecord \cup {None},
           NEW row \in Transaction \cup {None}, NEW p \in PaymentEvent
    PROVE  UpsertReconciliation(recon, row, p) \in ReconciliationRecord
<1>1. UpsertTransaction(row, p).current_status \in TransactionStatus
  BY UpsertTransactionType DEF Transaction
<1>2. CASE recon = None
  BY <1>2, NewReconciliationType DEF UpsertReconciliation
<1>3. CASE recon # None
  BY <1>1, <1>3, UpdateReconciliationType DEF UpsertReconciliation
<1> QED BY <1>2, <1>3

\* The reconciliation row takes over the status of the transaction row.
LEMMA UpsertReconciliationStatus ==
    ASSUME NEW recon, NEW row, NEW p, row = None <=> recon = None
    PROVE  UpsertReconciliation(recon, row, p).payment_status
              = UpsertTransaction(row, p).current_status
<1>1. CASE recon = None /\ row = None
  BY <1>1 DEF UpsertReconciliation, NewReconciliation, UpsertTransaction
<1>2. CASE recon # None
  BY <1>2 DEF UpsertReconciliation, UpdateReconciliation
<1> QED BY <1>1, <1>2

\* The rules keep a settlement to settled transactions, and close failed ones.
LEMMA UpsertSettlement ==
    ASSUME NEW recon \in ReconciliationRecord \cup {None},
           NEW row \in Transaction \cup {None}, NEW p \in PaymentEvent,
           row = None <=> recon = None,
           row # None => /\ recon.settlement_status = "settled"
                              => row.current_status = "settled"
                         /\ row.current_status = "failed"
                              => recon.settlement_status = "not_applicable"
    PROVE  LET new == UpsertTransaction(row, p)
               rec == UpsertReconciliation(recon, row, p)
           IN  /\ rec.settlement_status = "settled" => new.current_status = "settled"
               /\ new.current_status = "failed"
                    => rec.settlement_status = "not_applicable"
<1> DEFINE new == UpsertTransaction(row, p)
           rec == UpsertReconciliation(recon, row, p)
           status == EVENT_TO_STATUS[p.event_type]
<1>1. p.event_type \in EventType
  BY DEF PaymentEvent
<1>2. CASE row = None
  <2>1. /\ new.current_status = status
        /\ rec.settlement_status = IF p.event_type = "payment_failed"
                                   THEN "not_applicable" ELSE "pending"
    BY <1>2 DEF UpsertTransaction, UpsertReconciliation, NewReconciliation,
                InitialSettlement
  <2> QED BY <1>1, <2>1 DEF EventType, EVENT_TO_STATUS
<1>3. CASE row # None
  <2>1. row \in Transaction /\ recon \in ReconciliationRecord
    BY <1>3
  <2>2. row.current_status \in TransactionStatus
    BY <2>1 DEF Transaction
  <2>3. new.current_status = IF should_advance(row.current_status, status)
                             THEN status ELSE row.current_status
    BY <1>3, <2>1 DEF UpsertTransaction, Transaction
  <2> DEFINE reason == Conflict(row.current_status, new.current_status,
                                recon.settlement_status, p)
  <2>4. rec.settlement_status = IF p.event_type = "settled" /\ reason = None THEN "settled"
                                ELSE IF p.event_type = "payment_failed" /\ reason = None
                                THEN "not_applicable"
                                ELSE recon.settlement_status
    BY <1>3 DEF UpsertReconciliation, UpdateReconciliation, SettlementAfter, StatusBefore
  <2> HIDE DEF new, rec
  <2>5. CASE p.event_type = "payment_initiated"
    <3>1. new.current_status = row.current_status
      BY <2>2, <2>3, <2>5
         DEF TransactionStatus, should_advance, STATUS_RANK, EVENT_TO_STATUS
    <3> QED BY <1>3, <2>4, <2>5, <3>1 DEF new, rec
  <2>6. CASE p.event_type = "payment_processed"
    <3>1. new.current_status = IF row.current_status = "initiated"
                               THEN "processed" ELSE row.current_status
      BY <2>2, <2>3, <2>6
         DEF TransactionStatus, should_advance, STATUS_RANK, EVENT_TO_STATUS
    <3> QED BY <1>3, <2>4, <2>6, <3>1 DEF new, rec
  <2>7. CASE p.event_type = "payment_failed"
    <3>1. new.current_status = IF row.current_status = "initiated"
                               THEN "failed" ELSE row.current_status
      BY <2>2, <2>3, <2>7
         DEF TransactionStatus, should_advance, STATUS_RANK, EVENT_TO_STATUS
    <3>2. recon.settlement_status = "settled" \/ reason = None
      BY <2>7 DEF Conflict
    <3> QED BY <1>3, <2>4, <2>7, <3>1, <3>2 DEF new, rec
  <2>8. CASE p.event_type = "settled"
    <3>1. new.current_status = "settled"
      BY <2>2, <2>3, <2>8
         DEF TransactionStatus, should_advance, STATUS_RANK, EVENT_TO_STATUS
    <3> QED BY <3>1 DEF new, rec
  <2> QED BY <1>1, <2>5, <2>6, <2>7, <2>8 DEF EventType
<1> QED BY <1>2, <1>3

\* The conflict of a settlement with a failure is stored in a row that is settled and
\* closed to settlement, not in one that is failed and settled.
LEMMA UpsertSettledAfterFailed ==
    ASSUME NEW recon \in ReconciliationRecord \cup {None},
           NEW row \in Transaction \cup {None}, NEW p \in PaymentEvent,
           row = None <=> recon = None,
           row # None => (row.current_status = "failed"
                            => recon.settlement_status = "not_applicable"),
           UpsertReconciliation(recon, row, p).discrepancy_reason = "settled_after_failed"
    PROVE  /\ UpsertTransaction(row, p).current_status = "settled"
           /\ UpsertReconciliation(recon, row, p).settlement_status = "not_applicable"
<1> DEFINE new == UpsertTransaction(row, p)
           rec == UpsertReconciliation(recon, row, p)
           reason == Conflict(row.current_status, new.current_status,
                              recon.settlement_status, p)
<1>1. row # None /\ recon # None
  <2>1. NewReconciliation(p).discrepancy_reason # "settled_after_failed"
    BY NoneAssumption DEF NewReconciliation, DiscrepancyReason
  <2> QED
    BY <2>1 DEF UpsertReconciliation
<1>2. /\ rec.discrepancy_reason = reason
      /\ rec.settlement_status = SettlementAfter(recon.settlement_status, reason, p)
  BY <1>1 DEF UpsertReconciliation, UpdateReconciliation, StatusBefore
<1>3. p.event_type = "settled" /\ row.current_status = "failed"
  BY <1>2, NoneAssumption DEF Conflict, DiscrepancyReason
<1>4. new.current_status = "settled"
  BY <1>1, <1>3 DEF UpsertTransaction, Transaction, should_advance, STATUS_RANK, EVENT_TO_STATUS
<1>5. rec.settlement_status = recon.settlement_status
  BY <1>2, <1>3, NoneAssumption DEF SettlementAfter, DiscrepancyReason
<1> QED
  BY <1>1, <1>3, <1>4, <1>5

\* The conflict of an event with the row pair that it found, column by column.
LEMMA UpsertColumns ==
    ASSUME NEW recon \in ReconciliationRecord, NEW row \in Transaction, NEW p \in PaymentEvent
    PROVE  LET rec == UpsertReconciliation(recon, row, p)
               conflict ==
                  \/ p.event_type = "settled" /\ row.current_status = "failed"
                  \/ p.event_type = "payment_failed" /\ recon.settlement_status = "settled"
                  \/ p.event_type = "payment_processed" /\ row.current_status = "settled"
           IN  /\ rec.discrepancy_flag <=> conflict
               /\ rec.discrepancy_flag <=> rec.discrepancy_reason # None
               /\ rec.settlement_status =
                     IF conflict THEN recon.settlement_status
                     ELSE IF p.event_type = "settled" THEN "settled"
                     ELSE IF p.event_type = "payment_failed" THEN "not_applicable"
                     ELSE recon.settlement_status
               /\ rec.settled_at = IF p.event_type = "settled" /\ ~conflict
                                   THEN p.event_id ELSE recon.settled_at
<1> DEFINE current == UpsertTransaction(row, p).current_status
           reason == Conflict(row.current_status, current, recon.settlement_status, p)
           conflict ==
              \/ p.event_type = "settled" /\ row.current_status = "failed"
              \/ p.event_type = "payment_failed" /\ recon.settlement_status = "settled"
              \/ p.event_type = "payment_processed" /\ row.current_status = "settled"
<1>1. row # None /\ recon # None
  BY NoneAssumption DEF Transaction, ReconciliationRecord
<1>2. p.event_type = "payment_processed" => (current = "settled" <=> row.current_status = "settled")
  BY <1>1 DEF UpsertTransaction, Transaction, should_advance, STATUS_RANK, EVENT_TO_STATUS
<1>3. reason # None <=> conflict
  BY <1>2, NoneAssumption DEF Conflict, DiscrepancyReason
<1>4. LET rec == UpsertReconciliation(recon, row, p)
      IN  /\ rec.discrepancy_flag = (reason # None)
          /\ rec.discrepancy_reason = reason
          /\ rec.settlement_status = SettlementAfter(recon.settlement_status, reason, p)
          /\ rec.settled_at = IF p.event_type = "settled" /\ reason = None
                              THEN p.event_id ELSE recon.settled_at
  BY <1>1 DEF UpsertReconciliation, UpdateReconciliation, StatusBefore
<1> HIDE DEF reason
<1> QED
  BY <1>3, <1>4 DEF SettlementAfter

-----------------------------------------------------------------------------
(* Sums.                                                                    *)

\* The sum of f[k] over the k of G, as the reports and their properties sum.
SumOver(f, G) == LET Count(k) == f[k] IN MapThenSumSet(Count, G)

\* The sums over the subsets of G, each from that over a smaller one.
Summed(f, sums, G) ==
    [s \in SUBSET G |->
        IF s = {} THEN 0
        ELSE LET x == CHOOSE x \in s : TRUE IN f[x] + sums[s \ {x}]]

\* The sums over the subsets of a finite set are determined by their recursion.
LEMMA SumsAgree ==
    ASSUME NEW G, IsFiniteSet(G), NEW f, NEW sums, sums = Summed(f, sums, G)
    PROVE  SumOver(f, G) = sums[G]
<1> DEFINE it == CHOOSE it : it = Summed(f, it, G)
           Differ == {n \in Nat : \E s \in SUBSET G : Cardinality(s) = n /\ it[s] # sums[s]}
<1>1. it = Summed(f, it, G)
  <2> HIDE DEF Summed
  <2> QED
    OBVIOUS
<1>2. SumOver(f, G) = it[G]
  BY DEF SumOver, MapThenSumSet, MapThenFoldSet, Summed
<1> HIDE DEF it
<1>3. \A s \in SUBSET G : IsFiniteSet(s) /\ Cardinality(s) \in Nat
  BY FS_Subset, FS_CardinalityType
<1>4. Differ = {}
  <2> SUFFICES ASSUME Differ # {}
               PROVE  FALSE
    OBVIOUS
  <2>1. PICK n \in Differ : \A m \in Differ : n <= m
    BY LeastNatural
  <2>2. PICK s \in SUBSET G : Cardinality(s) = n /\ it[s] # sums[s]
    BY <2>1
  <2>3. s # {}
    BY <1>1, <2>2 DEF Summed
  <2>4. PICK x : x = CHOOSE y \in s : TRUE
    OBVIOUS
  <2>5. x \in s
    BY <2>3, <2>4
  <2>6. it[s] = f[x] + it[s \ {x}] /\ sums[s] = f[x] + sums[s \ {x}]
    BY <1>1, <2>3, <2>4 DEF Summed
  <2>7. s \ {x} \in SUBSET G /\ Cardinality(s \ {x}) = n - 1
    BY <1>3, <2>2, <2>5, FS_RemoveElement
  <2>8. it[s \ {x}] # sums[s \ {x}]
    BY <2>2, <2>6
  <2>9. n \in Nat /\ n - 1 \in Nat
    BY <1>3, <2>2, <2>7
  <2>10. n - 1 \in Differ
    BY <2>7, <2>8, <2>9
  <2> HIDE DEF Differ
  <2> QED
    BY <2>1, <2>9, <2>10
<1> QED
  BY <1>2, <1>3, <1>4

\* The members of A that g puts into the groups G.
Members(A, g, G) == {a \in A : g[a] \in G}

\* When f gives the size of each group of a finite set, the sum over some groups is the
\* size of what is in them.
LEMMA GroupsAddUp ==
    ASSUME NEW A, IsFiniteSet(A), NEW g, NEW G, IsFiniteSet(G), NEW f,
           \A k \in G : f[k] = Cardinality(Members(A, g, {k}))
    PROVE  SumOver(f, G) = Cardinality(Members(A, g, G))
<1> DEFINE In(s) == Members(A, g, s)
           sizes == [s \in SUBSET G |-> Cardinality(In(s))]
<1>1. \A s : IsFiniteSet(In(s)) /\ Cardinality(In(s)) \in Nat
  BY FS_Subset, FS_CardinalityType DEF Members
<1>2. ASSUME NEW s \in SUBSET G, s # {}, NEW x, x = CHOOSE y \in s : TRUE
      PROVE  sizes[s] = f[x] + sizes[s \ {x}]
  <2>1. x \in s /\ s \ {x} \in SUBSET G
    BY <1>2
  <2>2. /\ In(s) = In({x}) \cup In(s \ {x})
        /\ In({x}) \cap In(s \ {x}) = {}
    BY <2>1 DEF Members
  <2>4. f[x] = Cardinality(In({x}))
    BY <2>1
  <2> HIDE DEF In
  <2>5. Cardinality(In(s)) = Cardinality(In({x})) + Cardinality(In(s \ {x}))
    <3>1. Cardinality(In(s)) = Cardinality(In({x})) + Cardinality(In(s \ {x})) - Cardinality({})
      BY <1>1, <2>2, FS_Union
    <3> QED
      BY <1>1, <3>1, FS_EmptySet
  <2> QED
    BY <2>1, <2>4, <2>5
<1>3. sizes[{}] = 0
  <2>1. In({}) = {}
    BY DEF Members
  <2> HIDE DEF In
  <2> QED
    BY <2>1, FS_EmptySet
<1>4. sizes = Summed(f, sizes, G)
  <2> HIDE DEF In
  <2>1. \A s \in SUBSET G : sizes[s] = IF s = {} THEN 0
            ELSE LET x == CHOOSE x \in s : TRUE IN f[x] + sizes[s \ {x}]
    <3> HIDE DEF sizes
    <3> QED
      BY <1>2, <1>3
  <2>2. sizes = [s \in SUBSET G |-> sizes[s]]
    OBVIOUS
  <2> HIDE DEF sizes
  <2> QED
    BY <2>1, <2>2 DEF Summed
<1>5. SumOver(f, G) = sizes[G]
  <2> HIDE DEF sizes
  <2> QED
    BY <1>4, SumsAgree
<1> QED
  BY <1>5
=============================================================================
