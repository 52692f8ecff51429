-------------------------- MODULE SeedDatabaseProofs --------------------------
(* Proofs that the seeder computes the rows that its file calls for and     *)
(* leaves them in the tables, wherever it is killed and however often it is *)
(* run again.                                                               *)
EXTENDS SeedDatabase, SeedStateProofs

-----------------------------------------------------------------------------
(* What is computed from the file.                                          *)

\* The rows from which c is computed by flagging the transactions that are stuck.
Unflagged(s, n, c, rows) == UnflaggedOf(s, n, c, rows, FlagsLateProcessed)

\* The rows of the file, before and after stuck transactions are flagged.
LEMMA ComputedStands ==
    ASSUME file \in Seq(FileEvent), NEW c, c = computed, NEW s, s = ByTime, NEW n, n = Len(file)
    PROVE  /\ s \in Seq(FileEvent) /\ Len(s) = n /\ n \in Nat
           /\ c = [merchants |-> c.merchants, transactions |-> c.transactions,
                   reconciliation |-> c.reconciliation]
           /\ RowsStand(s, n, c) /\ StatusStands(s, n, c)
           /\ \E rows : Unflagged(s, n, c, rows)
<1>1. PICK late \in BOOLEAN : late = FlagsLateProcessed
  BY FilesAssumption
<1>2. c = ComputeStates(file, late)
  BY <1>1 DEF computed, compute_final_states, compute_state
<1>3. s = Chronological(file)
  BY DEF ByTime
<1> QED
  BY <1>1, <1>2, <1>3, StatesStand DEF Unflagged

\* The payment_events rows of the file.
FileRows == [k \in DOMAIN unique_events(file) |-> EventRow(unique_events(file)[k])]

LEMMA FileRowsStand ==
    ASSUME file \in Seq(FileEvent)
    PROVE  /\ unique_events(file) \in Seq(FileEvent) /\ FileRows \in Seq(PaymentEvent)
           /\ \A k \in DOMAIN FileRows : \E i \in DOMAIN file : FileRows[k] = EventRow(file[i])
           /\ \A i \in DOMAIN file : \E k \in DOMAIN FileRows :
                 FileRows[k].event_id = file[i].event_id
<1>1. PICK kept : kept = unique_events(file)
  OBVIOUS
<1>2. FirstCopies(file) \subseteq DOMAIN file
  BY DEF FirstCopies
<1>3. /\ kept \in Seq(FileEvent)
      /\ \A i \in FirstCopies(file) : \E k \in DOMAIN kept : kept[k] = file[i]
      /\ \A k \in DOMAIN kept : \E i \in FirstCopies(file) : kept[k] = file[i]
  BY <1>1, <1>2, EntriesInFileOrder DEF unique_events
<1>4. /\ FileRows = [k \in DOMAIN kept |-> EventRow(kept[k])]
      /\ DOMAIN kept = 1..Len(kept) /\ Len(kept) \in Nat
      /\ \A k \in DOMAIN kept : kept[k] \in FileEvent
  BY <1>1, <1>3 DEF FileRows
<1>5. \A k \in DOMAIN kept : EventRow(kept[k]) \in PaymentEvent
  BY <1>4, EntryIsAnEvent
<1>6. FileRows \in Seq(PaymentEvent)
  BY <1>4, <1>5
<1>7. ASSUME NEW i \in DOMAIN file
      PROVE  \E k \in DOMAIN FileRows : FileRows[k].event_id = file[i].event_id
  <2>1. PICK j \in FirstCopies(file) : file[j].event_id = file[i].event_id
    BY FirstCopiesCover
  <2>2. PICK k \in DOMAIN kept : kept[k] = file[j]
    BY <1>3
  <2>3. k \in DOMAIN FileRows /\ FileRows[k].event_id = file[i].event_id
    BY <1>4, <2>1, <2>2 DEF EventRow
  <2> QED
    BY <2>3
<1>8. \A k \in DOMAIN FileRows : \E i \in DOMAIN file : FileRows[k] = EventRow(file[i])
  BY <1>2, <1>3, <1>4
<1> QED
  BY <1>1, <1>3, <1>6, <1>7, <1>8

-----------------------------------------------------------------------------
(* The process.  The invariant: the first n tables hold what the file calls *)
(* for and the others nothing, and the next to write is at most the one     *)
(* after these.                                                             *)

StagePlace == [merchants |-> 0, transactions |-> 1, payment_events |-> 2,
               reconciliation |-> 3, done |-> 4]

Written(n) ==
    /\ StagePlace[stage] <= n
    /\ merchants = IF n >= 1 THEN computed.merchants ELSE NoRows.merchants
    /\ transactions = IF n >= 2 THEN computed.transactions ELSE NoRows.transactions
    /\ payment_events = IF n >= 3 THEN FileRows ELSE <<>>
    /\ reconciliation = IF n >= 4 THEN computed.reconciliation ELSE NoRows.reconciliation

SeedInv == TypeOK /\ \E n \in 0..4 : Written(n)

LEMMA MerchantsStep ==
    ASSUME TypeOK, NEW n \in 0..4, Written(n), SeedMerchants
    PROVE  \E m \in n..4 : Written(m)'
<1>1. PICK c : c = computed
  OBVIOUS
<1>2. computed' = c /\ FileRows' = FileRows /\ NoRows' = NoRows
  BY <1>1 DEF computed, FileRows, NoRows, SeedMerchants
<1>3. RowsStand(ByTime, Len(file), c)
  BY <1>1, ComputedStands DEF TypeOK
<1>4. c.merchants \in [MerchantId -> MerchantName \cup {None}]
  BY <1>3 DEF RowsStand
<1>5. merchants' = c.merchants
  <2>1. merchants = c.merchants \/ merchants = [m \in MerchantId |-> None]
    BY <1>1 DEF Written, NoRows
  <2>2. merchants' = [m \in MerchantId |-> IF c.merchants[m] = None
                                           THEN merchants[m] ELSE c.merchants[m]]
    BY <1>1 DEF SeedMerchants
  <2>3. \A m \in MerchantId : (IF c.merchants[m] = None
                               THEN merchants[m] ELSE c.merchants[m]) = c.merchants[m]
    BY <2>1
  <2> QED
    BY <1>4, <2>2, <2>3
<1>6. StagePlace[stage'] = 1
  BY DEF SeedMerchants, StagePlace
<1>7. CASE n = 0
  <2>1. Written(1)'
    BY <1>1, <1>2, <1>5, <1>6, <1>7 DEF Written, SeedMerchants
  <2> QED
    BY <1>7, <2>1
<1>8. CASE n # 0
  <2>1. Written(n)'
    BY <1>1, <1>2, <1>5, <1>6, <1>8 DEF Written, SeedMerchants
  <2> QED
    BY <2>1
<1> QED
  BY <1>7, <1>8

LEMMA TransactionsStep ==
    ASSUME TypeOK, NEW n \in 0..4, Written(n), SeedTransactions
    PROVE  \E m \in n..4 : Written(m)'
<1>1. PICK c : c = computed
  OBVIOUS
<1>2. computed' = c /\ FileRows' = FileRows /\ NoRows' = NoRows
  BY <1>1 DEF computed, FileRows, NoRows, SeedTransactions
<1>3. RowsStand(ByTime, Len(file), c)
  BY <1>1, ComputedStands DEF TypeOK
<1>4. c.transactions \in [TransactionId -> Transaction \cup {None}]
  BY <1>3 DEF RowsStand
<1>5. transactions' = c.transactions
  <2> DEFINE Upserted(stored, row) ==
                 IF row = None THEN stored
                 ELSE IF stored = None THEN row
                 ELSE [stored EXCEPT !.current_status = row.current_status]
  <2>1. \/ \A t \in TransactionId : transactions[t] = c.transactions[t]
        \/ \A t \in TransactionId : transactions[t] = None
    BY <1>1 DEF Written, NoRows
  <2>2. transactions' = [t \in TransactionId |-> Upserted(transactions[t], c.transactions[t])]
    BY <1>1 DEF SeedTransactions
  <2>3. \A row \in Transaction \cup {None} : Upserted(row, row) = row /\ Upserted(None, row) = row
    BY DEF Transaction
  <2> HIDE DEF Upserted
  <2>4. \A t \in TransactionId : Upserted(transactions[t], c.transactions[t]) = c.transactions[t]
    BY <1>4, <2>1, <2>3
  <2> QED
    BY <1>4, <2>2, <2>4
<1>6. StagePlace[stage'] = 2 /\ StagePlace[stage] = 1
  BY DEF SeedTransactions, StagePlace
<1>7. CASE n = 1
  <2>1. Written(2)'
    BY <1>1, <1>2, <1>5, <1>6, <1>7 DEF Written, SeedTransactions
  <2> QED
    BY <1>7, <2>1
<1>8. CASE n >= 2
  <2>1. Written(n)'
    BY <1>1, <1>2, <1>5, <1>6, <1>8 DEF Written, SeedTransactions
  <2> QED
    BY <2>1
<1>9. n >= 1
  BY <1>6 DEF Written
<1> QED
  BY <1>7, <1>8, <1>9

LEMMA EventsStep ==
    ASSUME TypeOK, NEW n \in 0..4, Written(n), SeedEvents
    PROVE  \E m \in n..4 : Written(m)'
<1>1. PICK c : c = computed
  OBVIOUS
<1>2. computed' = c /\ FileRows' = FileRows /\ NoRows' = NoRows
  BY <1>1 DEF computed, FileRows, NoRows, SeedEvents
<1>3. StagePlace[stage'] = 3 /\ StagePlace[stage] = 2
  BY DEF SeedEvents, StagePlace
<1>4. file \in Seq(FileEvent)
  BY DEF TypeOK
<1>5. payment_events' = payment_events \o [k \in DOMAIN NewEvents |-> EventRow(NewEvents[k])]
  BY DEF SeedEvents
<1>6. CASE n = 2
  <2>1. payment_events = <<>> /\ Logged = {}
    BY <1>6 DEF Written, Logged
  <2>2. NewEvents = unique_events(file)
    <3>1. {i \in FirstCopies(file) : file[i].event_id \notin Logged} = FirstCopies(file)
      BY <2>1
    <3> QED
      BY <3>1 DEF NewEvents, unique_events
  <2>3. payment_events' = <<>> \o FileRows
    BY <1>5, <2>1, <2>2 DEF FileRows
  <2>4. payment_events' = FileRows
    <3> HIDE DEF FileRows
    <3> QED
      BY <1>4, <2>3, FileRowsStand
  <2>5. Written(3)'
    BY <1>1, <1>2, <1>3, <1>6, <2>4 DEF Written, SeedEvents
  <2> QED
    BY <1>6, <2>5
<1>7. CASE n >= 3
  <2>1. payment_events = FileRows
    BY <1>7 DEF Written
  <2>2. {i \in FirstCopies(file) : file[i].event_id \notin Logged} = {}
    <3> SUFFICES ASSUME NEW i \in FirstCopies(file)
                 PROVE  file[i].event_id \in Logged
      OBVIOUS
    <3>1. i \in DOMAIN file
      BY DEF FirstCopies
    <3>2. PICK k \in DOMAIN FileRows : FileRows[k].event_id = file[i].event_id
      BY <1>4, <3>1, FileRowsStand
    <3> QED
      BY <2>1, <3>2 DEF Logged
  <2>3. NewEvents = <<>>
    BY <1>4, <2>2, EntriesInFileOrder DEF NewEvents
  <2>4. payment_events' = payment_events
    <3>1. [k \in DOMAIN NewEvents |-> EventRow(NewEvents[k])] = <<>>
      BY <2>3
    <3>2. payment_events \in Seq(PaymentEvent)
      BY DEF TypeOK
    <3> QED
      BY <1>5, <3>1, <3>2
  <2>5. Written(n)'
    BY <1>1, <1>2, <1>3, <1>7, <2>1, <2>4 DEF Written, SeedEvents
  <2> QED
    BY <2>5
<1> QED
  BY <1>3, <1>6, <1>7 DEF Written

LEMMA ReconciliationsStep ==
    ASSUME TypeOK, NEW n \in 0..4, Written(n), SeedReconciliations
    PROVE  \E m \in n..4 : Written(m)'
<1>1. PICK c : c = computed
  OBVIOUS
<1>2. computed' = c /\ FileRows' = FileRows /\ NoRows' = NoRows
  BY <1>1 DEF computed, FileRows, NoRows, SeedReconciliations
<1>3. RowsStand(ByTime, Len(file), c)
  BY <1>1, ComputedStands DEF TypeOK
<1>4. c.reconciliation \in [TransactionId -> ReconciliationRecord \cup {None}]
  BY <1>3 DEF RowsStand
<1>5. reconciliation' = c.reconciliation
  <2>1. reconciliation = c.reconciliation \/ reconciliation = [t \in TransactionId |-> None]
    BY <1>1 DEF Written, NoRows
  <2>2. reconciliation' = [t \in TransactionId |->
            IF c.reconciliation[t] = None THEN reconciliation[t] ELSE c.reconciliation[t]]
    BY <1>1 DEF SeedReconciliations
  <2>3. \A t \in TransactionId :
           (IF c.reconciliation[t] = None THEN reconciliation[t] ELSE c.reconciliation[t])
              = c.reconciliation[t]
    BY <2>1
  <2> QED
    BY <1>4, <2>2, <2>3
<1>6. StagePlace[stage'] = 4 /\ StagePlace[stage] = 3
  BY DEF SeedReconciliations, StagePlace
<1>7. n >= 3
  BY <1>6 DEF Written
<1>8. Written(4)'
  BY <1>1, <1>2, <1>5, <1>6, <1>7 DEF Written, SeedReconciliations
<1> QED
  BY <1>8

\* A step never takes a table back.
LEMMA WrittenStep ==
    ASSUME TypeOK, NEW n \in 0..4, Written(n), [Next]_vars
    PROVE  \E m \in n..4 : Written(m)'
<1>1. CASE Seed
  BY <1>1, MerchantsStep, TransactionsStep, EventsStep, ReconciliationsStep DEF Seed
<1>2. CASE Rerun \/ UNCHANGED vars
  <2>1. computed' = computed /\ FileRows' = FileRows /\ NoRows' = NoRows
    BY <1>2 DEF Rerun, vars, computed, FileRows, NoRows
  <2>2. StagePlace[stage'] <= n
    BY <1>2 DEF Rerun, vars, StagePlace, Written
  <2>3. Written(n)'
    BY <1>2, <2>1, <2>2 DEF Rerun, vars, Written
  <2> QED
    BY <2>3
<1> QED
  BY <1>1, <1>2 DEF Next

LEMMA SeedInvAlways == Spec => []SeedInv
<1>1. Init => SeedInv
  <2> SUFFICES ASSUME Init
               PROVE  SeedInv
    OBVIOUS
  <2>1. TypeOK
    BY FilesAssumption DEF Init, TypeOK, NoRows, Stage
  <2>2. Written(0)
    BY DEF Init, Written, StagePlace
  <2> QED
    BY <2>1, <2>2 DEF SeedInv
<1>2. SeedInv /\ [Next]_vars => SeedInv'
  <2> SUFFICES ASSUME SeedInv, [Next]_vars
               PROVE  SeedInv'
    OBVIOUS
  <2>1. PICK n \in 0..4 : Written(n)
    BY DEF SeedInv
  <2>2. PICK m \in n..4 : Written(m)'
    BY <2>1, WrittenStep DEF SeedInv
  <2>3. stage' \in Stage /\ file' = file /\ file \in Seq(FileEvent)
    BY DEF SeedInv, TypeOK, Next, Seed, vars, Stage, Rerun,
           SeedMerchants, SeedTransactions, SeedEvents, SeedReconciliations
  <2>4. PICK c : c = computed
    OBVIOUS
  <2>5. computed' = c /\ FileRows' = FileRows /\ NoRows' = NoRows
    BY <2>3, <2>4 DEF computed, FileRows, NoRows
  <2>6. /\ c.merchants \in [MerchantId -> MerchantName \cup {None}]
        /\ c.transactions \in [TransactionId -> Transaction \cup {None}]
        /\ c.reconciliation \in [TransactionId -> ReconciliationRecord \cup {None}]
    <3>1. RowsStand(ByTime, Len(file), c)
      BY <2>3, <2>4, ComputedStands
    <3> QED
      BY <3>1 DEF RowsStand
  <2>7. FileRows \in Seq(PaymentEvent)
    BY <2>3, FileRowsStand
  <2>8. /\ merchants' \in [MerchantId -> MerchantName \cup {None}]
        /\ transactions' \in [TransactionId -> Transaction \cup {None}]
        /\ reconciliation' \in [TransactionId -> ReconciliationRecord \cup {None}]
    BY <2>2, <2>5, <2>6 DEF Written, NoRows
  <2>9. payment_events' \in Seq(PaymentEvent)
    BY <2>2, <2>5, <2>7 DEF Written
  <2>10. TypeOK'
    BY <2>3, <2>8, <2>9 DEF TypeOK
  <2>11. m \in 0..4
    BY <2>1
  <2> QED
    BY <2>2, <2>10, <2>11 DEF SeedInv
<1> QED
  BY <1>1, <1>2, PTL DEF Spec

-----------------------------------------------------------------------------
(* Theorems.                                                                *)

\* The tables hold rows of their types, whatever the file and wherever the seeder is.
THEOREM SeedTypeCorrect == Spec => []TypeOK
<1>1. SeedInv => TypeOK
  BY DEF SeedInv
<1> QED
  BY <1>1, SeedInvAlways, PTL

\* Killed at any moment, the seeder leaves no row without the row it refers to.
THEOREM ParentsAreAlwaysThere == Spec => []ParentsAreWrittenFirst
<1>1. SeedInv => ParentsAreWrittenFirst
  <2> SUFFICES ASSUME SeedInv
               PROVE  ParentsAreWrittenFirst
    OBVIOUS
  <2>1. PICK n \in 0..4 : Written(n)
    BY DEF SeedInv
  <2>2. PICK c, s, k : c = computed /\ s = ByTime /\ k = Len(file)
    OBVIOUS
  <2>3. file \in Seq(FileEvent)
    BY DEF SeedInv, TypeOK
  <2>4. RowsStand(s, k, c) /\ s \in Seq(FileEvent) /\ Len(s) = k
    BY <2>2, <2>3, ComputedStands
  <2>5. ASSUME NEW t \in TransactionId
        PROVE  /\ transactions[t] # None => merchants[transactions[t].merchant_id] # None
               /\ reconciliation[t] # None => transactions[t] # None
    <3>1. transactions[t] # None => n >= 2 /\ merchants = c.merchants /\ transactions = c.transactions
      BY <2>1, <2>2 DEF Written, NoRows
    <3>2. reconciliation[t] # None =>
             /\ n >= 4 /\ reconciliation = c.reconciliation /\ transactions = c.transactions
      BY <2>1, <2>2 DEF Written, NoRows
    <3> QED
      BY <2>4, <3>1, <3>2 DEF RowsStand
  <2>6. ASSUME NEW i \in DOMAIN payment_events
        PROVE  /\ transactions[payment_events[i].transaction_id] # None
               /\ merchants[payment_events[i].merchant_id] # None
    <3>1. n >= 3 /\ payment_events = FileRows
      BY <2>1, <2>6 DEF Written
    <3>2. merchants = c.merchants /\ transactions = c.transactions
      BY <2>1, <2>2, <3>1 DEF Written
    <3>3. PICK j \in DOMAIN file : payment_events[i] = EventRow(file[j])
      BY <2>3, <3>1, FileRowsStand
    <3>4. PICK l \in DOMAIN s : s[l] = file[j]
      <4>1. s = Chronological(file)
        BY <2>2 DEF ByTime
      <4>2. \A i2 \in DOMAIN file : \E l \in DOMAIN s : s[l] = file[i2]
        BY <2>3, <4>1, ChronologicalEntries DEF InTime
      <4> QED
        BY <4>2
    <3>5. /\ l \in 1..k /\ s[l] \in FileEvent
          /\ payment_events[i].transaction_id = s[l].transaction_id
          /\ payment_events[i].merchant_id = s[l].merchant_id
      BY <2>4, <3>3, <3>4 DEF EventRow
    <3>6. s[l].transaction_id \in TransactionId
      BY <3>5 DEF FileEvent
    <3> QED
      BY <2>4, <3>2, <3>5, <3>6 DEF RowsStand
  <2> QED
    BY <2>5, <2>6 DEF ParentsAreWrittenFirst
<1> QED
  BY <1>1, SeedInvAlways, PTL

\* However often the seeder was killed on the way, when it ends the tables hold the rows
\* computed from the file and each of its events once.
THEOREM SeedEndsComplete == Spec => []EndsWithComputedRows
<1>1. SeedInv => EndsWithComputedRows
  <2> SUFFICES ASSUME SeedInv, stage = "done"
               PROVE  /\ [merchants |-> merchants, transactions |-> transactions,
                          reconciliation |-> reconciliation] = computed
                      /\ payment_events = [k \in DOMAIN unique_events(file) |->
                                              EventRow(unique_events(file)[k])]
    BY DEF EndsWithComputedRows
  <2>1. PICK n \in 0..4 : Written(n)
    BY DEF SeedInv
  <2>2. n = 4
    BY <2>1 DEF Written, StagePlace
  <2>3. PICK c : c = computed
    OBVIOUS
  <2>4. c = [merchants |-> c.merchants, transactions |-> c.transactions,
             reconciliation |-> c.reconciliation]
    BY <2>3, ComputedStands DEF SeedInv, TypeOK
  <2> QED
    BY <2>1, <2>2, <2>3, <2>4 DEF Written, FileRows
<1> QED
  BY <1>1, SeedInvAlways, PTL

\* "Running this script a second time is safe": once a run has written its last table, no
\* later run on the same file changes anything, not even on the way.
THEOREM RerunIsSafe == Spec => RerunChangesNothing
<1>1. SeedInv /\ [Next]_vars =>
         [reconciliation # NoRows.reconciliation =>
             UNCHANGED <<merchants, transactions, payment_events, reconciliation>>]_vars
  <2> SUFFICES ASSUME SeedInv, [Next]_vars, reconciliation # NoRows.reconciliation
               PROVE  UNCHANGED <<merchants, transactions, payment_events, reconciliation>>
    OBVIOUS
  <2>1. PICK n \in 0..4 : Written(n)
    BY DEF SeedInv
  <2>2. n = 4
    BY <2>1 DEF Written
  <2>3. PICK m \in n..4 : Written(m)'
    BY <2>1, WrittenStep DEF SeedInv
  <2>4. m = 4 /\ file' = file
    BY <2>2 DEF Next, Seed, vars, Rerun,
           SeedMerchants, SeedTransactions, SeedEvents, SeedReconciliations
  <2>5. computed' = computed /\ FileRows' = FileRows
    BY <2>4 DEF computed, FileRows
  <2> QED
    BY <2>1, <2>2, <2>3, <2>4, <2>5 DEF Written
<1> QED
  BY <1>1, SeedInvAlways, PTL DEF Spec, RerunChangesNothing

\* Once the seeder has ended the stored rows are those of ByTime.
LEMMA DoneStands ==
    ASSUME SeedInv, stage = "done", NEW s, s = ByTime, NEW n, n = Len(file)
    PROVE  /\ s \in Seq(FileEvent) /\ Len(s) = n /\ n \in Nat
           /\ \A t \in TransactionId : transactions[t] # None <=> Places(t) # {}
           /\ \E rows : /\ RowsStand(s, n, rows) /\ StatusStands(s, n, rows)
                        /\ FlagStands(s, n, rows, FlagsLateProcessed)
                        /\ rows.transactions = transactions
                        /\ reconciliation = [t \in TransactionId |->
                               FlagStuck(rows.reconciliation[t], transactions[t])]
<1>1. PICK c : c = computed
  OBVIOUS
<1>2. PICK m \in 0..4 : Written(m)
  BY DEF SeedInv
<1>3. m = 4
  BY <1>2 DEF Written, StagePlace
<1>4. transactions = c.transactions /\ reconciliation = c.reconciliation
  BY <1>1, <1>2, <1>3 DEF Written
<1>5. file \in Seq(FileEvent)
  BY DEF SeedInv, TypeOK
<1>6. s \in Seq(FileEvent) /\ Len(s) = n /\ n \in Nat /\ RowsStand(s, n, c) /\ StatusStands(s, n, c)
  BY <1>1, <1>5, ComputedStands
<1>7. PICK rows : Unflagged(s, n, c, rows)
  BY <1>1, <1>5, ComputedStands
<1>8. StatusStands(s, n, rows)
  BY <1>6, <1>7 DEF StatusStands, Unflagged, UnflaggedOf
<1>9. \A t \in TransactionId : transactions[t] # None <=> Places(t) # {}
  <2>1. \A t : Places(t) = {i \in 1..n : s[i].transaction_id = t}
    BY <1>6 DEF Places
  <2> QED
    BY <1>4, <1>6, <2>1 DEF RowsStand
<1> QED
  BY <1>4, <1>6, <1>7, <1>8, <1>9 DEF Unflagged, UnflaggedOf

\* The seeded status is that of the earliest event of the highest rank, whatever the order
\* of the file and however many copies of an event it holds.
THEOREM SeededStatusIsDecided == Spec => []SeededStatusIsFirstOfHighestRank
<1>1. SeedInv => SeededStatusIsFirstOfHighestRank
  <2> SUFFICES ASSUME SeedInv, stage = "done", NEW t \in TransactionId, Places(t) # {}
               PROVE  \E i \in Places(t) :
                         /\ transactions[t].current_status = Status(i)
                         /\ \A j \in Places(t) :
                               \/ STATUS_RANK[Status(j)] < STATUS_RANK[Status(i)]
                               \/ STATUS_RANK[Status(j)] = STATUS_RANK[Status(i)] /\ i <= j
    BY DEF SeededStatusIsFirstOfHighestRank
  <2>1. PICK s, n : s = ByTime /\ n = Len(file)
    OBVIOUS
  <2>2. /\ s \in Seq(FileEvent) /\ Len(s) = n /\ n \in Nat
        /\ transactions[t] # None
    BY <2>1, DoneStands
  <2>3. PICK rows : StatusStands(s, n, rows) /\ rows.transactions = transactions
    BY <2>1, DoneStands
  <2>4. PICK i \in 1..n : /\ DecidesIn(s, n, t, i)
                          /\ transactions[t].current_status = EVENT_TO_STATUS[s[i].event_type]
    BY <2>2, <2>3 DEF StatusStands
  <2>5. /\ \A j : j \in Places(t) <=> j \in 1..n /\ About(s, t, j)
        /\ \A j : Status(j) = EVENT_TO_STATUS[s[j].event_type]
        /\ \A j : STATUS_RANK[Status(j)] = RankAt(s, j)
    BY <2>1, <2>2 DEF Places, About, Status, RankAt
  <2> QED
    BY <2>4, <2>5 DEF DecidesIn
<1> QED
  BY <1>1, SeedInvAlways, PTL

\* The seeded flag is raised for exactly these: a failure after a recorded settlement,
\* where the seeder looks for it a processed event after a settled one, and a processed
\* transaction without settlement or failure.
THEOREM SeededFlagsMatchFile == Spec => []SeededFlagMatchesFile
<1>1. SeedInv => SeededFlagMatchesFile
  <2> SUFFICES ASSUME SeedInv, stage = "done", NEW t \in TransactionId, Places(t) # {}
               PROVE  reconciliation[t].discrepancy_flag <=>
                         \/ FollowsSettlement(t, "payment_failed")
                         \/ FlagsLateProcessed /\ Follows(t, "settled", "payment_processed")
                         \/ /\ transactions[t].current_status = "processed"
                            /\ \A i \in Places(t) : ByTime[i].event_type # "payment_failed"
    BY DEF SeededFlagMatchesFile
  <2>1. PICK s, n : s = ByTime /\ n = Len(file)
    OBVIOUS
  <2>2. /\ s \in Seq(FileEvent) /\ Len(s) = n /\ n \in Nat /\ n \in 0..Len(s)
        /\ transactions[t] # None
    BY <2>1, DoneStands
  <2>3. PICK rows : /\ RowsStand(s, n, rows) /\ StatusStands(s, n, rows)
                    /\ FlagStands(s, n, rows, FlagsLateProcessed)
                    /\ rows.transactions = transactions
                    /\ reconciliation = [u \in TransactionId |->
                           FlagStuck(rows.reconciliation[u], transactions[u])]
    BY <2>1, DoneStands
  <2>4. PICK r, q : r = rows.reconciliation[t] /\ q = transactions[t]
    OBVIOUS
  <2>5. /\ r \in ReconciliationRecord /\ r # None
    <3>1. rows.reconciliation \in [TransactionId -> ReconciliationRecord \cup {None}]
      BY <2>3 DEF RowsStand
    <3>2. rows.reconciliation[t] # None
      BY <2>2, <2>3 DEF RowsStand
    <3> QED
      BY <2>4, <3>1, <3>2
  <2>6. reconciliation[t].discrepancy_flag <=>
           \/ r.discrepancy_flag
           \/ q.current_status = "processed" /\ r.settlement_status = "pending"
    <3>1. FlagStuck(r, q).discrepancy_flag <=>
             \/ r.discrepancy_flag
             \/ q.current_status = "processed" /\ r.settlement_status = "pending"
      BY <2>5, FlagStuckType
    <3> QED
      BY <2>3, <2>4, <3>1
  <2>7. /\ r.settlement_status = "pending" <=>
              ~Settles(s, n, t) /\ ~Has(s, n, t, "payment_failed")
        /\ r.discrepancy_flag <=>
              FailsLate(s, n, t) \/ (FlagsLateProcessed /\ ProcessedLate(s, n, t))
    BY <2>3, <2>4, <2>5 DEF FlagStands
  <2>8. q.current_status = "processed" => ~Settles(s, n, t)
    <3>1. q.current_status = "settled" <=> Has(s, n, t, "settled")
      BY <2>2, <2>3, <2>4, SettledHasEntry
    <3>2. Settles(s, n, t) => Has(s, n, t, "settled")
      BY DEF Settles, Has
    <3> QED
      BY <3>1, <3>2
  <2>9. \A j : j \in Places(t) <=> j \in 1..n /\ About(s, t, j)
    BY <2>1, <2>2 DEF Places, About
  <2>10. FollowsSettlement(t, "payment_failed") <=> FailsLate(s, n, t)
    BY <2>1, <2>9 DEF FollowsSettlement, FailsLate
  <2>11. Follows(t, "settled", "payment_processed") <=> ProcessedLate(s, n, t)
    BY <2>1, <2>9 DEF Follows, ProcessedLate
  <2>12. (\A i \in Places(t) : ByTime[i].event_type # "payment_failed")
            <=> ~Has(s, n, t, "payment_failed")
    BY <2>1, <2>9 DEF Has
  <2> QED
    BY <2>4, <2>6, <2>7, <2>8, <2>10, <2>11, <2>12
<1> QED
  BY <1>1, SeedInvAlways, PTL

-----------------------------------------------------------------------------
(* The seeder beside live ingestion.                                        *)

\* Where no entry contradicts an earlier one, an entry makes the same of the rows either
\* way.
LEMMA SeedEntryIsIngested ==
    ASSUME NEW events \in Seq(FileEvent), NEW k \in 1..Len(events), NEW rows,
           NEW late \in BOOLEAN,
           RowsStand(events, k - 1, rows), StatusStands(events, k - 1, rows),
           FlagStands(events, k - 1, rows, late),
           \A t \in TransactionId, i, j \in 1..Len(events) :
               (About(events, t, i) /\ About(events, t, j) /\ i < j) =>
                   /\ ~(/\ events[i].event_type = "payment_failed"
                        /\ events[j].event_type = "settled")
                   /\ ~(/\ events[i].event_type = "settled"
                        /\ events[j].event_type \in {"payment_failed", "payment_processed"})
    PROVE  SeedEvent(rows, events[k], late) = IngestEntry(rows, events[k])
<1> DEFINE ev  == events[k]
           t == ev.transaction_id
           row == UpsertTransaction(rows.transactions[t], ev)
<1>1. PICK r, old, current : /\ r = rows.reconciliation[t] /\ old = rows.transactions[t]
                             /\ current = row.current_status
  OBVIOUS
<1>2. /\ ev \in FileEvent /\ t \in TransactionId /\ k \in Nat /\ k - 1 \in 0..Len(events)
      /\ rows.transactions \in [TransactionId -> Transaction \cup {None}]
      /\ rows.reconciliation \in [TransactionId -> ReconciliationRecord \cup {None}]
  <2>1. ev \in FileEvent
    OBVIOUS
  <2> QED
    BY <2>1 DEF FileEvent, RowsStand
<1>3. SeedReconciliation(r, current, ev, late) = UpsertReconciliation(r, old, ev)
  <2>1. UpsertReconciliation(r, old, ev) =
           IF r = None THEN NewReconciliation(ev)
           ELSE UpdateReconciliation(r, IF old = None THEN current ELSE old.current_status,
                                     current, ev)
    BY <1>1 DEF UpsertReconciliation, StatusBefore
  <2>2. CASE r = None
    BY <2>1, <2>2 DEF SeedReconciliation
  <2>3. CASE r # None
    <3>1. old # None /\ r \in ReconciliationRecord
      BY <1>1, <1>2, <2>3 DEF RowsStand
    <3>2. /\ r.settlement_status = "settled" <=> Settles(events, k - 1, t)
          /\ r.discrepancy_flag <=>
                FailsLate(events, k - 1, t) \/ (late /\ ProcessedLate(events, k - 1, t))
          /\ r.discrepancy_flag <=> r.discrepancy_reason # None
      BY <1>1, <1>2, <2>3 DEF FlagStands
    <3>3. /\ ~FailsLate(events, k - 1, t) /\ ~ProcessedLate(events, k - 1, t)
          /\ ev.event_type = "payment_failed" => ~Settles(events, k - 1, t)
          /\ ev.event_type = "payment_processed" => ~Has(events, k - 1, t, "settled")
          /\ ev.event_type = "settled" => ~Has(events, k - 1, t, "payment_failed")
      <4>1. /\ \A i \in 1..(k - 1) : i \in 1..Len(events) /\ i < k
            /\ About(events, t, k)
        BY DEF About
      <4>2. ~FailsLate(events, k - 1, t)
        BY <1>2, <4>1 DEF FailsLate
      <4>3. ~ProcessedLate(events, k - 1, t)
        BY <1>2, <4>1 DEF ProcessedLate
      <4>4. ev.event_type = "payment_failed" => ~Settles(events, k - 1, t)
        BY <1>2, <4>1 DEF Settles
      <4>5. /\ ev.event_type = "payment_processed" => ~Has(events, k - 1, t, "settled")
            /\ ev.event_type = "settled" => ~Has(events, k - 1, t, "payment_failed")
        BY <1>2, <4>1 DEF Has
      <4> QED
        BY <4>2, <4>3, <4>4, <4>5
    <3>4. r.discrepancy_flag = FALSE /\ r.discrepancy_reason = None
      BY <3>1, <3>2, <3>3 DEF ReconciliationRecord
    <3>5. /\ ev.event_type = "settled" => old.current_status # "failed" /\ current = "settled"
          /\ ev.event_type = "payment_processed" => current # "settled"
      <4>1. old.current_status = "settled" <=> Has(events, k - 1, t, "settled")
        BY <1>1, <1>2, <3>1, SettledHasEntry
      <4>2. old.current_status = "failed" => Has(events, k - 1, t, "payment_failed")
        <5>1. PICK i \in 1..(k - 1) : /\ DecidesIn(events, k - 1, t, i)
                                      /\ old.current_status
                                            = EVENT_TO_STATUS[events[i].event_type]
          BY <1>1, <1>2, <3>1 DEF StatusStands
        <5>2. events[i].event_type \in EventType
          <6>1. events[i] \in FileEvent
            BY <1>2
          <6> QED
            BY <6>1 DEF FileEvent
        <5> QED
          BY <5>1, <5>2 DEF DecidesIn, Has, EventType, EVENT_TO_STATUS
      <4>3. old \in Transaction
        BY <1>1, <1>2, <3>1
      <4>4. current = IF should_advance(old.current_status, EVENT_TO_STATUS[ev.event_type])
                      THEN EVENT_TO_STATUS[ev.event_type] ELSE old.current_status
        BY <1>1, <3>1, <4>3 DEF UpsertTransaction, Transaction
      <4>5. old.current_status \in TransactionStatus
        BY <4>3 DEF Transaction
      <4> HIDE DEF ev
      <4> QED
        BY <3>3, <4>1, <4>2, <4>4, <4>5
           DEF should_advance, STATUS_RANK, EVENT_TO_STATUS, TransactionStatus
    <3> HIDE DEF ev, t, row
    <3>6. /\ Conflict(old.current_status, current, r.settlement_status, ev) = None
          /\ Conflict(current, current, r.settlement_status, ev) = None
      BY <3>2, <3>3, <3>5 DEF Conflict
    <3>7. PICK next : next = UpdateReconciliation(r, old.current_status, current, ev)
      OBVIOUS
    <3>8. /\ next = UpdateReconciliation(r, current, current, ev)
          /\ next.discrepancy_flag = FALSE /\ next.discrepancy_reason = None
          /\ next = [next EXCEPT !.discrepancy_flag = FALSE, !.discrepancy_reason = None]
      <4>0. PICK settlement, instant :
                /\ settlement = SettlementAfter(r.settlement_status, None, ev)
                /\ instant = IF ev.event_type = "settled" THEN ev.event_id ELSE r.settled_at
        OBVIOUS
      <4> DEFINE plain == [payment_status |-> current, settlement_status |-> settlement,
                           discrepancy_flag |-> FALSE, discrepancy_reason |-> None,
                           settled_at |-> instant]
      <4>1. next = plain
        BY <3>6, <3>7, <4>0 DEF UpdateReconciliation
      <4>2. UpdateReconciliation(r, current, current, ev) = plain
        BY <3>6, <4>0 DEF UpdateReconciliation
      <4>3. /\ plain.discrepancy_flag = FALSE /\ plain.discrepancy_reason = None
            /\ plain = [plain EXCEPT !.discrepancy_flag = FALSE, !.discrepancy_reason = None]
        <5>1. plain.discrepancy_flag = FALSE /\ plain.discrepancy_reason = None
          OBVIOUS
        <5>2. plain \in [payment_status : {current}, settlement_status : {settlement},
                         discrepancy_flag : {FALSE}, discrepancy_reason : {None},
                         settled_at : {instant}]
          OBVIOUS
        <5> HIDE DEF plain
        <5> QED
          BY <5>1, <5>2
      <4> HIDE DEF plain
      <4> QED
        BY <4>1, <4>2, <4>3
    <3>9. SeedReconciliation(r, current, ev, late) = next
      BY <2>3, <3>4, <3>6, <3>8 DEF SeedReconciliation
    <3> QED
      BY <2>1, <2>3, <3>1, <3>7, <3>9
  <2> QED
    BY <2>2, <2>3
<1>4. SeedEvent(rows, ev, late) =
         [merchants |-> [rows.merchants EXCEPT ![ev.merchant_id] = ev.merchant_name],
          transactions |-> [rows.transactions EXCEPT ![t] = row],
          reconciliation |-> [rows.reconciliation EXCEPT ![t] =
                                 SeedReconciliation(r, current, ev, late)]]
  BY <1>1 DEF SeedEvent
<1>5. IngestEntry(rows, ev) =
         [merchants |-> [rows.merchants EXCEPT ![ev.merchant_id] = ev.merchant_name],
          transactions |-> [rows.transactions EXCEPT ![t] = row],
          reconciliation |-> [rows.reconciliation EXCEPT ![t] =
                                 UpsertReconciliation(r, old, ev)]]
  BY <1>1 DEF IngestEntry
<1> QED
  BY <1>3, <1>4, <1>5

\* The seeder and live ingestion store the same rows for a file without conflicts, but
\* for the flag of transactions that are stuck.
THEOREM SeedIsIngest == Spec => []SeedMatchesIngest
<1>1. SeedInv => SeedMatchesIngest
  <2> SUFFICES ASSUME SeedInv,
                      \A t \in TransactionId : /\ ~Follows(t, "payment_failed", "settled")
                                               /\ ~Follows(t, "settled", "payment_failed")
                                               /\ ~Follows(t, "settled", "payment_processed"),
                      NEW ingested, ingested = IngestedRows(file)
               PROVE  computed = [ingested EXCEPT !.reconciliation =
                          [t \in TransactionId |-> FlagStuck(@[t], ingested.transactions[t])]]
    BY DEF SeedMatchesIngest
  <2>1. PICK s, n, late : s = ByTime /\ n = Len(file) /\ late = FlagsLateProcessed
    OBVIOUS
  <2>2. /\ file \in Seq(FileEvent) /\ late \in BOOLEAN
    BY <2>1, FilesAssumption DEF SeedInv, TypeOK
  <2>3. s \in Seq(FileEvent) /\ Len(s) = n /\ n \in Nat /\ s = Chronological(file)
    BY <2>1, <2>2, ComputedStands DEF ByTime
  <2>4. PICK rows : rows = StatesAfter(s, late)
    OBVIOUS
  <2>5. /\ rows = [k \in 0..n |-> rows[k]] /\ rows[0] = NoRows
        /\ \A k \in 1..n : rows[k] = SeedEvent(rows[k - 1], s[k], late)
    BY <2>3, <2>4, StatesAfterEntries
  <2>6. \A t \in TransactionId, i, j \in 1..Len(s) :
            (About(s, t, i) /\ About(s, t, j) /\ i < j) =>
                /\ ~(s[i].event_type = "payment_failed" /\ s[j].event_type = "settled")
                /\ ~(/\ s[i].event_type = "settled"
                     /\ s[j].event_type \in {"payment_failed", "payment_processed"})
    <3>1. \A t, i : i \in Places(t) <=> i \in 1..Len(s) /\ About(s, t, i)
      BY <2>1, <2>3 DEF Places, About
    <3> QED
      BY <2>1, <3>1 DEF Follows
  <2>7. \A k \in 1..n : rows[k] = IngestEntry(rows[k - 1], s[k])
    <3> SUFFICES ASSUME NEW k \in 1..n
                 PROVE  rows[k] = IngestEntry(rows[k - 1], s[k])
      OBVIOUS
    <3>1. k - 1 \in 0..Len(s) /\ k \in 1..Len(s)
      BY <2>3
    <3>2. /\ RowsStand(s, k - 1, rows[k - 1]) /\ StatusStands(s, k - 1, rows[k - 1])
          /\ FlagStands(s, k - 1, rows[k - 1], late)
      BY <2>2, <2>3, <2>4, <3>1, EntriesStand
    <3>3. SeedEvent(rows[k - 1], s[k], late) = IngestEntry(rows[k - 1], s[k])
      BY <2>2, <2>3, <2>6, <3>1, <3>2, SeedEntryIsIngested
    <3> QED
      BY <2>5, <3>3
  <2> DEFINE Unfold(g) == [k \in 0..n |-> IF k = 0 THEN NoRows ELSE IngestEntry(g[k - 1], s[k])]
  <2>8. rows = Unfold(rows)
    <3>1. \A k \in 0..n :
             rows[k] = IF k = 0 THEN NoRows ELSE IngestEntry(rows[k - 1], s[k])
      <4>1. \A k \in 0..n : k = 0 \/ k \in 1..n
        BY <2>3
      <4> QED
        BY <2>5, <2>7, <4>1
    <3> QED
      BY <2>5, <3>1
  <2>9. PICK g : g = CHOOSE h : h = Unfold(h)
    OBVIOUS
  <2>10. g = Unfold(g)
    <3> HIDE DEF Unfold
    <3> QED
      BY <2>8, <2>9
  <2>11. ingested = g[n]
    BY <2>1, <2>3, <2>9 DEF IngestedRows
  <2>12. /\ g[0] = NoRows
         /\ \A k \in 1..n : g[k] = IngestEntry(g[k - 1], s[k])
    BY <2>3, <2>10
  <2> DEFINE Differ == {k \in 0..n : g[k] # rows[k]}
  <2>13. Differ = {}
    <3> SUFFICES ASSUME Differ # {}
                 PROVE  FALSE
      OBVIOUS
    <3>1. PICK k \in Differ : \A m \in Differ : k <= m
      <4>1. Differ \subseteq Nat
        BY <2>3
      <4> HIDE DEF Differ
      <4> QED
        BY <4>1, LeastNatural
    <3>2. k \in 1..n /\ k - 1 \in 0..n /\ ~(k <= k - 1)
      BY <2>3, <2>5, <2>12
    <3>3. g[k - 1] = rows[k - 1]
      BY <3>1, <3>2
    <3> QED
      BY <2>7, <2>12, <3>2, <3>3
  <2>14. ingested = rows[n]
    BY <2>3, <2>11, <2>13
  <2>15. computed = ComputeStates(file, late)
    BY <2>1, <2>2 DEF computed, compute_final_states, compute_state
  <2>16. StatesAfter(Chronological(file), late)[Len(file)] = ingested
    BY <2>1, <2>3, <2>4, <2>14
  <2> QED
    BY <2>15, <2>16 DEF ComputeStates
<1> QED
  BY <1>1, SeedInvAlways, PTL

-----------------------------------------------------------------------------
(* Copies.                                                                  *)

\* The conflict the seeder finds for a transaction that has a reconciliation row.
SeedConflict(settlement, current, ev, late) ==
    IF ev.event_type = "payment_processed" /\ ~late
    THEN None ELSE Conflict(current, current, settlement, ev)

\* Applied a second time, an entry finds the same conflict and settles the same.
LEMMA ConflictTwice ==
    ASSUME NEW settlement, NEW current, NEW ev \in FileEvent, NEW late \in BOOLEAN,
           ev.event_type = "settled" => current # "failed",
           NEW after, after = SettlementAfter(settlement, Conflict(current, current, settlement, ev), ev)
    PROVE  /\ SeedConflict(after, current, ev, late) = SeedConflict(settlement, current, ev, late)
           /\ (ev.event_type = "settled" /\ Conflict(current, current, after, ev) = None)
                 <=> ev.event_type = "settled" /\ Conflict(current, current, settlement, ev) = None
           /\ SettlementAfter(after, Conflict(current, current, after, ev), ev) = after
<1>1. None \notin {"settled_after_failed", "failed_after_settled", "processed_after_settled"}
  BY NoneAssumption DEF DiscrepancyReason
<1>2. ev.event_type \in EventType
  BY DEF FileEvent
<1>3. CASE ev.event_type = "settled"
  BY <1>1, <1>3 DEF SeedConflict, Conflict, SettlementAfter
<1>4. CASE ev.event_type = "payment_failed"
  BY <1>1, <1>4 DEF SeedConflict, Conflict, SettlementAfter
<1>5. CASE ev.event_type \in {"payment_initiated", "payment_processed"}
  BY <1>1, <1>5 DEF SeedConflict, Conflict, SettlementAfter
<1> QED
  BY <1>2, <1>3, <1>4, <1>5 DEF EventType

\* An entry changes nothing when it is applied a second time, unless it was the first of
\* its transaction and a settlement.
LEMMA EntryTwice ==
    ASSUME NEW events \in Seq(FileEvent), NEW k \in 1..Len(events), NEW rows,
           NEW late \in BOOLEAN, RowsStand(events, k - 1, rows),
           NEW ev, ev = events[k], NEW t, t = ev.transaction_id,
           ev.event_type = "settled" => rows.transactions[t] # None,
           NEW new, new = SeedEvent(rows, ev, late)
    PROVE  SeedEvent(new, ev, late) = new
<1>1. PICK old, r, row, recon :
          /\ old = rows.transactions[t] /\ r = rows.reconciliation[t]
          /\ row = UpsertTransaction(old, ev)
          /\ recon = SeedReconciliation(r, row.current_status, ev, late)
  OBVIOUS
<1>2. PICK current : current = row.current_status
  OBVIOUS
<1>3. /\ ev \in FileEvent /\ t \in TransactionId
      /\ ev.event_type \in EventType /\ ev.merchant_id \in MerchantId
      /\ rows.merchants \in [MerchantId -> MerchantName \cup {None}]
      /\ rows.transactions \in [TransactionId -> Transaction \cup {None}]
      /\ rows.reconciliation \in [TransactionId -> ReconciliationRecord \cup {None}]
      /\ r = None <=> old = None
  <2>1. ev \in FileEvent
    OBVIOUS
  <2> QED
    BY <1>1, <2>1 DEF FileEvent, RowsStand
<1>4. /\ row \in Transaction /\ row # None
      /\ ~should_advance(current, EVENT_TO_STATUS[ev.event_type])
      /\ ev.event_type = "settled" => current # "failed"
  <2>1. old \in Transaction \cup {None}
    BY <1>1, <1>3
  <2>2. row \in Transaction
    <3>1. PICK p : p = EventRow(ev)
      OBVIOUS
    <3>2. p \in PaymentEvent /\ UpsertTransaction(old, ev) = UpsertTransaction(old, p)
      BY <1>3, <3>1, EntryIsAnEvent
    <3> QED
      BY <1>1, <2>1, <3>2, UpsertTransactionType
  <2>3. current = IF old = None \/ should_advance(old.current_status, EVENT_TO_STATUS[ev.event_type])
                  THEN EVENT_TO_STATUS[ev.event_type] ELSE old.current_status
    <3>1. CASE old = None
      BY <1>1, <1>2, <3>1 DEF UpsertTransaction
    <3>2. CASE old \in Transaction /\ old # None
      BY <1>1, <1>2, <3>2 DEF UpsertTransaction, Transaction
    <3> QED
      BY <2>1, <3>1, <3>2
  <2>4. old # None => old.current_status \in TransactionStatus
    BY <2>1 DEF Transaction
  <2>5. row # None
    BY <2>2, NoneAssumption DEF Transaction
  <2> QED
    BY <1>3, <2>2, <2>3, <2>4, <2>5
       DEF should_advance, STATUS_RANK, EVENT_TO_STATUS, EventType, TransactionStatus
<1>5. UpsertTransaction(row, ev) = row
  BY <1>2, <1>4 DEF UpsertTransaction, Transaction
<1>6. SeedReconciliation(recon, current, ev, late) = recon
  <2> DEFINE Form(q) ==
                 [payment_status |-> current,
                  settlement_status |->
                      SettlementAfter(q.settlement_status,
                                      Conflict(current, current, q.settlement_status, ev), ev),
                  discrepancy_flag |->
                      (q.discrepancy_flag
                         \/ SeedConflict(q.settlement_status, current, ev, late) # None),
                  discrepancy_reason |->
                      IF SeedConflict(q.settlement_status, current, ev, late) # None
                      THEN SeedConflict(q.settlement_status, current, ev, late)
                      ELSE q.discrepancy_reason,
                  settled_at |->
                      IF ev.event_type = "settled"
                            /\ Conflict(current, current, q.settlement_status, ev) = None
                      THEN ev.event_id ELSE q.settled_at]
  <2>1. \A q : q # None => SeedReconciliation(q, current, ev, late) = Form(q)
    BY DEF SeedReconciliation, UpdateReconciliation, SeedConflict
  <2>2. CASE r = None
    <3>1. recon = NewReconciliation(ev) /\ old = None
      BY <1>1, <1>3, <2>2 DEF SeedReconciliation
    <3>2. /\ current = EVENT_TO_STATUS[ev.event_type]
          /\ ev.event_type \in {"payment_initiated", "payment_processed", "payment_failed"}
      BY <1>1, <1>2, <1>3, <3>1 DEF UpsertTransaction, EventType
    <3>3. /\ recon = [payment_status |-> current, settlement_status |-> InitialSettlement(ev),
                      discrepancy_flag |-> FALSE, discrepancy_reason |-> None,
                      settled_at |-> None]
      BY <3>1, <3>2 DEF NewReconciliation
    <3>4. PICK settlement : settlement = InitialSettlement(ev)
      OBVIOUS
    <3>5. Conflict(current, current, settlement, ev) = None
      BY <3>2, <3>4 DEF Conflict, InitialSettlement, EVENT_TO_STATUS
    <3>6. /\ SettlementAfter(settlement, None, ev) = settlement
          /\ SeedConflict(settlement, current, ev, late) = None
      BY <3>2, <3>4, <3>5 DEF SettlementAfter, InitialSettlement, SeedConflict
    <3>7. recon # None
      BY <1>3, <3>1, NewReconciliationType, EntryIsAnEvent, NoneAssumption
         DEF ReconciliationRecord
    <3>8. Form(recon) = recon
      <4>1. /\ recon = [payment_status |-> current, settlement_status |-> settlement,
                        discrepancy_flag |-> FALSE, discrepancy_reason |-> None,
                        settled_at |-> None]
        BY <3>3, <3>4
      <4>2. /\ recon.settlement_status = settlement /\ recon.discrepancy_flag = FALSE
            /\ recon.discrepancy_reason = None /\ recon.settled_at = None
        BY <4>1
      <4>3. ev.event_type # "settled"
        BY <3>2
      <4>4. Form(recon) = [payment_status |-> current, settlement_status |-> settlement,
                           discrepancy_flag |-> FALSE, discrepancy_reason |-> None,
                           settled_at |-> None]
        BY <3>5, <3>6, <4>2, <4>3
      <4> QED
        BY <4>1, <4>4
    <3> HIDE DEF Form
    <3> QED
      BY <2>1, <3>7, <3>8
  <2>3. CASE r # None
    <3>1. r \in ReconciliationRecord
      BY <1>1, <1>3, <2>3
    <3>2. recon \in ReconciliationRecord /\ recon # None
      <4>1. current \in TransactionStatus
        BY <1>2, <1>4 DEF Transaction
      <4>2. recon \in ReconciliationRecord
        BY <1>1, <1>2, <1>3, <3>1, <4>1, SeedReconciliationType
      <4> QED
        BY <4>2, NoneAssumption DEF ReconciliationRecord
    <3>3. PICK after : after = SettlementAfter(r.settlement_status,
                                   Conflict(current, current, r.settlement_status, ev), ev)
      OBVIOUS
    <3>4. PICK reason : reason = SeedConflict(r.settlement_status, current, ev, late)
      OBVIOUS
    <3>5. PICK settles \in BOOLEAN :
              settles = (ev.event_type = "settled"
                           /\ Conflict(current, current, r.settlement_status, ev) = None)
      OBVIOUS
    <3>6. recon = [payment_status |-> current, settlement_status |-> after,
                   discrepancy_flag |-> (r.discrepancy_flag \/ reason # None),
                   discrepancy_reason |-> IF reason # None THEN reason
                                          ELSE r.discrepancy_reason,
                   settled_at |-> IF settles THEN ev.event_id ELSE r.settled_at]
      <4>1. recon = Form(r)
        <5> HIDE DEF Form
        <5> QED
          BY <1>1, <1>2, <2>1, <2>3
      <4> QED
        BY <3>3, <3>4, <3>5, <4>1
    <3>7. /\ recon.settlement_status = after
          /\ recon.discrepancy_flag = (r.discrepancy_flag \/ reason # None)
          /\ recon.discrepancy_reason = (IF reason # None THEN reason ELSE r.discrepancy_reason)
          /\ recon.settled_at = (IF settles THEN ev.event_id ELSE r.settled_at)
      BY <3>6
    <3>8. /\ SeedConflict(after, current, ev, late) = reason
          /\ (ev.event_type = "settled" /\ Conflict(current, current, after, ev) = None) = settles
          /\ SettlementAfter(after, Conflict(current, current, after, ev), ev) = after
      BY <1>3, <1>4, <3>3, <3>4, <3>5, ConflictTwice
    <3>9. SeedReconciliation(recon, current, ev, late) =
             [payment_status |-> current, settlement_status |-> after,
              discrepancy_flag |-> (recon.discrepancy_flag \/ reason # None),
              discrepancy_reason |-> IF reason # None THEN reason
                                     ELSE recon.discrepancy_reason,
              settled_at |-> IF settles THEN ev.event_id ELSE recon.settled_at]
      <4>1. SeedReconciliation(recon, current, ev, late) = Form(recon)
        <5> HIDE DEF Form
        <5> QED
          BY <2>1, <3>2
      <4> QED
        BY <3>7, <3>8, <4>1
    <3> QED
      BY <3>6, <3>7, <3>9
  <2> QED
    BY <2>2, <2>3
<1>7. new = [merchants |-> [rows.merchants EXCEPT ![ev.merchant_id] = ev.merchant_name],
             transactions |-> [rows.transactions EXCEPT ![t] = row],
             reconciliation |-> [rows.reconciliation EXCEPT ![t] = recon]]
  BY <1>1 DEF SeedEvent
<1>8. new.transactions[t] = row /\ new.reconciliation[t] = recon
  BY <1>3, <1>7
<1>9. SeedEvent(new, ev, late) =
         [merchants |-> [new.merchants EXCEPT ![ev.merchant_id] = ev.merchant_name],
          transactions |-> [new.transactions EXCEPT ![t] = row],
          reconciliation |-> [new.reconciliation EXCEPT ![t] = recon]]
  BY <1>2, <1>5, <1>6, <1>8 DEF SeedEvent
<1>10. /\ [new.merchants EXCEPT ![ev.merchant_id] = ev.merchant_name] = new.merchants
       /\ [new.transactions EXCEPT ![t] = row] = new.transactions
       /\ [new.reconciliation EXCEPT ![t] = recon] = new.reconciliation
  <2>1. ASSUME NEW S, NEW V, NEW f \in [S -> V], NEW x \in S, NEW y,
               NEW g, g = [f EXCEPT ![x] = y]
        PROVE  [g EXCEPT ![x] = y] = g
    BY <2>1
  <2>2. /\ new.merchants = [rows.merchants EXCEPT ![ev.merchant_id] = ev.merchant_name]
        /\ new.transactions = [rows.transactions EXCEPT ![t] = row]
        /\ new.reconciliation = [rows.reconciliation EXCEPT ![t] = recon]
    BY <1>7
  <2> QED
    BY <1>3, <2>1, <2>2
<1> QED
  BY <1>7, <1>9, <1>10

\* s and u are in the order of time and have the same entries, u without copies.
SameEntries(s, n, u, m) ==
    /\ \A k \in 1..n : \E j \in 1..m : u[j] = s[k]
    /\ \A j \in 1..m : \E k \in 1..n : u[j] = s[k]
    /\ \A k, l \in 1..n : k < l => s[k].timestamp <= s[l].timestamp
    /\ \A i, j \in 1..m : i < j => u[i].timestamp < u[j].timestamp
    /\ \A k, l \in 1..n : s[k].timestamp = s[l].timestamp => s[k] = s[l]

\* No transaction has a settlement for its first entry.
NoneStartsSettled(s, n) ==
    \A k \in 1..n : s[k].event_type = "settled" =>
        \E h \in 1..(k - 1) : s[h].transaction_id = s[k].transaction_id

\* They start and end with the same entry, and an entry of s that is not a copy of the
\* one before it is the next one of u.
InStep(s, n, u, m) ==
    /\ n = 0 => m = 0
    /\ n # 0 => 1 \in 1..m /\ m \in 1..m /\ u[1] = s[1] /\ u[m] = s[n]
    /\ \A k \in 1..n, i \in 1..m :
          (k # 1 /\ u[i] = s[k - 1] /\ s[k] # s[k - 1]) => i + 1 \in 1..m /\ u[i + 1] = s[k]

LEMMA SameOrder ==
    ASSUME NEW s \in Seq(FileEvent), NEW u \in Seq(FileEvent),
           NEW n, n = Len(s), NEW m, m = Len(u), SameEntries(s, n, u, m)
    PROVE  InStep(s, n, u, m)
<1>1. n \in Nat /\ m \in Nat
  OBVIOUS
<1>2. /\ \A k \in 1..n : s[k].timestamp \in Nat
      /\ \A j \in 1..m : u[j].timestamp \in Nat
  <2>1. (\A k \in 1..n : s[k] \in FileEvent) /\ (\A j \in 1..m : u[j] \in FileEvent)
    OBVIOUS
  <2> QED
    BY <2>1 DEF FileEvent
<1>3. /\ \A k \in 1..n : \E j \in 1..m : u[j] = s[k]
      /\ \A j \in 1..m : \E k \in 1..n : u[j] = s[k]
  BY DEF SameEntries
<1>4. \A k, l \in 1..n : k <= l => s[k].timestamp <= s[l].timestamp
  <2>1. \A k, l \in 1..n : k < l => s[k].timestamp <= s[l].timestamp
    BY DEF SameEntries
  <2> SUFFICES ASSUME NEW k \in 1..n, NEW l \in 1..n, k <= l
               PROVE  s[k].timestamp <= s[l].timestamp
    OBVIOUS
  <2>2. k = l \/ k < l
    BY <1>1
  <2>3. CASE k = l
    BY <1>2, <2>3
  <2>4. CASE k < l
    BY <2>1, <2>4
  <2> QED
    BY <2>2, <2>3, <2>4
<1>5. \A i, j \in 1..m : u[i].timestamp < u[j].timestamp <=> i < j
  <2>1. \A i, j \in 1..m : i < j => u[i].timestamp < u[j].timestamp
    BY DEF SameEntries
  <2> SUFFICES ASSUME NEW i \in 1..m, NEW j \in 1..m
               PROVE  u[i].timestamp < u[j].timestamp <=> i < j
    OBVIOUS
  <2>2. i = j \/ j < i \/ i < j
    BY <1>1
  <2>3. CASE i = j
    BY <1>2, <2>3
  <2>4. CASE j < i
    <3>1. u[j].timestamp < u[i].timestamp
      BY <2>1, <2>4
    <3>2. ~(i < j)
      BY <1>1, <2>4
    <3>3. u[i].timestamp \in Nat /\ u[j].timestamp \in Nat
      BY <1>2
    <3> QED
      BY <3>1, <3>2, <3>3
  <2>5. CASE i < j
    BY <2>1, <2>5
  <2> QED
    BY <2>2, <2>3, <2>4, <2>5
<1>6. ASSUME n = 0
      PROVE  InStep(s, n, u, m)
  <2>1. m = 0
    <3>1. m # 0 => 1 \in 1..m
      BY <1>1
    <3>2. \A k : k \notin 1..n
      BY <1>6
    <3> QED
      BY <1>3, <3>1, <3>2
  <2>2. \A k : k \notin 1..n
    BY <1>6
  <2> QED
    BY <1>6, <2>1, <2>2 DEF InStep
<1>7. ASSUME n # 0
      PROVE  InStep(s, n, u, m)
  <2>1. 1 \in 1..n /\ n \in 1..n
    BY <1>1, <1>7
  <2>2. PICK first \in 1..m : u[first] = s[1]
    BY <1>3, <2>1
  <2>3. PICK last \in 1..m : u[last] = s[n]
    BY <1>3, <2>1
  <2>4. 1 \in 1..m /\ m \in 1..m
    BY <1>1, <2>2
  <2>5. \A j \in 1..m : /\ u[first].timestamp <= u[j].timestamp
                        /\ u[j].timestamp <= u[last].timestamp
    <3> SUFFICES ASSUME NEW j \in 1..m
                 PROVE  /\ u[first].timestamp <= u[j].timestamp
                        /\ u[j].timestamp <= u[last].timestamp
      OBVIOUS
    <3>1. PICK k \in 1..n : u[j] = s[k]
      BY <1>3
    <3>2. 1 <= k /\ k <= n
      BY <1>1
    <3>3. s[1].timestamp <= s[k].timestamp /\ s[k].timestamp <= s[n].timestamp
      BY <1>4, <2>1, <3>2
    <3> QED
      BY <2>2, <2>3, <3>1, <3>3
  <2>6. first = 1 /\ last = m
    <3>1. u[first].timestamp <= u[1].timestamp /\ u[m].timestamp <= u[last].timestamp
      BY <2>4, <2>5
    <3>2. /\ u[first].timestamp \in Nat /\ u[last].timestamp \in Nat
          /\ u[1].timestamp \in Nat /\ u[m].timestamp \in Nat
      BY <1>2, <2>4
    <3>3. ~(u[1].timestamp < u[first].timestamp) /\ ~(u[last].timestamp < u[m].timestamp)
      BY <3>1, <3>2
    <3>4. ~(1 < first) /\ ~(last < m)
      BY <1>5, <2>4, <3>3
    <3>5. first \in 1..m /\ last \in 1..m
      OBVIOUS
    <3> QED
      BY <1>1, <3>4, <3>5
  <2>7. ASSUME NEW k \in 1..n, NEW i \in 1..m, k # 1, u[i] = s[k - 1], s[k] # s[k - 1]
        PROVE  i + 1 \in 1..m /\ u[i + 1] = s[k]
    <3>1. /\ k \in Nat /\ i \in Nat /\ k - 1 \in 1..n /\ k - 1 <= k
      BY <1>1, <2>7
    <3>2. PICK j \in 1..m : u[j] = s[k]
      BY <1>3
    <3>3. u[i].timestamp < u[j].timestamp
      <4>1. s[k].timestamp # s[k - 1].timestamp
        BY <2>7, <3>1 DEF SameEntries
      <4>2. s[k - 1].timestamp <= s[k].timestamp
        BY <1>4, <3>1
      <4>3. s[k - 1].timestamp \in Nat /\ s[k].timestamp \in Nat
        BY <1>2, <3>1
      <4> QED
        BY <2>7, <3>2, <4>1, <4>2, <4>3
    <3>4. i < j
      BY <1>5, <3>3
    <3>5. i + 1 \in 1..m /\ i < i + 1
      BY <1>1, <3>1, <3>4
    <3>6. ~(i + 1 < j)
      <4> SUFFICES ASSUME i + 1 < j
                   PROVE  FALSE
        OBVIOUS
      <4>1. PICK l \in 1..n : u[i + 1] = s[l]
        BY <1>3, <3>5
      <4>2. u[i].timestamp < u[i + 1].timestamp /\ u[i + 1].timestamp < u[j].timestamp
        BY <1>5, <3>5
      <4>3. s[k - 1].timestamp < s[l].timestamp /\ s[l].timestamp < s[k].timestamp
        BY <2>7, <3>2, <4>1, <4>2
      <4>4. l <= k - 1 \/ k <= l
        BY <1>1, <3>1
      <4>5. s[l].timestamp <= s[k - 1].timestamp \/ s[k].timestamp <= s[l].timestamp
        BY <1>4, <3>1, <4>4
      <4>6. /\ s[l].timestamp \in Nat /\ s[k].timestamp \in Nat
            /\ s[k - 1].timestamp \in Nat
        BY <1>2, <3>1
      <4> QED
        BY <4>3, <4>5, <4>6
    <3>7. j = i + 1
      BY <1>1, <3>1, <3>4, <3>6
    <3> QED
      BY <3>2, <3>5, <3>7
  <2> QED
    BY <1>7, <2>2, <2>3, <2>4, <2>6, <2>7 DEF InStep
<1> QED
  BY <1>6, <1>7

\* A second copy of the entry before it, of a transaction that has an earlier entry when
\* it is a settlement, changes nothing.
LEMMA CopyChangesNothing ==
    ASSUME NEW s \in Seq(FileEvent), NEW late \in BOOLEAN, NEW S, S = StatesAfter(s, late),
           NEW k \in 1..Len(s), k # 1, s[k] = s[k - 1], NoneStartsSettled(s, Len(s))
    PROVE  S[k] = S[k - 1]
<1>1. /\ k \in Nat /\ k - 1 \in 1..Len(s) /\ k - 2 \in 0..Len(s) /\ (k - 1) - 1 = k - 2
  <2>1. Len(s) \in Nat
    OBVIOUS
  <2> QED
    BY <2>1
<1>2. \A l \in 1..Len(s) : S[l] = SeedEvent(S[l - 1], s[l], late)
  BY StatesAfterEntries
<1>3. PICK ev, rows, new, t :
          ev = s[k - 1] /\ rows = S[k - 2] /\ new = S[k - 1] /\ t = ev.transaction_id
  OBVIOUS
<1>4. new = SeedEvent(rows, ev, late) /\ S[k] = SeedEvent(new, ev, late)
  <2>1. S[k - 1] = SeedEvent(S[k - 2], s[k - 1], late)
    BY <1>1, <1>2
  <2>2. S[k] = SeedEvent(S[k - 1], s[k], late)
    BY <1>2
  <2> QED
    BY <1>3, <2>1, <2>2
<1>5. RowsStand(s, k - 2, rows)
  BY <1>1, <1>3, EntriesStand
<1>6. ASSUME ev.event_type = "settled"
      PROVE  rows.transactions[t] # None
  <2>1. PICK h \in 1..((k - 1) - 1) : s[h].transaction_id = s[k - 1].transaction_id
    BY <1>1, <1>3, <1>6 DEF NoneStartsSettled
  <2>2. h \in 1..(k - 2)
    BY <1>1
  <2>3. t \in TransactionId
    <3>1. ev \in FileEvent
      BY <1>1, <1>3
    <3> QED
      BY <1>3, <3>1 DEF FileEvent
  <2> QED
    BY <1>3, <1>5, <2>1, <2>2, <2>3 DEF RowsStand
<1>7. PICK l \in 1..Len(s) : l = k - 1
  BY <1>1
<1>8. RowsStand(s, l - 1, rows) /\ ev = s[l]
  BY <1>1, <1>3, <1>5, <1>7
<1>9. SeedEvent(new, ev, late) = new
  <2>1. /\ s \in Seq(FileEvent) /\ l \in 1..Len(s) /\ late \in BOOLEAN
        /\ RowsStand(s, l - 1, rows) /\ ev = s[l] /\ t = ev.transaction_id
        /\ ev.event_type = "settled" => rows.transactions[t] # None
        /\ new = SeedEvent(rows, ev, late)
    BY <1>3, <1>4, <1>6, <1>8
  <2> QED
    BY ONLY <2>1, EntryTwice
<1> QED
  BY <1>3, <1>4, <1>9

\* They give the same rows, when no transaction starts with a settlement.
LEMMA SameRowsWithoutCopies ==
    ASSUME NEW s \in Seq(FileEvent), NEW u \in Seq(FileEvent), NEW late \in BOOLEAN,
           NEW S, S = StatesAfter(s, late), NEW U, U = StatesAfter(u, late),
           NEW n, n = Len(s), NEW m, m = Len(u),
           SameEntries(s, n, u, m), NoneStartsSettled(s, n)
    PROVE  S[n] = U[m]
<1>1. n \in Nat /\ m \in Nat
  OBVIOUS
<1>2. S[0] = NoRows /\ \A k \in 1..n : S[k] = SeedEvent(S[k - 1], s[k], late)
  BY StatesAfterEntries
<1>3. U[0] = NoRows /\ \A j \in 1..m : U[j] = SeedEvent(U[j - 1], u[j], late)
  BY StatesAfterEntries
<1>4. /\ n = 0 => m = 0
      /\ n # 0 => 1 \in 1..m /\ m \in 1..m /\ u[1] = s[1] /\ u[m] = s[n]
      /\ \A k \in 1..n, i \in 1..m :
            (k # 1 /\ u[i] = s[k - 1] /\ s[k] # s[k - 1])
               => i + 1 \in 1..m /\ u[i + 1] = s[k]
  <2>1. InStep(s, n, u, m)
    BY SameOrder
  <2> QED
    BY <2>1 DEF InStep
<1>5. \A k \in 1..n : (k # 1 /\ s[k] = s[k - 1]) => S[k] = S[k - 1]
  BY CopyChangesNothing
<1>6. \A i, j \in 1..m : u[i] = u[j] => i = j
  <2> SUFFICES ASSUME NEW i \in 1..m, NEW j \in 1..m, u[i] = u[j], i # j
               PROVE  FALSE
    OBVIOUS
  <2>1. i < j \/ j < i
    BY <1>1
  <2>2. u[i].timestamp < u[j].timestamp \/ u[j].timestamp < u[i].timestamp
    BY <2>1 DEF SameEntries
  <2>3. u[i].timestamp \in Nat /\ u[j].timestamp \in Nat
    <3>1. u[i] \in FileEvent /\ u[j] \in FileEvent
      OBVIOUS
    <3> QED
      BY <3>1 DEF FileEvent
  <2> QED
    BY <2>2, <2>3
<1> DEFINE Reached(k) == \E j \in 1..m : u[j] = s[k] /\ U[j] = S[k]
           Missed == {k \in 1..n : ~Reached(k)}
<1>7. ASSUME NEW k \in 1..n, k = 1
      PROVE  Reached(k)
  <2>1. 1 \in 1..m /\ u[1] = s[1]
    BY <1>1, <1>4, <1>7
  <2>2. S[1] = SeedEvent(S[1 - 1], s[1], late) /\ U[1] = SeedEvent(U[1 - 1], u[1], late)
    BY <1>2, <1>3, <1>7, <2>1
  <2>3. S[1] = U[1]
    <3>1. 1 - 1 = 0
      OBVIOUS
    <3> QED
      BY <1>2, <1>3, <2>1, <2>2, <3>1
  <2> QED
    BY <1>7, <2>1, <2>3
<1>8. ASSUME NEW k \in 1..n, k # 1, Reached(k - 1)
      PROVE  Reached(k)
  <2>1. PICK i \in 1..m : u[i] = s[k - 1] /\ U[i] = S[k - 1]
    BY <1>8
  <2>2. CASE s[k] = s[k - 1]
    <3>1. S[k] = S[k - 1]
      BY <1>5, <1>8, <2>2
    <3> QED
      BY <2>1, <2>2, <3>1
  <2>3. CASE s[k] # s[k - 1]
    <3>1. i + 1 \in 1..m /\ u[i + 1] = s[k]
      BY <1>4, <1>8, <2>1, <2>3
    <3>2. U[i + 1] = SeedEvent(U[i], u[i + 1], late)
      <4>1. (i + 1) - 1 = i
        BY <1>1
      <4>2. U[i + 1] = SeedEvent(U[(i + 1) - 1], u[i + 1], late)
        BY <1>3, <3>1
      <4> QED
        BY <4>1, <4>2
    <3>3. S[k] = SeedEvent(S[k - 1], s[k], late)
      BY <1>2
    <3>4. U[i + 1] = S[k]
      BY <2>1, <3>1, <3>2, <3>3
    <3> QED
      BY <3>1, <3>4
  <2> QED
    BY <2>2, <2>3
<1>9. Missed = {}
  <2> HIDE DEF Reached
  <2> SUFFICES ASSUME Missed # {}
               PROVE  FALSE
    OBVIOUS
  <2>1. PICK k \in Missed : \A l \in Missed : k <= l
    <3>1. Missed \subseteq Nat
      BY <1>1
    <3> HIDE DEF Missed
    <3> QED
      BY <3>1, LeastNatural
  <2>2. k \in 1..n /\ ~Reached(k)
    OBVIOUS
  <2>3. k # 1
    BY <1>7, <2>2
  <2>4. k - 1 \in 1..n /\ ~(k <= k - 1)
    BY <1>1, <2>2, <2>3
  <2>5. Reached(k - 1)
    BY <2>1, <2>4
  <2> QED
    BY <1>8, <2>2, <2>3, <2>5
<1>10. CASE n = 0
  BY <1>2, <1>3, <1>4, <1>10
<1>11. CASE n # 0
  <2>1. n \in 1..n
    BY <1>1, <1>11
  <2>2. PICK j \in 1..m : u[j] = s[n] /\ U[j] = S[n]
    BY <1>9, <2>1
  <2>3. j = m
    BY <1>4, <1>6, <1>11, <2>2
  <2> QED
    BY <2>2, <2>3
<1> QED
  BY <1>10, <1>11

\* Without its later copies a file has the same entries, each once.
LEMMA UniqueEntries ==
    ASSUME file \in Seq(FileEvent), CopiesAreIdentical,
           NEW s, s = ByTime, NEW e, e = unique_events(file), NEW u, u = Chronological(e),
           NEW n, n = Len(s), NEW m, m = Len(u)
    PROVE  /\ s \in Seq(FileEvent) /\ u \in Seq(FileEvent) /\ n = Len(file) /\ m = Len(e)
           /\ SameEntries(s, n, u, m)
<1>1. /\ s \in Seq(FileEvent) /\ n = Len(file) /\ DOMAIN s = 1..n
      /\ \A i \in DOMAIN file : \E k \in 1..n : s[k] = file[i]
      /\ \A k \in 1..n : \E i \in DOMAIN file : s[k] = file[i]
      /\ \A k, l \in 1..n : k < l => s[k].timestamp <= s[l].timestamp
  <2>1. s \in Seq(FileEvent) /\ Len(s) = Len(file) /\ InTime(file, s)
    BY ChronologicalEntries DEF ByTime
  <2>2. DOMAIN s = 1..n
    BY <2>1
  <2> QED
    <3>1. /\ \A i \in DOMAIN file : \E k \in DOMAIN s : s[k] = file[i]
          /\ \A k \in DOMAIN s : \E i \in DOMAIN file : s[k] = file[i]
          /\ \A k, l \in DOMAIN s : k < l =>
                /\ s[k].timestamp <= s[l].timestamp
                /\ \E i, j \in DOMAIN file : i # j /\ s[k] = file[i] /\ s[l] = file[j]
      BY <2>1 DEF InTime
    <3>2. s \in Seq(FileEvent) /\ n = Len(file)
      BY <2>1
    <3> QED
      BY ONLY <2>2, <3>1, <3>2, Zenon
<1>2. PICK first : first = FirstCopies(file)
  OBVIOUS
<1>3. first \subseteq DOMAIN file
  BY <1>2 DEF FirstCopies
<1>4. /\ e \in Seq(FileEvent)
      /\ \A i \in first : \E k \in DOMAIN e : e[k] = file[i]
      /\ \A k \in DOMAIN e : \E i \in first : e[k] = file[i]
      /\ \A k, l \in DOMAIN e : k < l =>
            \E i, j \in first : i < j /\ e[k] = file[i] /\ e[l] = file[j]
  <2>1. e = InFileOrder(file, first)
    BY <1>2 DEF unique_events
  <2> QED
    BY <1>3, <2>1, EntriesInFileOrder
<1>5. /\ u \in Seq(FileEvent) /\ m = Len(e) /\ DOMAIN u = 1..m
      /\ \A i \in DOMAIN e : \E k \in 1..m : u[k] = e[i]
      /\ \A k \in 1..m : \E i \in DOMAIN e : u[k] = e[i]
      /\ \A k, l \in 1..m : k < l =>
            /\ u[k].timestamp <= u[l].timestamp
            /\ \E i, j \in DOMAIN e : i # j /\ u[k] = e[i] /\ u[l] = e[j]
  <2>1. u \in Seq(FileEvent) /\ Len(u) = Len(e) /\ InTime(e, u)
    BY <1>4, ChronologicalEntries
  <2>2. DOMAIN u = 1..m
    BY <2>1
  <2> QED
    <3>1. PICK places : places = DOMAIN u
      OBVIOUS
    <3>2. /\ \A i \in DOMAIN e : \E k \in places : u[k] = e[i]
          /\ \A k \in places : \E i \in DOMAIN e : u[k] = e[i]
          /\ \A k, l \in places : k < l =>
                /\ u[k].timestamp <= u[l].timestamp
                /\ \E i, j \in DOMAIN e : i # j /\ u[k] = e[i] /\ u[l] = e[j]
      BY <2>1, <3>1 DEF InTime
    <3>3. u \in Seq(FileEvent) /\ m = Len(e) /\ places = 1..m
      BY <2>1, <2>2, <3>1
    <3> QED
      BY <2>2, <3>2, <3>3
<1>6. \A k \in 1..n : \E j \in 1..m : u[j] = s[k]
  <2> SUFFICES ASSUME NEW k \in 1..n
               PROVE  \E j \in 1..m : u[j] = s[k]
    OBVIOUS
  <2>1. PICK i \in DOMAIN file : s[k] = file[i]
    BY <1>1
  <2>2. PICK f \in first : file[f].event_id = file[i].event_id
    BY <1>2, FirstCopiesCover
  <2>3. file[f] = file[i]
    BY <1>3, <2>2 DEF CopiesAreIdentical
  <2>4. PICK a \in DOMAIN e : e[a] = file[f]
    BY <1>4
  <2>5. PICK j \in 1..m : u[j] = e[a]
    BY <1>5
  <2> QED
    BY <2>1, <2>3, <2>4, <2>5
<1>7. \A j \in 1..m : \E k \in 1..n : u[j] = s[k]
  <2> SUFFICES ASSUME NEW j \in 1..m
               PROVE  \E k \in 1..n : u[j] = s[k]
    OBVIOUS
  <2>1. PICK a \in DOMAIN e : u[j] = e[a]
    BY <1>5
  <2>2. PICK f \in first : e[a] = file[f]
    BY <1>4
  <2> QED
    BY <1>1, <1>3, <2>1, <2>2
<1>8. \A p, q \in first : p < q => file[p].timestamp # file[q].timestamp
  <2> SUFFICES ASSUME NEW p \in first, NEW q \in first, p < q,
                      file[p].timestamp = file[q].timestamp
               PROVE  FALSE
    OBVIOUS
  <2>1. file[p] = file[q]
    BY <1>3 DEF CopiesAreIdentical
  <2>2. DOMAIN file \subseteq Nat /\ \A i \in DOMAIN file : i >= 1
    OBVIOUS
  <2>3. p \in 1..(q - 1)
    BY <1>3, <2>2
  <2> QED
    BY <1>2, <2>1, <2>3 DEF FirstCopies
<1>9. \A i, j \in 1..m : i < j => u[i].timestamp < u[j].timestamp
  <2> SUFFICES ASSUME NEW i \in 1..m, NEW j \in 1..m, i < j
               PROVE  u[i].timestamp < u[j].timestamp
    OBVIOUS
  <2>1. u[i].timestamp \in Nat /\ u[j].timestamp \in Nat
    <3>1. u[i] \in FileEvent /\ u[j] \in FileEvent
      <4>1. u \in Seq(FileEvent) /\ DOMAIN u = 1..m
        BY <1>5
      <4> QED
        BY <4>1
    <3> QED
      BY <3>1 DEF FileEvent
  <2>2. PICK a \in DOMAIN e, b \in DOMAIN e : a # b /\ u[i] = e[a] /\ u[j] = e[b]
    BY <1>5
  <2>3. a < b \/ b < a
    <3>1. DOMAIN e \subseteq Nat
      BY <1>4
    <3> QED
      BY <2>2, <3>1
  <2>4. e[a].timestamp # e[b].timestamp
    <3>1. CASE a < b
      <4>1. PICK p \in first, q \in first : p < q /\ e[a] = file[p] /\ e[b] = file[q]
        BY <1>4, <3>1
      <4> QED
        BY <1>8, <4>1
    <3>2. CASE b < a
      <4>1. PICK p \in first, q \in first : p < q /\ e[b] = file[p] /\ e[a] = file[q]
        BY <1>4, <3>2
      <4> QED
        BY <1>8, <4>1
    <3> QED
      BY <2>3, <3>1, <3>2
  <2>5. u[i].timestamp <= u[j].timestamp
    BY <1>5
  <2> QED
    BY <2>1, <2>2, <2>4, <2>5
<1>10. \A k, l \in 1..n : s[k].timestamp = s[l].timestamp => s[k] = s[l]
  <2> SUFFICES ASSUME NEW k \in 1..n, NEW l \in 1..n, s[k].timestamp = s[l].timestamp
               PROVE  s[k] = s[l]
    OBVIOUS
  <2>1. PICK i \in DOMAIN file : s[k] = file[i]
    BY <1>1
  <2>2. PICK j \in DOMAIN file : s[l] = file[j]
    BY <1>1
  <2>3. file[i].timestamp = file[j].timestamp
    BY <2>1, <2>2
  <2> QED
    BY <2>1, <2>2, <2>3 DEF CopiesAreIdentical
<1>11. \A k, l \in 1..n : k < l => s[k].timestamp <= s[l].timestamp
  BY <1>1
<1>12. SameEntries(s, n, u, m)
  BY <1>6, <1>7, <1>9, <1>10, <1>11 DEF SameEntries
<1> QED
  BY <1>1, <1>5, <1>12

\* The copies of an entry that a file holds change nothing of what is computed from it, so
\* long as no transaction starts with a settlement.
THEOREM CopiesChangeNothing == Spec => []DuplicatesChangeNothing
<1>1. SeedInv => DuplicatesChangeNothing
  <2> SUFFICES ASSUME SeedInv, CopiesAreIdentical,
                      \A t \in TransactionId : ~StartsWithSettled(t)
               PROVE  ComputeStates(unique_events(file), FlagsLateProcessed) = computed
    BY DEF DuplicatesChangeNothing
  <2>1. PICK late \in BOOLEAN : late = FlagsLateProcessed
    BY FilesAssumption
  <2>2. file \in Seq(FileEvent)
    BY DEF SeedInv, TypeOK
  <2>3. PICK s, e, u : s = ByTime /\ e = unique_events(file) /\ u = Chronological(e)
    OBVIOUS
  <2>4. PICK n, m : n = Len(s) /\ m = Len(u)
    OBVIOUS
  <2>5. /\ s \in Seq(FileEvent) /\ u \in Seq(FileEvent) /\ n = Len(file) /\ m = Len(e)
        /\ SameEntries(s, n, u, m)
    BY <2>2, <2>3, <2>4, UniqueEntries
  <2>6. NoneStartsSettled(s, n)
    <3> SUFFICES ASSUME NEW k \in 1..n, s[k].event_type = "settled"
                 PROVE  \E h \in 1..(k - 1) : s[h].transaction_id = s[k].transaction_id
      BY DEF NoneStartsSettled
    <3>1. PICK t : t = s[k].transaction_id
      OBVIOUS
    <3>2. s[k] \in FileEvent /\ DOMAIN s = 1..n /\ n \in Nat
      <4>1. s \in Seq(FileEvent) /\ n = Len(s)
        BY <2>4, <2>5
      <4> QED
        BY <4>1
    <3>3. t \in TransactionId
      BY <3>1, <3>2 DEF FileEvent
    <3>4. k \in Places(t) /\ \A h \in Places(t) : h \in 1..n /\ s[h].transaction_id = t
      BY <2>3, <3>1, <3>2 DEF Places
    <3>5. PICK h \in Places(t) : ~(k <= h)
      BY <2>3, <3>3, <3>4 DEF StartsWithSettled
    <3>6. h \in 1..(k - 1)
      <4>1. h \in 1..n /\ k \in 1..n
        BY <3>4
      <4> QED
        BY <3>2, <3>5, <4>1
    <3> QED
      BY <3>1, <3>4, <3>6
  <2>7. PICK S, U : S = StatesAfter(s, late) /\ U = StatesAfter(u, late)
    OBVIOUS
  <2>8. S[n] = U[m]
    <3>1. /\ s \in Seq(FileEvent) /\ u \in Seq(FileEvent) /\ late \in BOOLEAN
          /\ S = StatesAfter(s, late) /\ U = StatesAfter(u, late) /\ n = Len(s) /\ m = Len(u)
          /\ SameEntries(s, n, u, m) /\ NoneStartsSettled(s, n)
      BY <2>4, <2>5, <2>6, <2>7
    <3> QED
      BY ONLY <3>1, SameRowsWithoutCopies
  <2>9. computed = ComputeStates(file, late)
    BY <2>1 DEF computed, compute_final_states, compute_state
  <2>10. /\ S[n] = StatesAfter(Chronological(file), late)[Len(file)]
         /\ U[m] = StatesAfter(Chronological(e), late)[Len(e)]
    BY <2>3, <2>5, <2>7 DEF ByTime
  <2>11. ComputeStates(e, late) = ComputeStates(file, late)
    BY <2>8, <2>10 DEF ComputeStates
  <2> QED
    BY <2>1, <2>3, <2>9, <2>11
<1> QED
  BY <1>1, SeedInvAlways, PTL
=============================================================================
