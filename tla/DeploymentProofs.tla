--------------------------- MODULE DeploymentProofs ---------------------------
(* Proofs about the service as run.py brings it up: what holds beside the   *)
(* seeders, whichever start was cut short, and where.                       *)
EXTENDS Deployment, EventIngestionProofs, SeedStateProofs, SequenceTheorems

-----------------------------------------------------------------------------
(* The seeders compute what SeedState says.                                 *)

\* The rows that the file calls for.
Computed == ComputeStates(file, FlagsLateProcessed)

\* The entries of the file that a seeder inserts.
Unlogged == InFileOrder(file, {i \in FirstCopies(file) : file[i].event_id \notin Logged})

LEMMA ServerRules ==
    /\ \A events, late : Server!Seeder!StatesAfter(events, late) = StatesAfter(events, late)
    /\ \A events, places : Server!Seeder!InFileOrder(events, places) = InFileOrder(events, places)
    /\ \A events : Server!Seeder!Chronological(events) = Chronological(events)
    /\ \A row, snap : Server!Seeder!FlagStuck(row, snap) = FlagStuck(row, snap)
    /\ \A events : Server!Seeder!FirstCopies(events) = FirstCopies(events)
    /\ \A ev : Server!Seeder!EventRow(ev) = EventRow(ev)
<1>1. \A events, late : Server!Seeder!StatesAfter(events, late) = StatesAfter(events, late)
  BY DEF Server!Seeder!EVENT_TO_STATUS, EVENT_TO_STATUS, Server!Seeder!STATUS_RANK,
         STATUS_RANK, Server!Seeder!should_advance, should_advance,
         Server!Seeder!UpsertTransaction, UpsertTransaction, Server!Seeder!Conflict,
         Conflict, Server!Seeder!SettlementAfter, SettlementAfter,
         Server!Seeder!InitialSettlement, InitialSettlement,
         Server!Seeder!UpdateReconciliation, UpdateReconciliation,
         Server!Seeder!NewReconciliation, NewReconciliation,
         Server!Seeder!SeedReconciliation, SeedReconciliation, Server!Seeder!SeedEvent,
         SeedEvent, Server!Seeder!NoRows, NoRows, Server!Seeder!StatesAfter, StatesAfter
<1>2. \A places, key : Server!Seeder!SortedBy(places, key) = SortedBy(places, key)
  BY DEF Server!Seeder!SortedBy, SortedBy, Server!Seeder!Cardinality, Cardinality,
         Server!Seeder!Before, Before
<1>3. /\ \A events, places : Server!Seeder!InFileOrder(events, places) = InFileOrder(events, places)
      /\ \A events : Server!Seeder!Chronological(events) = Chronological(events)
  BY <1>2 DEF Server!Seeder!InFileOrder, InFileOrder, Server!Seeder!EntriesAt,
              EntriesAt, Server!Seeder!Chronological, Chronological
<1>4. /\ \A row, snap : Server!Seeder!FlagStuck(row, snap) = FlagStuck(row, snap)
      /\ \A events : Server!Seeder!FirstCopies(events) = FirstCopies(events)
      /\ \A ev : Server!Seeder!EventRow(ev) = EventRow(ev)
  BY DEF Server!Seeder!FlagStuck, FlagStuck, Server!Seeder!FirstCopies, FirstCopies,
         Server!Seeder!EventRow, EventRow
<1> QED
  BY <1>1, <1>3, <1>4

LEMMA ServerComputes ==
    /\ Server!Seeder!computed = Computed
    /\ Server!Seeder!NewEvents = Unlogged
<1>1. \A events, late : Server!Seeder!ComputeStates(events, late) = ComputeStates(events, late)
  BY ServerRules DEF Server!Seeder!ComputeStates, ComputeStates
<1>2. Server!Seeder!computed = Computed
  BY <1>1, DeploymentAssumption
  DEF Server!Seeder!computed, Server!Seeder!compute_final_states, Server!Seeder!compute_state, Computed
<1>3. Server!Seeder!NewEvents = Unlogged
  BY ServerRules DEF Server!Seeder!NewEvents, Server!Seeder!Logged, Logged, Unlogged
<1> QED
  BY <1>2, <1>3

LEMMA TestsRules ==
    /\ \A events, late : Tests!Seeder!StatesAfter(events, late) = StatesAfter(events, late)
    /\ \A events, places : Tests!Seeder!InFileOrder(events, places) = InFileOrder(events, places)
    /\ \A events : Tests!Seeder!Chronological(events) = Chronological(events)
    /\ \A row, snap : Tests!Seeder!FlagStuck(row, snap) = FlagStuck(row, snap)
    /\ \A events : Tests!Seeder!FirstCopies(events) = FirstCopies(events)
    /\ \A ev : Tests!Seeder!EventRow(ev) = EventRow(ev)
<1>1. \A events, late : Tests!Seeder!StatesAfter(events, late) = StatesAfter(events, late)
  BY DEF Tests!Seeder!EVENT_TO_STATUS, EVENT_TO_STATUS, Tests!Seeder!STATUS_RANK,
         STATUS_RANK, Tests!Seeder!should_advance, should_advance,
         Tests!Seeder!UpsertTransaction, UpsertTransaction, Tests!Seeder!Conflict,
         Conflict, Tests!Seeder!SettlementAfter, SettlementAfter,
         Tests!Seeder!InitialSettlement, InitialSettlement,
         Tests!Seeder!UpdateReconciliation, UpdateReconciliation,
         Tests!Seeder!NewReconciliation, NewReconciliation,
         Tests!Seeder!SeedReconciliation, SeedReconciliation, Tests!Seeder!SeedEvent,
         SeedEvent, Tests!Seeder!NoRows, NoRows, Tests!Seeder!StatesAfter, StatesAfter
<1>2. \A places, key : Tests!Seeder!SortedBy(places, key) = SortedBy(places, key)
  BY DEF Tests!Seeder!SortedBy, SortedBy, Tests!Seeder!Cardinality, Cardinality,
         Tests!Seeder!Before, Before
<1>3. /\ \A events, places : Tests!Seeder!InFileOrder(events, places) = InFileOrder(events, places)
      /\ \A events : Tests!Seeder!Chronological(events) = Chronological(events)
  BY <1>2 DEF Tests!Seeder!InFileOrder, InFileOrder, Tests!Seeder!EntriesAt, EntriesAt,
              Tests!Seeder!Chronological, Chronological
<1>4. /\ \A row, snap : Tests!Seeder!FlagStuck(row, snap) = FlagStuck(row, snap)
      /\ \A events : Tests!Seeder!FirstCopies(events) = FirstCopies(events)
      /\ \A ev : Tests!Seeder!EventRow(ev) = EventRow(ev)
  BY DEF Tests!Seeder!FlagStuck, FlagStuck, Tests!Seeder!FirstCopies, FirstCopies,
         Tests!Seeder!EventRow, EventRow
<1> QED
  BY <1>1, <1>3, <1>4

LEMMA TestsComputes ==
    /\ Tests!Seeder!computed = Computed
    /\ Tests!Seeder!NewEvents = Unlogged
<1>1. \A events, late : Tests!Seeder!ComputeStates(events, late) = ComputeStates(events, late)
  BY TestsRules DEF Tests!Seeder!ComputeStates, ComputeStates
<1>2. Tests!Seeder!computed = Computed
  BY <1>1, DeploymentAssumption
  DEF Tests!Seeder!computed, Tests!Seeder!compute_final_states, Tests!Seeder!compute_state, Computed
<1>3. Tests!Seeder!NewEvents = Unlogged
  BY TestsRules DEF Tests!Seeder!NewEvents, Tests!Seeder!Logged, Logged, Unlogged
<1> QED
  BY <1>2, <1>3

-----------------------------------------------------------------------------
(* What a file calls for.                                                  *)

\* The file has an event of transaction t.
InFile(t) == \E i \in DOMAIN file : file[i].transaction_id = t

\* The file has an event of transaction t that gives this status.
StatusInFile(t, status) ==
    \E i \in DOMAIN file : /\ file[i].transaction_id = t
                           /\ EVENT_TO_STATUS[file[i].event_type] = status

\* A transaction row and its reconciliation row tell the same: neither is there, or they
\* have one status and one settlement, and a flag is raised for a reason.
RowsAgree(row, rec) ==
    /\ row = None <=> rec = None
    /\ row # None =>
          /\ rec.payment_status = row.current_status
          /\ rec.settlement_status = "settled" => row.current_status = "settled"
          /\ row.current_status = "failed" => rec.settlement_status = "not_applicable"
          /\ rec.discrepancy_flag <=> rec.discrepancy_reason # None

\* The rule of live ingestion keeps rows that agree so.
LEMMA UpsertsAgree ==
    ASSUME NEW row \in Transaction \cup {None}, NEW rec \in ReconciliationRecord \cup {None},
           NEW p \in PaymentEvent, RowsAgree(row, rec)
    PROVE  RowsAgree(UpsertTransaction(row, p), UpsertReconciliation(rec, row, p))
<1> DEFINE new == UpsertTransaction(row, p)
           newR == UpsertReconciliation(rec, row, p)
<1>1. new \in Transaction /\ newR \in ReconciliationRecord
  BY UpsertTransactionType, UpsertReconciliationType
<1>2. new # None /\ newR # None
  BY <1>1, NoneAssumption DEF Transaction, ReconciliationRecord
<1>3. newR.payment_status = new.current_status
  BY UpsertReconciliationStatus DEF RowsAgree
<1>4. /\ newR.settlement_status = "settled" => new.current_status = "settled"
      /\ new.current_status = "failed" => newR.settlement_status = "not_applicable"
  BY UpsertSettlement DEF RowsAgree
<1>5. newR.discrepancy_flag <=> newR.discrepancy_reason # None
  <2>1. CASE row = None
    BY <2>1 DEF RowsAgree, UpsertReconciliation, NewReconciliation
  <2>2. CASE row # None
    <3>1. row \in Transaction /\ rec \in ReconciliationRecord
      BY <2>2 DEF RowsAgree
    <3> QED
      BY <3>1, UpsertColumns
  <2> QED
    BY <2>1, <2>2
<1> HIDE DEF new, newR
<1>6. RowsAgree(new, newR)
  BY <1>2, <1>3, <1>4, <1>5 DEF RowsAgree
<1> QED
  BY <1>6 DEF new, newR

\* The computed rows: there are some exactly for the transactions of the file, with their
\* merchants; they have a status that the file gives, and they agree.
LEMMA FileCalls ==
    ASSUME file \in Files, NEW c, c = Computed
    PROVE  /\ \A i \in DOMAIN file : /\ file[i] \in FileEvent
                                     /\ c.merchants[file[i].merchant_id] # None
           /\ c.merchants \in [MerchantId -> MerchantName \cup {None}]
           /\ c.transactions \in [TransactionId -> Transaction \cup {None}]
           /\ c.reconciliation \in [TransactionId -> ReconciliationRecord \cup {None}]
           /\ \A t \in TransactionId :
                 /\ c.transactions[t] # None <=> InFile(t)
                 /\ c.reconciliation[t] # None <=> InFile(t)
                 /\ RowsAgree(c.transactions[t], c.reconciliation[t])
                 /\ c.transactions[t] # None =>
                       /\ c.merchants[c.transactions[t].merchant_id] # None
                       /\ StatusInFile(t, c.transactions[t].current_status)
<1>1. file \in Seq(FileEvent) /\ FlagsLateProcessed \in BOOLEAN
  BY DeploymentAssumption DEF Server!Seeder!FileEvent, FileEvent, Server!Seeder!EventType, EventType
<1>2. PICK s : s = Chronological(file)
  OBVIOUS
<1>3. PICK n : n = Len(file)
  OBVIOUS
<1>4. /\ s \in Seq(FileEvent) /\ Len(s) = n /\ n \in Nat
      /\ RowsStand(s, n, c) /\ StatusStands(s, n, c)
      /\ \E rows : UnflaggedOf(s, n, c, rows, FlagsLateProcessed)
  BY <1>1, <1>2, <1>3, StatesStand DEF Computed
<1>5. /\ \A i \in DOMAIN file : \E k \in 1..n : s[k] = file[i]
      /\ \A k \in 1..n : \E i \in DOMAIN file : s[k] = file[i]
  <2>1. InTime(file, s)
    BY <1>1, <1>2, ChronologicalEntries
  <2> QED
    BY <1>4, <2>1 DEF InTime
<1>6. /\ c \in [merchants : [MerchantId -> MerchantName \cup {None}],
                transactions : [TransactionId -> Transaction \cup {None}],
                reconciliation : [TransactionId -> ReconciliationRecord \cup {None}]]
      /\ \A k \in 1..n : c.merchants[s[k].merchant_id] # None
  BY <1>4 DEF RowsStand
<1>7. \A i \in DOMAIN file : file[i] \in FileEvent /\ c.merchants[file[i].merchant_id] # None
  BY <1>1, <1>5, <1>6
<1>8. ASSUME NEW t \in TransactionId
      PROVE  /\ c.transactions[t] # None <=> InFile(t)
             /\ c.reconciliation[t] # None <=> InFile(t)
             /\ c.transactions[t] # None =>
                   c.merchants[c.transactions[t].merchant_id] # None
  <2>1. (\E k \in 1..n : s[k].transaction_id = t) <=> InFile(t)
    BY <1>5 DEF InFile
  <2> QED
    BY <1>4, <2>1 DEF RowsStand
<1>9. ASSUME NEW t \in TransactionId, c.transactions[t] # None
      PROVE  StatusInFile(t, c.transactions[t].current_status)
  <2>1. PICK k \in 1..n : /\ s[k].transaction_id = t
                          /\ c.transactions[t].current_status = EVENT_TO_STATUS[s[k].event_type]
    BY <1>4, <1>9 DEF StatusStands, DecidesIn, About
  <2> QED
    BY <1>5, <2>1 DEF StatusInFile
<1>10. ASSUME NEW t \in TransactionId, c.transactions[t] # None
       PROVE  /\ c.reconciliation[t] # None
              /\ c.reconciliation[t].payment_status = c.transactions[t].current_status
              /\ c.reconciliation[t].settlement_status = "settled"
                    => c.transactions[t].current_status = "settled"
              /\ c.transactions[t].current_status = "failed"
                    => c.reconciliation[t].settlement_status = "not_applicable"
              /\ c.reconciliation[t].discrepancy_flag
                    <=> c.reconciliation[t].discrepancy_reason # None
  <2>1. PICK rows : UnflaggedOf(s, n, c, rows, FlagsLateProcessed)
    BY <1>4
  <2>2. PICK r, row : r = rows.reconciliation[t] /\ row = c.transactions[t]
    OBVIOUS
  <2>3. /\ r \in ReconciliationRecord /\ r # None
        /\ r.payment_status = row.current_status
        /\ r.settlement_status = "settled" <=> Settles(s, n, t)
        /\ r.settlement_status = "pending" <=>
              ~Settles(s, n, t) /\ ~Has(s, n, t, "payment_failed")
        /\ r.discrepancy_flag <=> r.discrepancy_reason # None
    <3>1. /\ r # None /\ row = rows.transactions[t]
          /\ rows.reconciliation \in [TransactionId -> ReconciliationRecord \cup {None}]
      BY <1>10, <2>1, <2>2 DEF UnflaggedOf, RowsStand
    <3> QED
      BY <2>1, <2>2, <3>1 DEF UnflaggedOf, FlagStands
  <2>4. c.reconciliation[t] = FlagStuck(r, row)
    BY <2>1, <2>2 DEF UnflaggedOf
  <2>5. /\ FlagStuck(r, row) # None
        /\ FlagStuck(r, row).payment_status = row.current_status
        /\ FlagStuck(r, row).settlement_status = r.settlement_status
        /\ FlagStuck(r, row).discrepancy_flag <=> FlagStuck(r, row).discrepancy_reason # None
    BY <2>3, FlagStuckType
  <2>6. row.current_status = "settled" <=> Has(s, n, t, "settled")
    BY <1>4, <1>10, <2>2, SettledHasEntry
  <2>7. Settles(s, n, t) => Has(s, n, t, "settled")
    BY DEF Settles, Has
  <2>8. row.current_status = "failed" => Has(s, n, t, "payment_failed")
    <3>1. PICK k \in 1..n : /\ About(s, t, k)
                            /\ row.current_status = EVENT_TO_STATUS[s[k].event_type]
      BY <1>4, <1>10, <2>2 DEF StatusStands, DecidesIn
    <3>2. s[k] \in FileEvent
      BY <1>4
    <3>3. s[k].event_type \in EventType
      BY <3>2 DEF FileEvent
    <3> QED
      BY <3>1, <3>3 DEF EventType, EVENT_TO_STATUS, Has
  <2>9. r.settlement_status \in {"pending", "settled", "not_applicable"}
    BY <2>3 DEF ReconciliationRecord, SettlementStatus
  <2>10. row.current_status = "failed" => r.settlement_status = "not_applicable"
    BY <2>3, <2>6, <2>7, <2>8, <2>9
  <2>11. r.settlement_status = "settled" => row.current_status = "settled"
    BY <2>3, <2>6, <2>7
  <2> HIDE DEF FlagStuck
  <2> QED
    BY ONLY <2>2, <2>4, <2>5, <2>10, <2>11
<1>11. ASSUME NEW t \in TransactionId
       PROVE  RowsAgree(c.transactions[t], c.reconciliation[t])
  BY <1>8, <1>10 DEF RowsAgree
<1> QED
  BY <1>6, <1>7, <1>8, <1>9, <1>11

-----------------------------------------------------------------------------
(* The invariant, in four parts: what the tables hold whoever writes them,  *)
(* the sessions, the two bootstraps, and the rows that agree.               *)

\* An entry of the log is of the file or was sent by a client.
Known(p) == p \in AnyPayload \/ \E i \in DOMAIN file : p = EventRow(file[i])

\* The merchant is stored, or the seeder of the file stores it.
MerchantComes(m) == merchants[m] # None \/ Computed.merchants[m] # None

\* The log has each event_id once and only known events.  A transaction that the file
\* does not name has its rows exactly when it has events, one that the file names may have
\* either before the other; a status is that of an event of the log or of the file.
TablesHaveCause ==
    /\ \A i, j \in DOMAIN payment_events :
          payment_events[i].event_id = payment_events[j].event_id => i = j
    /\ \A i \in DOMAIN payment_events :
          /\ Known(payment_events[i])
          /\ MerchantComes(payment_events[i].merchant_id)
    /\ \A t \in TransactionId :
          /\ ~InFile(t) =>
                /\ transactions[t] # None <=> Positions(t) # {}
                /\ reconciliation[t] # None <=> Positions(t) # {}
          /\ transactions[t] # None =>
                /\ MerchantComes(transactions[t].merchant_id)
                /\ \/ StatusLogged(t, transactions[t].current_status)
                   \/ StatusInFile(t, transactions[t].current_status)

\* The lock is held to write, by a session whose event is not logged; what a session has
\* found is still there.
SessionsInv ==
    /\ LockInv /\ HolderIsNew /\ HoldsStoredMerchant
    /\ \A s \in Session : pc[s] # "idle" => payload[s] \in Inbox[s]

\* How many sources a run.py has written follows from its step.
Counted(at, n) ==
    /\ at \in {"write_sources", "writing_source"} => n < NumSources
    /\ at \in {"seed", "ready"} => n = NumSources
    /\ at \notin {"write_sources", "writing_source", "seed", "ready"} => n = 0

\* Requests are served only by a server that is ready, that is, one whose seeder has ended;
\* its seeder begins with the merchants, when all sources are written.
BootInv ==
    /\ DeploymentTypeOK
    /\ Counted(step, written) /\ Counted(test_step, test_written)
    /\ step \notin {"seed", "ready"} => stage = "merchants"
    /\ step = "seed" => stage # "done"
    /\ step = "ready" => stage = "done"
    /\ step # "ready" => /\ worker = "starting"
                         /\ lock = None /\ \A s \in Session : pc[s] = "idle"

\* The steps after pip was upgraded, and those after the packages were installed.
PastPackages == {"write_sources", "writing_source", "seed", "ready"}
PastPip == {"install", "replacing_packages"} \cup PastPackages

\* run.py --test is in this step, or was cut short in one like it.
Disturbs(at) == beside = "cut_short" \/ test_step = at

\* What the start of the server has passed is whole, except for what run.py --test takes
\* away beside it: pip, then the packages, then the sources, one by one.
FilesInv ==
    /\ (venv # {} \/ step \notin {"exited", "venv", "creating"}
                 \/ test_step \notin {"exited", "venv", "creating"}) => "dir" \in venv
    /\ step \in PastPip => "pip" \in venv \/ Disturbs("replacing_pip")
    /\ step \in PastPackages =>
          /\ "packages" \in venv \/ Disturbs("replacing_packages")
          /\ \A i \in 1..written :
                i \in sources \/ (Disturbs("writing_source") /\ (beside # "cut_short" => i = test_written + 1))
    /\ test_step \in Server!Rewriting => beside # "nothing"
    /\ worker = "down" => beside # "nothing"

\* What the file calls for is in a table.
MerchantsSeeded == \A m \in MerchantId : Computed.merchants[m] # None => merchants[m] # None
TransactionsSeeded == \A t \in TransactionId : InFile(t) => transactions[t] # None
EventsSeeded == \A i \in DOMAIN file : file[i].event_id \in Logged
ReconciliationsSeeded == \A t \in TransactionId : InFile(t) => reconciliation[t] # None

\* What the server's seeder has written stays: the merchants, then the transactions, the
\* events and the reconciliation rows that the file calls for.
SeededSoFar ==
    step \in {"seed", "ready"} =>
        /\ stage # "merchants" => MerchantsSeeded
        /\ stage \notin {"merchants", "transactions"} => TransactionsSeeded
        /\ stage \in {"reconciliation", "done"} => EventsSeeded
        /\ stage = "done" => ReconciliationsSeeded

\* No seeder writes, or has half written, the rows of t.
Undisturbed(t) == ~InFile(t) \/ (step = "ready" /\ ~reseeded)

\* Rows that no seeder disturbs agree.
UndisturbedAgree ==
    \A t \in TransactionId : Undisturbed(t) => RowsAgree(transactions[t], reconciliation[t])

\* A session about such rows has read them as they are.
ReadsUndisturbed(s) ==
    LET t == payload[s].transaction_id
    IN  (pc[s] # "idle" /\ Undisturbed(t)) =>
          /\ pc[s] \notin {"get_merchant", "get_transaction", "respond"}
                => transaction[s] = transactions[t]
          /\ pc[s] \in {"flush", "select_reconciliation", "commit"}
                => recon[s] = reconciliation[t]

\* While the server's seeder writes the events and the reconciliation rows, the
\* transactions of the file have the status it computed.
SeededStatusStays ==
    (step = "seed" /\ stage \in {"payment_events", "reconciliation"}) =>
        \A t \in TransactionId : InFile(t) =>
            /\ transactions[t] # None
            /\ transactions[t].current_status = Computed.transactions[t].current_status

RowsStayTogether ==
    UndisturbedAgree /\ (\A s \in Session : ReadsUndisturbed(s)) /\ SeededStatusStays

-----------------------------------------------------------------------------
(* A transaction of a seeder.                                              *)

\* The row that is stored after the upsert of a transaction: only its status is new.
Upserted(stored, row) ==
    IF row = None THEN stored
    ELSE IF stored = None THEN row
    ELSE [stored EXCEPT !.current_status = row.current_status]

\* A seeder writes the table of its stage, and goes on to the next one.
SeedsATable(from, to) ==
    \/ /\ from = "merchants" /\ to = "transactions"
       /\ merchants' = [m \in MerchantId |-> IF Computed.merchants[m] = None
                                             THEN merchants[m] ELSE Computed.merchants[m]]
       /\ UNCHANGED <<transactions, payment_events, reconciliation>>
    \/ /\ from = "transactions" /\ to = "payment_events"
       /\ transactions' = [t \in TransactionId |->
                              Upserted(transactions[t], Computed.transactions[t])]
       /\ UNCHANGED <<merchants, payment_events, reconciliation>>
    \/ /\ from = "payment_events" /\ to = "reconciliation"
       /\ payment_events' = payment_events \o [k \in DOMAIN Unlogged |-> EventRow(Unlogged[k])]
       /\ UNCHANGED <<merchants, transactions, reconciliation>>
    \/ /\ from = "reconciliation" /\ to = "done"
       /\ reconciliation' = [t \in TransactionId |->
                                IF Computed.reconciliation[t] = None
                                THEN reconciliation[t] ELSE Computed.reconciliation[t]]
       /\ UNCHANGED <<merchants, transactions, payment_events>>

LEMMA ServerSeedsATable ==
    ASSUME Server!Seeder!Seed
    PROVE  SeedsATable(stage, stage') /\ file' = file
<1>1. CASE Server!Seeder!SeedMerchants
  BY <1>1, ServerComputes DEF Server!Seeder!SeedMerchants, SeedsATable
<1>2. CASE Server!Seeder!SeedTransactions
  BY <1>2, ServerComputes DEF Server!Seeder!SeedTransactions, SeedsATable, Upserted
<1>3. CASE Server!Seeder!SeedEvents
  BY <1>3, ServerComputes, ServerRules DEF Server!Seeder!SeedEvents, SeedsATable
<1>4. CASE Server!Seeder!SeedReconciliations
  BY <1>4, ServerComputes DEF Server!Seeder!SeedReconciliations, SeedsATable
<1> QED
  BY <1>1, <1>2, <1>3, <1>4 DEF Server!Seeder!Seed

LEMMA TestsSeedATable ==
    ASSUME Tests!Seeder!Seed
    PROVE  SeedsATable(test_stage, test_stage') /\ file' = file
<1>1. CASE Tests!Seeder!SeedMerchants
  BY <1>1, TestsComputes DEF Tests!Seeder!SeedMerchants, SeedsATable
<1>2. CASE Tests!Seeder!SeedTransactions
  BY <1>2, TestsComputes DEF Tests!Seeder!SeedTransactions, SeedsATable, Upserted
<1>3. CASE Tests!Seeder!SeedEvents
  BY <1>3, TestsComputes, TestsRules DEF Tests!Seeder!SeedEvents, SeedsATable
<1>4. CASE Tests!Seeder!SeedReconciliations
  BY <1>4, TestsComputes DEF Tests!Seeder!SeedReconciliations, SeedsATable
<1> QED
  BY <1>1, <1>2, <1>3, <1>4 DEF Tests!Seeder!Seed

\* What a seeder inserts: entries of the file that are not logged, each event_id once, and
\* with the log every event_id of the file.
LEMMA UnloggedEntries ==
    ASSUME file \in Files, NEW u, u = Unlogged
    PROVE  /\ u \in Seq(FileEvent)
           /\ \A k \in DOMAIN u : /\ u[k].event_id \notin Logged
                                  /\ \E i \in DOMAIN file : u[k] = file[i]
           /\ \A k, l \in DOMAIN u : k < l => u[k].event_id # u[l].event_id
           /\ \A i \in DOMAIN file :
                 \/ file[i].event_id \in Logged
                 \/ \E k \in DOMAIN u : u[k].event_id = file[i].event_id
<1> DEFINE S == {i \in FirstCopies(file) : file[i].event_id \notin Logged}
<1>1. file \in Seq(FileEvent)
  BY DeploymentAssumption DEF Server!Seeder!FileEvent, FileEvent, Server!Seeder!EventType, EventType
<1>2. S \subseteq DOMAIN file /\ DOMAIN file \subseteq Nat
  BY <1>1 DEF FirstCopies
<1>3. u = InFileOrder(file, S)
  BY DEF Unlogged
<1>4. \A i, j \in S : i < j => file[i].event_id # file[j].event_id
  <2>1. \A i, j \in S : i < j => i \in 1..(j - 1)
    <3>1. DOMAIN file = 1..Len(file) /\ Len(file) \in Nat
      BY <1>1
    <3> QED
      BY <1>2, <3>1
  <2> QED
    BY <2>1 DEF FirstCopies
<1>5. ASSUME NEW i \in DOMAIN file, file[i].event_id \notin Logged
      PROVE  \E j \in S : file[j].event_id = file[i].event_id
  BY <1>1, <1>5, FirstCopiesCover
<1>6. \A i \in S : file[i].event_id \notin Logged
  OBVIOUS
<1> HIDE DEF S
<1>7. /\ u \in Seq(FileEvent)
      /\ \A i \in S : \E k \in DOMAIN u : u[k] = file[i]
      /\ \A k \in DOMAIN u : \E i \in S : u[k] = file[i]
      /\ \A k, l \in DOMAIN u : k < l => \E i, j \in S : i < j /\ u[k] = file[i] /\ u[l] = file[j]
  BY <1>1, <1>2, <1>3, EntriesInFileOrder
<1>8. \A k \in DOMAIN u : /\ u[k].event_id \notin Logged
                          /\ \E i \in DOMAIN file : u[k] = file[i]
  BY <1>2, <1>6, <1>7
<1>9. ASSUME NEW k \in DOMAIN u, NEW l \in DOMAIN u, k < l
      PROVE  u[k].event_id # u[l].event_id
  <2>1. PICK i \in S, j \in S : i < j /\ u[k] = file[i] /\ u[l] = file[j]
    BY <1>7, <1>9
  <2> QED
    BY <1>4, <2>1
<1>10. \A i \in DOMAIN file :
          \/ file[i].event_id \in Logged
          \/ \E k \in DOMAIN u : u[k].event_id = file[i].event_id
  BY <1>5, <1>7
<1> QED
  BY <1>7, <1>8, <1>9, <1>10

\* One log behind another.
LEMMA LogsInARow ==
    ASSUME NEW log \in Seq(PaymentEvent), NEW new \in Seq(PaymentEvent),
           NEW n, n = Len(log), NEW m, m = Len(new), NEW both, both = log \o new
    PROVE  /\ both \in Seq(PaymentEvent)
           /\ n \in Nat /\ m \in Nat /\ DOMAIN log = 1..n /\ DOMAIN new = 1..m
           /\ Len(both) = n + m /\ DOMAIN both = 1..(n + m)
           /\ \A i \in 1..n : i \in 1..(n + m) /\ both[i] = log[i]
           /\ \A i \in 1..(n + m) : i > n => i - n \in 1..m /\ both[i] = new[i - n]
           /\ \A k \in 1..m : n + k \in 1..(n + m) /\ both[n + k] = new[k]
<1>1. n \in Nat /\ m \in Nat /\ DOMAIN log = 1..n /\ DOMAIN new = 1..m
  OBVIOUS
<1>2. /\ both \in Seq(PaymentEvent) /\ Len(both) = n + m
      /\ \A i \in 1..(n + m) : both[i] = IF i <= n THEN log[i] ELSE new[i - n]
  BY ConcatProperties
<1>3. /\ \A i \in 1..n : i \in 1..(n + m) /\ i <= n
      /\ \A i \in 1..(n + m) : i > n => i - n \in 1..m /\ ~(i <= n)
      /\ \A k \in 1..m : n + k \in 1..(n + m) /\ ~(n + k <= n) /\ (n + k) - n = k
  BY <1>1
<1>4. DOMAIN both = 1..(n + m)
  BY <1>1, <1>2
<1>5. \A i \in 1..n : both[i] = log[i]
  BY <1>2, <1>3
<1>6. \A i \in 1..(n + m) : i > n => both[i] = new[i - n]
  BY <1>2, <1>3
<1>7. \A k \in 1..m : both[n + k] = new[k]
  BY <1>2, <1>3
<1> QED
  BY <1>1, <1>2, <1>3, <1>4, <1>5, <1>6, <1>7

\* Behind its first n entries a log has events of the file that were not logged, each once.
NewBehind(log, n) ==
    /\ \A i \in DOMAIN log : i > n =>
          /\ log[i].event_id \notin Logged
          /\ \E k \in DOMAIN file : log[i] = EventRow(file[k])
    /\ \A i, j \in DOMAIN log : n < i /\ i < j => log[i].event_id # log[j].event_id

\* The log after a seeder has written the events: the old one, and behind it events of the
\* file that were not logged.
LEMMA SeededLog ==
    ASSUME file \in Files, payment_events \in Seq(PaymentEvent),
           payment_events' = payment_events \o [k \in DOMAIN Unlogged |-> EventRow(Unlogged[k])],
           NEW n, n = Len(payment_events), NEW log, log = payment_events'
    PROVE  /\ log \in Seq(PaymentEvent) /\ n \in Nat /\ DOMAIN payment_events = 1..n
           /\ Len(log) >= n /\ DOMAIN log = 1..Len(log)
           /\ \A i \in 1..n : i \in DOMAIN log /\ log[i] = payment_events[i]
           /\ NewBehind(log, n)
           /\ \A i \in DOMAIN file : file[i].event_id \in Logged'
           /\ Logged \subseteq Logged'
<1>1. PICK u : u = Unlogged
  OBVIOUS
<1>2. /\ u \in Seq(FileEvent)
      /\ \A k \in DOMAIN u : /\ u[k].event_id \notin Logged
                             /\ \E i \in DOMAIN file : u[k] = file[i]
      /\ \A k, l \in DOMAIN u : k < l => u[k].event_id # u[l].event_id
      /\ \A i \in DOMAIN file :
            \/ file[i].event_id \in Logged
            \/ \E k \in DOMAIN u : u[k].event_id = file[i].event_id
  BY <1>1, UnloggedEntries
<1>3. PICK new : new = [k \in DOMAIN u |-> EventRow(u[k])]
  OBVIOUS
<1>4. /\ DOMAIN u = 1..Len(u) /\ Len(u) \in Nat
      /\ \A k \in DOMAIN u : u[k] \in FileEvent
  BY <1>2
<1>5. \A k \in DOMAIN u : /\ new[k] = EventRow(u[k]) /\ new[k] \in PaymentEvent
                          /\ new[k].event_id = u[k].event_id
  BY <1>3, <1>4, EntryIsAnEvent DEF EventRow
<1>6. new \in Seq(PaymentEvent) /\ Len(new) = Len(u)
  BY <1>3, <1>4, <1>5
<1>7. log = payment_events \o new
  BY <1>1, <1>3
<1>8. log = payment_events'
  OBVIOUS
<1>9. /\ log \in Seq(PaymentEvent)
      /\ n \in Nat /\ Len(u) \in Nat /\ DOMAIN payment_events = 1..n
      /\ Len(log) = n + Len(u) /\ DOMAIN log = 1..(n + Len(u))
      /\ \A i \in 1..n : i \in DOMAIN log /\ log[i] = payment_events[i]
      /\ \A i \in DOMAIN log : i > n => i - n \in DOMAIN u /\ log[i] = new[i - n]
      /\ \A k \in DOMAIN u : n + k \in DOMAIN log /\ log[n + k] = new[k]
  <2>1. PICK m : m = Len(u)
    OBVIOUS
  <2>2. /\ log \in Seq(PaymentEvent)
        /\ n \in Nat /\ m \in Nat /\ DOMAIN payment_events = 1..n
        /\ Len(log) = n + m /\ DOMAIN log = 1..(n + m)
        /\ \A i \in 1..n : i \in 1..(n + m) /\ log[i] = payment_events[i]
        /\ \A i \in 1..(n + m) : i > n => i - n \in 1..m /\ log[i] = new[i - n]
        /\ \A k \in 1..m : n + k \in 1..(n + m) /\ log[n + k] = new[k]
    <3>1. PICK old : old = payment_events
      OBVIOUS
    <3>2. old \in Seq(PaymentEvent) /\ new \in Seq(PaymentEvent)
      BY <1>6, <3>1
    <3>3. n = Len(old) /\ m = Len(new) /\ log = old \o new
      BY <1>6, <1>7, <2>1, <3>1
    <3>4. /\ log \in Seq(PaymentEvent)
          /\ n \in Nat /\ m \in Nat /\ DOMAIN old = 1..n
          /\ Len(log) = n + m /\ DOMAIN log = 1..(n + m)
          /\ \A i \in 1..n : i \in 1..(n + m) /\ log[i] = old[i]
          /\ \A i \in 1..(n + m) : i > n => i - n \in 1..m /\ log[i] = new[i - n]
          /\ \A k \in 1..m : n + k \in 1..(n + m) /\ log[n + k] = new[k]
      BY ONLY <3>2, <3>3, LogsInARow
    <3> QED
      BY <3>1, <3>4
  <2> QED
    BY <1>4, <2>1, <2>2
<1>10. \A i \in DOMAIN log : i > n =>
          /\ log[i].event_id \notin Logged
          /\ \E k \in DOMAIN file : log[i] = EventRow(file[k])
  <2> SUFFICES ASSUME NEW i \in DOMAIN log, i > n
               PROVE  /\ log[i].event_id \notin Logged
                      /\ \E k \in DOMAIN file : log[i] = EventRow(file[k])
    OBVIOUS
  <2>1. PICK k \in DOMAIN u : log[i] = new[k]
    BY <1>9
  <2> QED
    BY <1>2, <1>5, <2>1
<1>11. \A i, j \in DOMAIN log : n < i /\ i < j => log[i].event_id # log[j].event_id
  <2> SUFFICES ASSUME NEW i \in DOMAIN log, NEW j \in DOMAIN log, n < i, i < j
               PROVE  log[i].event_id # log[j].event_id
    OBVIOUS
  <2>1. i > n /\ j > n /\ i - n < j - n
    <3>1. i \in Nat /\ j \in Nat
      BY <1>9
    <3> QED
      BY <1>9, <3>1
  <2>2. PICK k \in DOMAIN u, l \in DOMAIN u : k < l /\ log[i] = new[k] /\ log[j] = new[l]
    BY <1>9, <2>1
  <2> QED
    BY <1>2, <1>5, <2>2
<1>12. Logged \subseteq Logged'
  <2>1. \A i \in DOMAIN payment_events :
           i \in DOMAIN payment_events' /\ payment_events'[i] = payment_events[i]
    BY <1>8, <1>9
  <2> QED
    BY <2>1 DEF Logged
<1>13. ASSUME NEW i \in DOMAIN file, file[i].event_id \notin Logged
       PROVE  file[i].event_id \in Logged'
  <2>1. PICK k \in DOMAIN u : u[k].event_id = file[i].event_id
    BY <1>2, <1>13
  <2>2. n + k \in DOMAIN payment_events' /\ payment_events'[n + k].event_id = file[i].event_id
    <3>1. n + k \in DOMAIN log /\ log[n + k].event_id = u[k].event_id
      BY <1>5, <1>9, <2>1
    <3> QED
      BY <1>8, <2>1, <3>1
  <2> QED
    BY <2>2 DEF Logged
<1>14. Len(log) >= n /\ DOMAIN log = 1..Len(log)
  BY <1>9
<1>15. \A i \in DOMAIN file : file[i].event_id \in Logged'
  BY <1>12, <1>13
<1>16. NewBehind(log, n)
  BY <1>10, <1>11 DEF NewBehind
<1> QED
  BY <1>9, <1>12, <1>14, <1>15, <1>16

-----------------------------------------------------------------------------
(* What a write leaves in the tables.                                       *)

\* No row goes, and the log keeps its entries where they are.
TablesGrow ==
    /\ \A m \in MerchantId : merchants[m] # None => merchants'[m] # None
    /\ \A t \in TransactionId :
          /\ transactions[t] # None => transactions'[t] # None
          /\ reconciliation[t] # None => reconciliation'[t] # None
    /\ Logged \subseteq Logged'
    /\ Len(payment_events') >= Len(payment_events)
    /\ \A i \in DOMAIN payment_events :
          i \in DOMAIN payment_events' /\ payment_events'[i] = payment_events[i]

\* The tables have rows of their types.
TablesTyped ==
    /\ merchants \in [MerchantId -> MerchantName \cup {None}]
    /\ transactions \in [TransactionId -> Transaction \cup {None}]
    /\ payment_events \in Seq(PaymentEvent)
    /\ reconciliation \in [TransactionId -> ReconciliationRecord \cup {None}]

LEMMA FileStays ==
    ASSUME file' = file
    PROVE  /\ Computed' = Computed
           /\ \A t : InFile(t)' <=> InFile(t)
           /\ \A t, status : StatusInFile(t, status)' <=> StatusInFile(t, status)
           /\ \A p : Known(p)' <=> Known(p)
BY DEF Computed, InFile, StatusInFile, Known

LEMMA UntouchedTables ==
    ASSUME TypeInv, UNCHANGED <<tables, file>>
    PROVE  /\ TablesHaveCause => TablesHaveCause'
           /\ TablesGrow
<1>1. UNCHANGED <<merchants, transactions, payment_events, reconciliation>> /\ file' = file
  BY DEF tables
<1>2. /\ \A m : MerchantComes(m)' <=> MerchantComes(m)
      /\ \A t : Positions(t)' = Positions(t)
      /\ \A t, status : StatusLogged(t, status)' <=> StatusLogged(t, status)
      /\ Logged' = Logged
  BY <1>1, FileStays DEF MerchantComes, Positions, StatusLogged, Logged
<1>3. TablesHaveCause => TablesHaveCause'
  BY <1>1, <1>2, FileStays DEF TablesHaveCause
<1>4. Len(payment_events) \in Nat
  BY DEF TypeInv, TypeOK
<1>5. Len(payment_events') >= Len(payment_events)
  BY <1>1, <1>4
<1> QED
  BY <1>1, <1>2, <1>3, <1>5 DEF TablesGrow

\* When the log grows, what it says stays said.
LEMMA GrownLog ==
    ASSUME TablesGrow, file' = file
    PROVE  /\ \A t : Positions(t) \subseteq Positions(t)'
           /\ \A t, status : StatusLogged(t, status) => StatusLogged(t, status)'
           /\ \A m \in MerchantId : MerchantComes(m) => MerchantComes(m)'
<1>1. \A t : Positions(t) \subseteq Positions(t)'
  BY DEF TablesGrow, Positions
<1>2. \A t, status : StatusLogged(t, status) => StatusLogged(t, status)'
  <2> SUFFICES ASSUME NEW t, NEW status, StatusLogged(t, status)
               PROVE  StatusLogged(t, status)'
    OBVIOUS
  <2>1. PICK i \in Positions(t) : EVENT_TO_STATUS[payment_events[i].event_type] = status
    BY DEF StatusLogged
  <2>2. i \in Positions(t)' /\ payment_events'[i] = payment_events[i]
    BY <1>1, <2>1 DEF TablesGrow, Positions
  <2> QED
    BY <2>1, <2>2 DEF StatusLogged
<1>3. \A m \in MerchantId : MerchantComes(m) => MerchantComes(m)'
  BY FileStays DEF TablesGrow, MerchantComes
<1> QED
  BY <1>1, <1>2, <1>3

LEMMA CommitGrowsTables ==
    ASSUME TypeInv, HoldsStoredMerchant, NEW s \in Session, Commit(s)
    PROVE  TablesGrow
<1>1. PICK p \in PaymentEvent : payload[s] = p
  BY DEF TypeInv, ServesAPayload, Commit
<1>2. \A m \in MerchantId : merchants[m] # None => merchants'[m] # None
  BY <1>1, CommitStoresMerchant
<1>3. \A t \in TransactionId :
         /\ transactions[t] # None => transactions'[t] # None
         /\ reconciliation[t] # None => reconciliation'[t] # None
  BY CommitWritesRows
<1>4. /\ Logged \subseteq Logged'
      /\ \A i \in DOMAIN payment_events :
            i \in DOMAIN payment_events' /\ payment_events'[i] = payment_events[i]
  BY CommitExtendsLog
<1>5. Len(payment_events') >= Len(payment_events)
  <2>1. payment_events \in Seq(PaymentEvent) /\ payment_events' = Append(payment_events, p)
    BY <1>1 DEF TypeInv, TypeOK, Commit
  <2> QED
    BY <2>1
<1> QED
  BY <1>2, <1>3, <1>4, <1>5 DEF TablesGrow

\* What a commit writes into the row of its transaction.
LEMMA CommitWritesStatus ==
    ASSUME TypeInv, NEW s \in Session, NEW p \in PaymentEvent, payload[s] = p, Commit(s),
           NEW t, t = p.transaction_id, NEW status, status = EVENT_TO_STATUS[p.event_type]
    PROVE  \/ /\ transactions'[t].merchant_id = p.merchant_id
              /\ transactions'[t].current_status = status
           \/ /\ transactions[t] # None
              /\ transactions'[t].merchant_id = transactions[t].merchant_id
              /\ transactions'[t].current_status \in {status, transactions[t].current_status}
<1>1. PICK stored, loaded : stored = transactions[t] /\ loaded = transaction[s]
  OBVIOUS
<1>2. t \in TransactionId
  BY KeysOfPayload
<1>3. /\ stored \in Transaction \cup {None} /\ loaded \in Transaction \cup {None}
      /\ loaded # None => stored # None
  BY <1>1, <1>2 DEF TypeInv, TypeOK, HoldsStoredRows
<1>4. PICK row : row = UpsertTransaction(loaded, p)
  OBVIOUS
<1>5. transactions'[t] = WriteTransaction(stored, loaded, row)
  BY <1>1, <1>2, <1>4 DEF Commit, TypeInv, TypeOK
<1>6. /\ row.current_status = status \/ (loaded # None /\ row.current_status = loaded.current_status)
      /\ loaded = None => row = [merchant_id |-> p.merchant_id, current_status |-> status]
  BY <1>3, <1>4, UpsertTransactionStatus
<1>7. CASE loaded = None
  BY <1>5, <1>6, <1>7 DEF WriteTransaction
<1>8. CASE loaded # None
  <2>1. stored # None /\ stored \in Transaction
    BY <1>3, <1>8
  <2>2. /\ transactions'[t].merchant_id = stored.merchant_id
        /\ transactions'[t].current_status
              = Column(stored.current_status, loaded.current_status, row.current_status)
    BY <1>5, <1>8, <2>1 DEF WriteTransaction, Transaction
  <2> QED
    BY <1>1, <1>6, <1>8, <2>1, <2>2 DEF Column
<1> QED
  BY <1>7, <1>8

LEMMA CommitHasCause ==
    ASSUME TypeInv, HoldsStoredMerchant, TablesHaveCause, file' = file,
           NEW s \in Session, NEW p \in Inbox[s], payload[s] = p,
           p.event_id \notin Logged, Commit(s)
    PROVE  TablesHaveCause'
<1> DEFINE n == Len(payment_events) + 1
           t0 == p.transaction_id
<1>1. p \in PaymentEvent /\ t0 \in TransactionId /\ p.merchant_id \in MerchantId
  BY SessionAssumption, KeysOfPayload
<1>2. TablesGrow
  BY CommitGrowsTables
<1>3. /\ \A t, status : StatusLogged(t, status) => StatusLogged(t, status)'
      /\ \A m \in MerchantId : MerchantComes(m) => MerchantComes(m)'
  BY <1>2, GrownLog
<1>4. MerchantComes(p.merchant_id)'
  BY <1>1, CommitStoresMerchant DEF MerchantComes
<1>5. PICK log : log = payment_events'
  OBVIOUS
<1>6. /\ DOMAIN log = DOMAIN payment_events \cup {n}
      /\ \A i \in DOMAIN payment_events : log[i] = payment_events[i]
      /\ log[n] = p
      /\ \A i \in DOMAIN payment_events : payment_events[i] \in PaymentEvent
  <2>1. payment_events \in Seq(PaymentEvent) /\ log = Append(payment_events, p)
    BY <1>5 DEF TypeInv, TypeOK, Commit
  <2> QED
    BY <1>1, <2>1, AppendEvent
<1> HIDE DEF n
<1>7. ASSUME NEW i \in DOMAIN log, NEW j \in DOMAIN log, log[i].event_id = log[j].event_id
      PROVE  i = j
  <2>1. \A k \in DOMAIN payment_events : payment_events[k].event_id # p.event_id
    BY DEF Logged
  <2> QED
    BY <1>6, <1>7, <2>1 DEF TablesHaveCause
<1>8. ASSUME NEW i \in DOMAIN log
      PROVE  Known(log[i])' /\ MerchantComes(log[i].merchant_id)'
  <2>1. CASE i = n
    BY <1>4, <1>6, <2>1 DEF Known, AnyPayload
  <2>2. CASE i \in DOMAIN payment_events
    <3>1. Known(log[i])' /\ MerchantComes(payment_events[i].merchant_id)
      BY <1>6, <2>2, FileStays DEF TablesHaveCause
    <3>2. payment_events[i].merchant_id \in MerchantId
      BY <1>6, <2>2, KeysOfPayload
    <3> QED
      BY <1>3, <1>6, <2>2, <3>1, <3>2
  <2> QED
    BY <1>6, <2>1, <2>2
<1>9. ASSUME NEW t \in TransactionId
      PROVE  /\ ~InFile(t)' =>
                   /\ transactions'[t] # None <=> Positions(t)' # {}
                   /\ reconciliation'[t] # None <=> Positions(t)' # {}
             /\ transactions'[t] # None =>
                   /\ MerchantComes(transactions[t].merchant_id)'
                   /\ \/ StatusLogged(t, transactions[t].current_status)'
                      \/ StatusInFile(t, transactions[t].current_status)'
  <2>1. CASE t # t0
    <3>1. /\ transactions'[t] = transactions[t] /\ reconciliation'[t] = reconciliation[t]
          /\ Positions(t)' = Positions(t)
      BY <1>1, <2>1, CommitWritesRows, CommitAddsPosition
    <3>2. transactions[t] # None => transactions[t].merchant_id \in MerchantId
      BY DEF TypeInv, TypeOK, Transaction
    <3>3. /\ ~InFile(t)' => /\ transactions[t] # None <=> Positions(t) # {}
                            /\ reconciliation[t] # None <=> Positions(t) # {}
          /\ transactions[t] # None =>
                   /\ MerchantComes(transactions[t].merchant_id)
                   /\ \/ StatusLogged(t, transactions[t].current_status)
                      \/ StatusInFile(t, transactions[t].current_status)
      BY FileStays DEF TablesHaveCause
    <3> QED
      BY <1>3, <3>1, <3>2, <3>3, FileStays
  <2>2. CASE t = t0
    <3>1. transactions'[t] # None /\ reconciliation'[t] # None /\ Positions(t)' # {}
      BY <1>1, <2>2, CommitWritesRows, CommitAddsPosition
    <3>2. StatusLogged(t, EVENT_TO_STATUS[p.event_type])'
      BY <1>1, <2>2, CommitAddsPosition
    <3>3. \/ /\ transactions'[t].merchant_id = p.merchant_id
             /\ transactions'[t].current_status = EVENT_TO_STATUS[p.event_type]
          \/ /\ transactions[t] # None
             /\ transactions'[t].merchant_id = transactions[t].merchant_id
             /\ transactions'[t].current_status
                   \in {EVENT_TO_STATUS[p.event_type], transactions[t].current_status}
      BY <1>1, <2>2, CommitWritesStatus
    <3>4. transactions[t] # None =>
             /\ transactions[t].merchant_id \in MerchantId
             /\ MerchantComes(transactions[t].merchant_id)
             /\ \/ StatusLogged(t, transactions[t].current_status)
                \/ StatusInFile(t, transactions[t].current_status)
      BY DEF TablesHaveCause, TypeInv, TypeOK, Transaction
    <3>5. PICK row : row = transactions'[t]
      OBVIOUS
    <3>6. MerchantComes(row.merchant_id)'
      BY <1>3, <1>4, <3>3, <3>4, <3>5
    <3>7. StatusLogged(t, row.current_status)' \/ StatusInFile(t, row.current_status)'
      BY <1>3, <3>2, <3>3, <3>4, <3>5, FileStays
    <3> QED
      BY <3>1, <3>5, <3>6, <3>7
  <2> QED
    BY <2>1, <2>2
<1> QED
  BY <1>5, <1>7, <1>8, <1>9 DEF TablesHaveCause

\* The upsert of a seeder keeps a row's merchant and sets its status.
LEMMA UpsertedRow ==
    ASSUME NEW stored \in Transaction \cup {None}, NEW row \in Transaction \cup {None},
           NEW new, new = Upserted(stored, row)
    PROVE  /\ new \in Transaction \cup {None}
           /\ stored # None => new # None /\ new.merchant_id = stored.merchant_id
           /\ row = None => new = stored
           /\ row # None =>
                 /\ new # None /\ new.current_status = row.current_status
                 /\ stored = None => new = row
<1>1. CASE row = None
  BY <1>1 DEF Upserted
<1>2. CASE row # None /\ stored = None
  BY <1>2 DEF Upserted
<1>3. CASE row # None /\ stored # None
  <2>1. new \in Transaction
    BY <1>3 DEF Upserted, Transaction
  <2>2. new # None
    BY <2>1, NoneAssumption DEF Transaction
  <2>3. new.merchant_id = stored.merchant_id /\ new.current_status = row.current_status
    BY <1>3 DEF Upserted, Transaction
  <2> QED
    BY <1>3, <2>1, <2>2, <2>3
<1> QED
  BY <1>1, <1>2, <1>3

LEMMA SeederTypes ==
    ASSUME file \in Files, TablesTyped, NEW from, NEW to, SeedsATable(from, to)
    PROVE  /\ TablesTyped'
           /\ TablesGrow
<1>1. PICK c : c = Computed
  OBVIOUS
<1>2. /\ c.merchants \in [MerchantId -> MerchantName \cup {None}]
      /\ c.transactions \in [TransactionId -> Transaction \cup {None}]
      /\ c.reconciliation \in [TransactionId -> ReconciliationRecord \cup {None}]
  BY <1>1, FileCalls
<1>3. Len(payment_events) \in Nat
  BY DEF TablesTyped
<1>4. CASE /\ merchants' = [m \in MerchantId |-> IF c.merchants[m] = None
                                                 THEN merchants[m] ELSE c.merchants[m]]
           /\ UNCHANGED <<transactions, payment_events, reconciliation>>
  BY <1>2, <1>3, <1>4 DEF TablesTyped, TablesGrow, Logged
<1>5. CASE /\ transactions' = [t \in TransactionId |-> Upserted(transactions[t], c.transactions[t])]
           /\ UNCHANGED <<merchants, payment_events, reconciliation>>
  <2>1. \A t \in TransactionId :
           /\ transactions'[t] \in Transaction \cup {None}
           /\ transactions[t] # None => transactions'[t] # None
    <3> SUFFICES ASSUME NEW t \in TransactionId
                 PROVE  /\ transactions'[t] \in Transaction \cup {None}
                        /\ transactions[t] # None => transactions'[t] # None
      OBVIOUS
    <3>1. PICK stored, row : stored = transactions[t] /\ row = c.transactions[t]
      OBVIOUS
    <3>2. stored \in Transaction \cup {None} /\ row \in Transaction \cup {None}
      BY <1>2, <3>1 DEF TablesTyped
    <3>3. transactions'[t] = Upserted(stored, row)
      BY <1>5, <3>1
    <3> QED
      BY <3>1, <3>2, <3>3, UpsertedRow
  <2>2. transactions' = [t \in TransactionId |-> transactions'[t]]
    BY <1>5
  <2>3. transactions' \in [TransactionId -> Transaction \cup {None}]
    BY <2>1, <2>2
  <2> QED
    BY <1>3, <1>5, <2>1, <2>3 DEF TablesTyped, TablesGrow, Logged
<1>6. CASE /\ payment_events' = payment_events \o [k \in DOMAIN Unlogged |-> EventRow(Unlogged[k])]
           /\ UNCHANGED <<merchants, transactions, reconciliation>>
  <2>1. payment_events \in Seq(PaymentEvent)
    BY DEF TablesTyped
  <2>2. PICK n, log : n = Len(payment_events) /\ log = payment_events'
    OBVIOUS
  <2>3. /\ log \in Seq(PaymentEvent) /\ DOMAIN payment_events = 1..n /\ Len(log) >= n
        /\ \A i \in 1..n : i \in DOMAIN log /\ log[i] = payment_events[i]
        /\ Logged \subseteq Logged'
    BY <1>6, <2>1, <2>2, SeededLog
  <2> QED
    BY <1>6, <2>2, <2>3 DEF TablesTyped, TablesGrow
<1>7. CASE /\ reconciliation' = [t \in TransactionId |->
                                    IF c.reconciliation[t] = None
                                    THEN reconciliation[t] ELSE c.reconciliation[t]]
           /\ UNCHANGED <<merchants, transactions, payment_events>>
  BY <1>2, <1>3, <1>7 DEF TablesTyped, TablesGrow, Logged
<1> QED
  BY <1>1, <1>4, <1>5, <1>6, <1>7 DEF SeedsATable

\* The rows of transaction t after a transaction of a seeder: as they were, or as computed.
LEMMA SeededRows ==
    ASSUME file \in Files, TablesTyped, NEW from, NEW to, SeedsATable(from, to),
           NEW t \in TransactionId, NEW c, c = Computed
    PROVE  /\ transactions[t] # None =>
                 transactions'[t].merchant_id = transactions[t].merchant_id
           /\ transactions[t] = None => transactions'[t] \in {None, c.transactions[t]}
           /\ ~InFile(t) => /\ transactions'[t] = transactions[t]
                            /\ reconciliation'[t] = reconciliation[t]
           /\ \/ transactions'[t] = transactions[t]
              \/ /\ InFile(t) /\ c.transactions[t] # None
                 /\ transactions'[t].current_status = c.transactions[t].current_status
           /\ InFile(t) =>
                 /\ from = "transactions" => 
                       /\ transactions'[t] # None
                       /\ transactions'[t].current_status = c.transactions[t].current_status
                 /\ from # "transactions" => transactions'[t] = transactions[t]
                 /\ from = "reconciliation" =>
                       reconciliation'[t] # None /\ reconciliation'[t] = c.reconciliation[t]
<1>1. /\ c.transactions \in [TransactionId -> Transaction \cup {None}]
      /\ c.transactions[t] # None <=> InFile(t)
      /\ c.reconciliation[t] # None <=> InFile(t)
  BY FileCalls
<1>2. CASE from = "transactions"
  <2>1. /\ transactions' = [u \in TransactionId |-> Upserted(transactions[u], c.transactions[u])]
        /\ reconciliation' = reconciliation
    BY <1>2 DEF SeedsATable
  <2>2. PICK stored, row : stored = transactions[t] /\ row = c.transactions[t]
    OBVIOUS
  <2>3. stored \in Transaction \cup {None} /\ row \in Transaction \cup {None}
    BY <1>1, <2>2 DEF TablesTyped
  <2>4. PICK new : new = Upserted(stored, row)
    OBVIOUS
  <2>5. transactions'[t] = new /\ reconciliation'[t] = reconciliation[t]
    BY <2>1, <2>2, <2>4
  <2>6. /\ stored # None => new # None /\ new.merchant_id = stored.merchant_id
        /\ row = None => new = stored
        /\ row # None =>
              /\ new # None /\ new.current_status = row.current_status
              /\ stored = None => new = row
    BY <2>3, <2>4, UpsertedRow
  <2> QED
    BY <1>1, <1>2, <2>2, <2>5, <2>6
<1>3. CASE from # "transactions"
  <2>1. transactions' = transactions
    BY <1>3 DEF SeedsATable
  <2>2. CASE from = "reconciliation"
    <3>1. reconciliation'[t] = IF c.reconciliation[t] = None
                               THEN reconciliation[t] ELSE c.reconciliation[t]
      BY <2>2 DEF SeedsATable
    <3> QED
      BY <1>1, <1>3, <2>1, <2>2, <3>1
  <2>3. CASE from # "reconciliation"
    <3>1. reconciliation' = reconciliation
      BY <1>3, <2>3 DEF SeedsATable
    <3> QED
      BY <1>1, <1>3, <2>1, <2>3, <3>1
  <2> QED
    BY <2>2, <2>3
<1> QED
  BY <1>2, <1>3

\* The log after a transaction of a seeder.
LEMMA SeederExtendsLog ==
    ASSUME file \in Files, TablesTyped, file' = file,
           NEW from, NEW to, SeedsATable(from, to), NEW log, log = payment_events'
    PROVE  /\ \A i \in DOMAIN log :
                 \/ i \in DOMAIN payment_events /\ log[i] = payment_events[i]
                 \/ /\ log[i].event_id \notin Logged
                    /\ \E k \in DOMAIN file : log[i] = EventRow(file[k])
           /\ \A i, j \in DOMAIN log :
                 (/\ log[i].event_id = log[j].event_id
                  /\ i \notin DOMAIN payment_events /\ j \notin DOMAIN payment_events) => i = j
           /\ from = "payment_events" => \A i \in DOMAIN file : file[i].event_id \in Logged'
           /\ \A t : ~InFile(t) => Positions(t)' = Positions(t)
<1>1. payment_events \in Seq(PaymentEvent)
  BY DEF TablesTyped
<1>2. CASE from # "payment_events"
  <2>1. log = payment_events
    BY <1>2 DEF SeedsATable
  <2> QED
    BY <1>2, <2>1 DEF Positions
<1>3. CASE from = "payment_events"
  <2>1. payment_events' = payment_events \o [k \in DOMAIN Unlogged |-> EventRow(Unlogged[k])]
    BY <1>3 DEF SeedsATable
  <2>2. PICK n : n = Len(payment_events)
    OBVIOUS
  <2>3. /\ log \in Seq(PaymentEvent) /\ n \in Nat /\ DOMAIN payment_events = 1..n
        /\ DOMAIN log = 1..Len(log)
        /\ \A i \in 1..n : i \in DOMAIN log /\ log[i] = payment_events[i]
        /\ \A i \in DOMAIN log : i > n =>
              /\ log[i].event_id \notin Logged
              /\ \E k \in DOMAIN file : log[i] = EventRow(file[k])
        /\ \A i, j \in DOMAIN log : n < i /\ i < j => log[i].event_id # log[j].event_id
        /\ \A i \in DOMAIN file : file[i].event_id \in Logged'
    <3>1. NewBehind(log, n)
      BY <1>1, <2>1, <2>2, SeededLog
    <3>2. /\ log \in Seq(PaymentEvent) /\ n \in Nat /\ DOMAIN payment_events = 1..n
          /\ DOMAIN log = 1..Len(log)
          /\ \A i \in 1..n : i \in DOMAIN log /\ log[i] = payment_events[i]
          /\ \A i \in DOMAIN file : file[i].event_id \in Logged'
      BY <1>1, <2>1, <2>2, SeededLog
    <3> QED
      BY <3>1, <3>2 DEF NewBehind
  <2>4. \A i \in DOMAIN log : i \in Nat /\ (i \in 1..n \/ i > n)
    BY <2>3
  <2>5. \A i \in DOMAIN log :
           \/ i \in DOMAIN payment_events /\ log[i] = payment_events[i]
           \/ /\ log[i].event_id \notin Logged
              /\ \E k \in DOMAIN file : log[i] = EventRow(file[k])
    BY <2>3, <2>4
  <2>6. ASSUME NEW i \in DOMAIN log, NEW j \in DOMAIN log, log[i].event_id = log[j].event_id,
               i \notin DOMAIN payment_events, j \notin DOMAIN payment_events
        PROVE  i = j
    <3>1. i \in Nat /\ j \in Nat /\ i > n /\ j > n
      BY <2>3, <2>4, <2>6
    <3>2. ~(i < j) /\ ~(j < i)
      BY <2>3, <2>6, <3>1
    <3> QED
      BY <3>1, <3>2
  <2>7. ASSUME NEW t, ~InFile(t)
        PROVE  Positions(t)' = Positions(t)
    <3>1. Positions(t)' = {i \in DOMAIN log : log[i].transaction_id = t}
      BY DEF Positions
    <3>2. \A k \in DOMAIN file : EventRow(file[k]).transaction_id # t
      BY <2>7 DEF InFile, EventRow
    <3>3. \A i \in DOMAIN log : log[i].transaction_id = t =>
             i \in DOMAIN payment_events /\ log[i] = payment_events[i]
      BY <2>5, <3>2
    <3>4. \A i \in DOMAIN payment_events : i \in DOMAIN log /\ log[i] = payment_events[i]
      BY <2>3
    <3> QED
      BY <3>1, <3>3, <3>4 DEF Positions
  <2> QED
    BY <2>3, <2>5, <2>6, <2>7
<1> QED
  BY <1>2, <1>3

LEMMA SeederHasCause ==
    ASSUME file \in Files, TablesTyped, TablesHaveCause, file' = file,
           NEW from, NEW to, SeedsATable(from, to)
    PROVE  TablesHaveCause'
<1>1. TablesTyped' /\ TablesGrow
  BY SeederTypes
<1>2. /\ \A t, status : StatusLogged(t, status) => StatusLogged(t, status)'
      /\ \A m \in MerchantId : MerchantComes(m) => MerchantComes(m)'
  BY <1>1, GrownLog
<1>3. PICK log : log = payment_events'
  OBVIOUS
<1>4. /\ \A i \in DOMAIN log :
            \/ i \in DOMAIN payment_events /\ log[i] = payment_events[i]
            \/ /\ log[i].event_id \notin Logged
               /\ \E k \in DOMAIN file : log[i] = EventRow(file[k])
      /\ \A i, j \in DOMAIN log :
            (/\ log[i].event_id = log[j].event_id
             /\ i \notin DOMAIN payment_events /\ j \notin DOMAIN payment_events) => i = j
      /\ \A t : ~InFile(t) => Positions(t)' = Positions(t)
  BY <1>3, SeederExtendsLog
<1>5. PICK c : c = Computed
  OBVIOUS
<1>6. /\ \A i \in DOMAIN file : /\ file[i] \in FileEvent
                                /\ c.merchants[file[i].merchant_id] # None
      /\ \A t \in TransactionId :
            c.transactions[t] # None =>
                /\ c.transactions[t] \in Transaction
                /\ c.merchants[c.transactions[t].merchant_id] # None
                /\ StatusInFile(t, c.transactions[t].current_status)
  BY <1>5, FileCalls
<1>7. \A m : c.merchants[m] # None => MerchantComes(m)'
  BY <1>5, FileStays DEF MerchantComes
<1>8. \A i \in DOMAIN payment_events : payment_events[i].merchant_id \in MerchantId
  <2>1. \A i \in DOMAIN payment_events : payment_events[i] \in PaymentEvent
    BY DEF TablesTyped
  <2> QED
    BY <2>1, KeysOfPayload
<1>9. ASSUME NEW i \in DOMAIN log, NEW j \in DOMAIN log, log[i].event_id = log[j].event_id
      PROVE  i = j
  <2>1. \A k \in DOMAIN payment_events : payment_events[k].event_id \in Logged
    BY DEF Logged
  <2>2. CASE i \in DOMAIN payment_events /\ j \in DOMAIN payment_events
    BY <1>3, <1>1, <1>9, <2>2 DEF TablesHaveCause, TablesGrow
  <2>3. CASE i \in DOMAIN payment_events /\ j \notin DOMAIN payment_events
    BY <1>1, <1>3, <1>4, <1>9, <2>1, <2>3 DEF TablesGrow
  <2>4. CASE i \notin DOMAIN payment_events /\ j \in DOMAIN payment_events
    BY <1>1, <1>3, <1>4, <1>9, <2>1, <2>4 DEF TablesGrow
  <2>5. CASE i \notin DOMAIN payment_events /\ j \notin DOMAIN payment_events
    BY <1>4, <1>9, <2>5
  <2> QED
    BY <2>2, <2>3, <2>4, <2>5
<1>10. ASSUME NEW i \in DOMAIN log
       PROVE  Known(log[i])' /\ MerchantComes(log[i].merchant_id)'
  <2>1. CASE i \in DOMAIN payment_events /\ log[i] = payment_events[i]
    <3>1. Known(log[i])' /\ MerchantComes(log[i].merchant_id)
      BY <2>1, FileStays DEF TablesHaveCause
    <3> QED
      BY <1>2, <1>8, <2>1, <3>1
  <2>2. CASE \E k \in DOMAIN file : log[i] = EventRow(file[k])
    <3>1. PICK k \in DOMAIN file : log[i] = EventRow(file[k])
      BY <2>2
    <3>2. Known(log[i])'
      BY <3>1, FileStays DEF Known
    <3>3. c.merchants[log[i].merchant_id] # None
      BY <1>6, <3>1 DEF EventRow
    <3> QED
      BY <1>7, <3>2, <3>3
  <2> QED
    BY <1>4, <2>1, <2>2
<1>11. ASSUME NEW t \in TransactionId
       PROVE  /\ ~InFile(t)' =>
                    /\ transactions'[t] # None <=> Positions(t)' # {}
                    /\ reconciliation'[t] # None <=> Positions(t)' # {}
              /\ transactions'[t] # None =>
                    /\ MerchantComes(transactions[t].merchant_id)'
                    /\ \/ StatusLogged(t, transactions[t].current_status)'
                       \/ StatusInFile(t, transactions[t].current_status)'
  <2>1. PICK old, new, row : old = transactions[t] /\ new = transactions'[t] /\ row = c.transactions[t]
    OBVIOUS
  <2>2. /\ old # None => new.merchant_id = old.merchant_id
        /\ old = None => new \in {None, row}
        /\ new = old \/ (row # None /\ new.current_status = row.current_status)
    BY <1>5, <2>1, SeededRows
  <2>3. /\ row # None =>
              /\ row \in Transaction
              /\ MerchantComes(row.merchant_id)'
              /\ StatusInFile(t, row.current_status)'
    BY <1>6, <1>7, <2>1, FileStays
  <2>4. old # None => /\ MerchantComes(old.merchant_id)'
                      /\ \/ StatusLogged(t, old.current_status)'
                         \/ StatusInFile(t, old.current_status)'
    <3>1. old # None => /\ old.merchant_id \in MerchantId
                        /\ MerchantComes(old.merchant_id)
                        /\ \/ StatusLogged(t, old.current_status)
                           \/ StatusInFile(t, old.current_status)
      BY <2>1 DEF TablesTyped, TablesHaveCause, Transaction
    <3> QED
      BY <1>2, <3>1, FileStays
  <2>5. new # None => /\ MerchantComes(new.merchant_id)'
                      /\ \/ StatusLogged(t, new.current_status)'
                         \/ StatusInFile(t, new.current_status)'
    BY <2>2, <2>3, <2>4
  <2>6. ASSUME ~InFile(t)
        PROVE  /\ transactions'[t] # None <=> Positions(t)' # {}
               /\ reconciliation'[t] # None <=> Positions(t)' # {}
    <3>1. transactions'[t] = transactions[t] /\ reconciliation'[t] = reconciliation[t]
      BY <1>5, <2>6, SeededRows
    <3> QED
      BY <1>4, <2>6, <3>1 DEF TablesHaveCause
  <2> QED
    BY <2>1, <2>5, <2>6, FileStays
<1> QED
  BY <1>3, <1>9, <1>10, <1>11 DEF TablesHaveCause

-----------------------------------------------------------------------------
(* The sessions.                                                            *)

LEMMA SessionsInvInit == Init => SessionsInv
<1>1. Init => LockInv
  BY LockInvInit
<1> QED
  BY <1>1, SessionAssumption DEF Init, Nobody, SessionsInv, HolderIsNew, HoldsStoredMerchant

\* No two sessions hold the lock, and an event whose flush has met no other of its
\* event_id is not logged before its own commit.
LEMMA HolderStaysNew ==
    ASSUME SessionsInv, [Next]_vars
    PROVE  HolderIsNew'
<1> USE SessionAssumption DEF SessionsInv, LockInv, LockIsHeldToWrite, TypeInv, TypeOK, HolderIsNew
<1>1. ASSUME NEW s \in Session, NEW p \in Inbox[s], Receive(s, p)
      PROVE  HolderIsNew'
  <2>1. lock # s
    BY <1>1 DEF Receive
  <2> QED
    BY <1>1, <2>1 DEF Receive, tables, Logged
<1>2. ASSUME NEW s \in Session,
             \/ GetMerchant(s) \/ GetTransaction(s) \/ LoadReconciliation(s)
             \/ SelectReconciliation(s)
      PROVE  HolderIsNew'
  BY <1>2 DEF GetMerchant, GetTransaction, LoadReconciliation, SelectReconciliation, tables,
              Logged
<1>3. ASSUME NEW s \in Session, Flush(s)
      PROVE  HolderIsNew'
  BY <1>3 DEF Flush, UniqueViolation, tables, Logged
<1>4. ASSUME NEW s \in Session, FlushRejected(s) \/ Raise(s)
      PROVE  HolderIsNew'
  BY <1>4 DEF FlushRejected, Raise, Finish, tables, Logged
<1>5. ASSUME NEW s \in Session, Commit(s)
      PROVE  HolderIsNew'
  BY <1>5 DEF Commit, Finish
<1>6. ASSUME NEW s \in Session, Respond(s)
      PROVE  HolderIsNew'
  <2>1. lock # s
    BY <1>6 DEF Respond
  <2> QED
    BY <1>6, <2>1 DEF Respond, tables, Logged
<1>7. CASE Crash
  BY <1>7 DEF Crash
<1>8. CASE UNCHANGED vars
  BY <1>8 DEF vars, tables, locals, Logged
<1> QED
  BY <1>1, <1>2, <1>3, <1>4, <1>5, <1>6, <1>7, <1>8 DEF Next, Step

\* A step of the service writes no table, or commits.
LEMMA LoadsOrCommits ==
    ASSUME TypeInv, HoldsStoredMerchant, [Next]_vars
    PROVE  LoadsRows \/ \E s \in Session : Commit(s)
<1>1. ASSUME NEW s \in Session, FlushRejected(s) \/ Raise(s)
      PROVE  LoadsRows
  BY <1>1, EndDropsRows DEF FlushRejected, Raise
<1>2. CASE UNCHANGED vars
  BY <1>2, StutterLoadsRows DEF vars
<1> QED
  BY <1>1, <1>2, ReadsLoadRows, CrashDropsRows DEF Next, Step

LEMMA MerchantsStayHeld ==
    ASSUME TypeInv, HoldsStoredMerchant, [Next]_vars
    PROVE  HoldsStoredMerchant'
<1>1. CASE LoadsRows
  <2>1. UNCHANGED merchants
    BY <1>1 DEF LoadsRows, tables
  <2> QED
    BY <1>1, <2>1 DEF HoldsStoredMerchant, LoadsRows, KeptOrLoaded
<1>2. ASSUME NEW s \in Session, Commit(s)
      PROVE  HoldsStoredMerchant'
  <2>1. PICK p \in PaymentEvent : payload[s] = p
    BY <1>2 DEF TypeInv, ServesAPayload, Commit
  <2>2. \A m \in MerchantId : merchants[m] # None => merchants'[m] # None
    BY <1>2, <2>1, CommitStoresMerchant
  <2>3. /\ payload' = payload
        /\ merchant'[s] = None /\ pc'[s] = "respond"
        /\ \A r \in Session \ {s} : merchant'[r] = merchant[r] /\ pc'[r] = pc[r]
    BY <1>2 DEF Commit, Finish, Goto, TypeInv, TypeOK
  <2>4. \A r \in Session : pc[r] # "idle" => payload[r].merchant_id \in MerchantId
    BY KeysOfPayload DEF TypeInv, ServesAPayload
  <2> QED
    BY <2>2, <2>3, <2>4 DEF HoldsStoredMerchant
<1> QED
  BY <1>1, <1>2, LoadsOrCommits

LEMMA SessionsInvStep ==
    ASSUME SessionsInv, [Next]_vars
    PROVE  SessionsInv'
<1>1. LockInv' /\ HolderIsNew'
  BY LockInvStep, HolderStaysNew DEF SessionsInv
<1>2. HoldsStoredMerchant'
  BY MerchantsStayHeld DEF SessionsInv, LockInv
<1>3. ASSUME NEW r \in Session, pc'[r] # "idle"
      PROVE  payload'[r] \in Inbox[r]
  <2> USE DEF SessionsInv, LockInv, TypeInv, TypeOK
  <2>1. ASSUME NEW s \in Session, NEW p \in Inbox[s], Receive(s, p)
        PROVE  payload'[r] \in Inbox[r]
    BY <1>3, <2>1 DEF Receive, Goto
  <2>2. ASSUME NEW s \in Session,
               \/ GetMerchant(s) \/ GetTransaction(s) \/ LoadReconciliation(s) \/ Flush(s)
               \/ SelectReconciliation(s) \/ FlushRejected(s) \/ Commit(s) \/ Raise(s)
        PROVE  payload'[r] \in Inbox[r]
    BY <1>3, <2>2 DEF GetMerchant, GetTransaction, LoadReconciliation, Flush,
                      SelectReconciliation, FlushRejected, Commit, Raise, Finish, Goto
  <2>3. ASSUME NEW s \in Session, Respond(s)
        PROVE  payload'[r] \in Inbox[r]
    BY <1>3, <2>3 DEF Respond, Goto
  <2>4. CASE Crash
    BY <1>3, <2>4 DEF Crash
  <2>5. CASE UNCHANGED vars
    BY <1>3, <2>5 DEF vars, locals
  <2> QED
    BY <2>1, <2>2, <2>3, <2>4, <2>5 DEF Next, Step
<1> QED
  BY <1>1, <1>2, <1>3 DEF SessionsInv

\* A seeder takes no row from a session, and writes only when no session does.
LEMMA SeederLeavesSessions ==
    ASSUME SessionsInv, file \in Files, lock = None, UNCHANGED <<lock, locals, answers>>,
           NEW from, NEW to, SeedsATable(from, to)
    PROVE  SessionsInv'
<1>1. TypeInv /\ HoldsStoredMerchant /\ LockIsHeldToWrite
  BY DEF SessionsInv, LockInv
<1>2. TablesTyped
  BY <1>1 DEF TypeInv, TypeOK, TablesTyped
<1>3. TablesTyped' /\ TablesGrow
  BY <1>2, SeederTypes
<1>4. UNCHANGED <<lock, pc, payload, merchant, transaction, recon, outcome, acknowledged, refused>>
  BY DEF locals, answers
<1>5. TypeOK'
  BY <1>1, <1>3, <1>4 DEF TypeInv, TypeOK, TablesTyped
<1>6. ServesAPayload' /\ LockIsHeldToWrite' /\ HolderIsNew'
  BY <1>1, <1>4, SessionAssumption DEF TypeInv, ServesAPayload, LockIsHeldToWrite, HolderIsNew
<1>7. \A s \in Session : pc[s] # "idle" =>
         payload[s].transaction_id \in TransactionId /\ payload[s].merchant_id \in MerchantId
  BY <1>1, KeysOfPayload DEF TypeInv, ServesAPayload
<1>8. HoldsStoredRows'
  BY <1>1, <1>3, <1>4, <1>7 DEF TypeInv, HoldsStoredRows, TablesGrow
<1>9. HoldsStoredMerchant'
  BY <1>1, <1>3, <1>4, <1>7 DEF HoldsStoredMerchant, TablesGrow
<1>10. \A s \in Session : pc'[s] # "idle" => payload'[s] \in Inbox[s]
  BY <1>4 DEF SessionsInv
<1> QED
  BY <1>5, <1>6, <1>8, <1>9, <1>10 DEF SessionsInv, LockInv, TypeInv

-----------------------------------------------------------------------------
(* The steps of the deployment: the service takes one, the server's seeder  *)
(* or that of the tests writes a table, or no table changes.                *)

Serves ==
    /\ step = "ready" /\ [Next]_vars
    /\ UNCHANGED <<file, step, stage, reseeded>>

ServerSeeds ==
    /\ step = "seed" /\ lock = None /\ SeedsATable(stage, stage')
    /\ step' = IF stage' = "done" THEN "ready" ELSE "seed"
    /\ UNCHANGED <<lock, locals, answers, file>>

TestsSeed ==
    /\ lock = None /\ SeedsATable(test_stage, test_stage') /\ reseeded' = TRUE
    /\ UNCHANGED <<lock, locals, answers, file, step, stage>>

\* A server is ready after such a step only if it was, and its seeder has got no further.
Boots ==
    /\ UNCHANGED <<tables, file>> /\ [Next]_vars
    /\ step' = "ready" => step = "ready" /\ stage' = stage /\ (reseeded = TRUE => reseeded' = TRUE)
    /\ step' = "seed" => (step = "seed" /\ stage' = stage) \/ stage' = "merchants"

LEMMA StepsOfServer ==
    ASSUME BootInv, run_server
    PROVE  Boots \/ ServerSeeds
<1>1. UNCHANGED <<locals, answers>> /\ Server!Next
  BY DEF run_server
<1>2. CASE Server!step_seed
  BY <1>1, <1>2, ServerSeedsATable DEF Server!step_seed, ServerSeeds
<1>3. ASSUME \/ Server!step_venv \/ Server!step_install \/ Server!step_write_sources
             \/ Server!Exit \/ Server!Start
      PROVE  Boots
  <2>1. UNCHANGED <<merchants, transactions, payment_events, reconciliation, lock, file>>
    BY <1>3 DEF Server!step_venv, Server!step_install, Server!step_write_sources,
                Server!Exit, Server!Start, Server!tables
  <2>2. UNCHANGED vars /\ UNCHANGED tables
    BY <1>1, <2>1 DEF vars, tables
  <2>3. step' # "ready" /\ (step' = "seed" => stage' = "merchants")
    BY <1>3 DEF Server!step_venv, Server!step_install, Server!pip_install,
                Server!step_write_sources, Server!Exit, Server!Start, BootInv
  <2> QED
    BY <2>1, <2>2, <2>3 DEF Boots
<1> QED
  BY <1>1, <1>2, <1>3 DEF Server!Next

LEMMA StepsOfTests ==
    ASSUME run_tests
    PROVE  Boots \/ TestsSeed
<1>1. UNCHANGED <<locals, answers, step, stage>> /\ Tests!Next
      /\ reseeded' = (reseeded \/ test_step = "seed")
  BY DEF run_tests, started
<1>2. CASE Tests!step_seed
  <2>1. reseeded' = TRUE
    BY <1>1, <1>2 DEF Tests!step_seed
  <2> QED
    BY <1>1, <1>2, <2>1, TestsSeedATable DEF Tests!step_seed, TestsSeed
<1>3. ASSUME \/ Tests!step_venv \/ Tests!step_install \/ Tests!step_write_sources
             \/ Tests!Exit \/ Tests!Start
      PROVE  Boots
  <2>1. UNCHANGED <<merchants, transactions, payment_events, reconciliation, lock, file>>
    BY <1>3 DEF Tests!step_venv, Tests!step_install, Tests!step_write_sources,
                Tests!Exit, Tests!Start, Tests!tables
  <2>2. UNCHANGED vars /\ UNCHANGED tables
    BY <1>1, <2>1 DEF vars, tables
  <2>3. reseeded = TRUE => reseeded' = TRUE
    BY <1>1
  <2> QED
    BY <1>1, <2>1, <2>2, <2>3 DEF Boots
<1> QED
  BY <1>1, <1>2, <1>3 DEF Tests!Next

\* The requests in progress go, or there are none.
LEMMA RequestsAreDropped ==
    ASSUME DropRequests
    PROVE  [Next]_vars /\ UNCHANGED tables
BY DEF DropRequests, Next, Crash, vars

LEMMA StepsOfDeployment ==
    ASSUME BootInv, [DeploymentNext]_all_vars
    PROVE  Serves \/ Boots \/ ServerSeeds \/ TestsSeed
<1>1. CASE Serve
  <2>1. Next
    BY <1>1 DEF Serve, post_event, ingest_event, Next
  <2> QED
    BY <1>1, <2>1 DEF Serve, Serves, bootstrap, started
<1>2. CASE Load
  BY <1>2, RequestsAreDropped DEF Load, Serves, started
<1>3. CASE Stop
  BY <1>3, RequestsAreDropped DEF Stop, Boots
<1>4. CASE pytest \/ UNCHANGED all_vars
  <2>1. UNCHANGED <<vars, file, step, stage, reseeded>>
    BY <1>4 DEF pytest, all_vars, bootstrap, started
  <2>2. UNCHANGED tables
    BY <2>1 DEF vars
  <2> QED
    BY <2>1, <2>2 DEF Boots
<1> QED
  BY <1>1, <1>2, <1>3, <1>4, StepsOfServer, StepsOfTests DEF DeploymentNext

-----------------------------------------------------------------------------
(* The bootstraps.                                                          *)

LEMMA BootInvInit == DeploymentInit => BootInv
<1>1. Init => TypeOK
  BY TypeInvInit DEF TypeInv
<1>2. NumSources \in Nat /\ 0 \in 0..NumSources
  BY DeploymentAssumption
<1> QED
  BY <1>1, <1>2 DEF DeploymentInit, Init, BootInv, DeploymentTypeOK, Counted,
     Server!BootStep, Server!Rewriting, Server!Seeder!Stage

\* What the variables of a bootstrap may become, whichever run.py takes the step.
LEMMA ServerKeepsBootInv ==
    ASSUME BootInv, TypeOK', run_server
    PROVE  BootInv'
<1> USE DEF Server!BootStep, Server!Rewriting, Server!Seeder!Stage, Server!Part, Server!Source
<1>0. NumSources \in Nat /\ NumSources # 0 /\ 0 \in 0..NumSources
  BY DeploymentAssumption
<1>1. /\ UNCHANGED <<pc, test_step, test_stage, test_written, worker>> /\ Server!Next
      /\ reseeded' \in BOOLEAN /\ beside' \in {"nothing", "rewrote", "cut_short"}
  <2>1. reseeded' \in {FALSE, reseeded} /\ beside' \in {"nothing", "rewrote", beside}
    BY DEF run_server
  <2>2. reseeded \in BOOLEAN /\ beside \in {"nothing", "rewrote", "cut_short"}
    BY DEF BootInv, DeploymentTypeOK
  <2> QED
    BY <2>1, <2>2 DEF run_server, locals, tested
<1>2. /\ venv \subseteq Server!Part /\ sources \subseteq Server!Source
      /\ file \in Files /\ step \in Server!BootStep /\ stage \in Server!Seeder!Stage
      /\ written \in 0..NumSources /\ Counted(step, written)
      /\ step \notin {"seed", "ready"} => stage = "merchants"
      /\ step = "seed" => stage # "done"
      /\ step = "ready" => stage = "done"
      /\ step # "ready" => /\ worker = "starting"
                           /\ lock = None /\ \A s \in Session : pc[s] = "idle"
  BY DEF BootInv, DeploymentTypeOK
<1>3. SUFFICES /\ venv' \subseteq Server!Part /\ sources' \subseteq Server!Source
               /\ file' \in Files /\ step' \in Server!BootStep /\ stage' \in Server!Seeder!Stage
               /\ written' \in 0..NumSources /\ Counted(step', written')
               /\ step' \notin {"seed", "ready"} => stage' = "merchants"
               /\ step' = "seed" => stage' # "done"
               /\ step' = "ready" => stage' = "done"
               /\ lock' = None /\ step # "ready"
  BY <1>1, <1>2 DEF BootInv, DeploymentTypeOK, Counted
<1>4. CASE Server!step_seed
  <2>1. SeedsATable(stage, stage') /\ file' = file
    BY <1>4, ServerSeedsATable DEF Server!step_seed
  <2>2. stage' \in Server!Seeder!Stage
    BY <2>1 DEF SeedsATable
  <2> QED
    BY <1>2, <1>4, <2>1, <2>2 DEF Server!step_seed, Counted
<1>5. CASE Server!step_venv
  BY <1>2, <1>5 DEF Server!step_venv, Counted
<1>6. CASE Server!step_install
  <2>1. /\ step \in {"upgrade_pip", "replacing_pip", "install", "replacing_packages"}
        /\ step' \in {"replacing_pip", "install", "replacing_packages", "write_sources"}
        /\ venv' \subseteq venv \cup {"pip", "packages"}
        /\ UNCHANGED <<lock, sources, file, stage, written>>
    BY <1>6 DEF Server!step_install, Server!pip_install
  <2>2. written = 0
    BY <1>2, <2>1 DEF Counted
  <2>3. Counted(step', written')
    BY <1>0, <2>1, <2>2 DEF Counted
  <2> QED
    BY <1>2, <2>1, <2>3
<1>7. CASE Server!step_write_sources
  <2>1. /\ step \in {"write_sources", "writing_source"}
        /\ sources' \subseteq sources \cup {written + 1}
        /\ \/ step' = "writing_source" /\ written' = written
           \/ /\ written' = written + 1
              /\ step' = IF written + 1 = NumSources THEN "seed" ELSE "write_sources"
        /\ UNCHANGED <<lock, venv, file, stage>>
    BY <1>7 DEF Server!step_write_sources
  <2>2. written \in Nat /\ written < NumSources
    BY <1>2, <2>1 DEF Counted
  <2>3. /\ written + 1 \in 1..NumSources /\ written' \in 0..NumSources
        /\ Counted(step', written')
    BY <1>0, <2>1, <2>2 DEF Counted
  <2> QED
    BY <1>2, <2>1, <2>3
<1>8. CASE Server!Exit \/ Server!Start
  BY <1>0, <1>2, <1>8 DEF Server!Exit, Server!Start, Counted
<1> QED
  BY <1>1, <1>4, <1>5, <1>6, <1>7, <1>8 DEF Server!Next

LEMMA TestsKeepBootInv ==
    ASSUME BootInv, TypeOK', run_tests
    PROVE  BootInv'
<1> USE DEF Server!BootStep, Server!Rewriting, Server!Seeder!Stage, Server!Part, Server!Source
<1>0. NumSources \in Nat /\ NumSources # 0 /\ 0 \in 0..NumSources
  BY DeploymentAssumption
<1>1. /\ UNCHANGED <<pc, step, stage, written, worker>> /\ Tests!Next
      /\ reseeded' \in BOOLEAN /\ beside' \in {"nothing", "rewrote", "cut_short"}
  <2>1. beside' \in {"cut_short", "rewrote", beside}
    BY DEF run_tests
  <2>2. beside \in {"nothing", "rewrote", "cut_short"}
    BY DEF BootInv, DeploymentTypeOK
  <2> QED
    BY <2>1, <2>2 DEF run_tests, locals, started
<1>2. /\ venv \subseteq Server!Part /\ sources \subseteq Server!Source
      /\ file \in Files
      /\ test_step \in Server!BootStep /\ test_stage \in Server!Seeder!Stage
      /\ test_written \in 0..NumSources /\ Counted(test_step, test_written)
  BY DEF BootInv, DeploymentTypeOK
<1>3. SUFFICES /\ venv' \subseteq Server!Part /\ sources' \subseteq Server!Source
               /\ file' \in Files
               /\ test_step' \in Server!BootStep /\ test_stage' \in Server!Seeder!Stage
               /\ test_written' \in 0..NumSources /\ Counted(test_step', test_written')
               /\ lock' = lock
  BY <1>1, <1>2 DEF BootInv, DeploymentTypeOK, Counted
<1>4. CASE Tests!step_seed
  <2>1. SeedsATable(test_stage, test_stage') /\ file' = file
    BY <1>4, TestsSeedATable DEF Tests!step_seed
  <2>2. test_stage' \in Server!Seeder!Stage
    BY <2>1 DEF SeedsATable
  <2> QED
    BY <1>2, <1>4, <2>1, <2>2 DEF Tests!step_seed, Counted
<1>5. CASE Tests!step_venv
  BY <1>2, <1>5 DEF Tests!step_venv, Counted
<1>6. CASE Tests!step_install
  <2>1. /\ test_step \in {"upgrade_pip", "replacing_pip", "install", "replacing_packages"}
        /\ test_step' \in {"replacing_pip", "install", "replacing_packages", "write_sources"}
        /\ venv' \subseteq venv \cup {"pip", "packages"}
        /\ UNCHANGED <<lock, sources, file, test_stage, test_written>>
    BY <1>6 DEF Tests!step_install, Tests!pip_install
  <2>2. test_written = 0
    BY <1>2, <2>1 DEF Counted
  <2>3. Counted(test_step', test_written')
    BY <1>0, <2>1, <2>2 DEF Counted
  <2> QED
    BY <1>2, <2>1, <2>3
<1>7. CASE Tests!step_write_sources
  <2>1. /\ test_step \in {"write_sources", "writing_source"}
        /\ sources' \subseteq sources \cup {test_written + 1}
        /\ \/ test_step' = "writing_source" /\ test_written' = test_written
           \/ /\ test_written' = test_written + 1
              /\ test_step' = IF test_written + 1 = NumSources THEN "seed" ELSE "write_sources"
        /\ UNCHANGED <<lock, venv, file, test_stage>>
    BY <1>7 DEF Tests!step_write_sources
  <2>2. test_written \in Nat /\ test_written < NumSources
    BY <1>2, <2>1 DEF Counted
  <2>3. /\ test_written + 1 \in 1..NumSources /\ test_written' \in 0..NumSources
        /\ Counted(test_step', test_written')
    BY <1>0, <2>1, <2>2 DEF Counted
  <2> QED
    BY <1>2, <2>1, <2>3
<1>8. CASE Tests!Exit \/ Tests!Start
  BY <1>0, <1>2, <1>8 DEF Tests!Exit, Tests!Start, Counted
<1> QED
  BY <1>1, <1>4, <1>5, <1>6, <1>7, <1>8 DEF Tests!Next

LEMMA BootInvStep ==
    ASSUME BootInv, SessionsInv, TypeOK', [DeploymentNext]_all_vars
    PROVE  BootInv'
<1> USE DEF started, tested
<1>1. CASE Serve
  BY <1>1 DEF Serve, bootstrap, BootInv, DeploymentTypeOK, Counted
<1>2. CASE Load
  <2>1. worker' \in {"up", "down"}
    BY <1>2 DEF Load
  <2> QED
    BY <1>2, <2>1 DEF Load, BootInv, DeploymentTypeOK, Counted
<1>3. CASE Stop
  <2>1. lock' = None /\ \A s \in Session : pc'[s] = "idle"
    <3>1. TypeOK /\ LockIsHeldToWrite
      BY DEF SessionsInv, LockInv, TypeInv
    <3>2. CASE \E s \in Session : pc[s] # "idle"
      BY <1>3, <3>2 DEF Stop, DropRequests, Crash
    <3>3. CASE \A s \in Session : pc[s] = "idle"
      <4>1. lock = None
        BY <3>1, <3>3 DEF LockIsHeldToWrite, TypeOK
      <4> QED
        BY <1>3, <3>3, <4>1 DEF Stop, DropRequests, vars, locals
    <3> QED
      BY <3>2, <3>3
  <2> QED
    BY <1>3, <2>1, DeploymentAssumption
       DEF Stop, BootInv, DeploymentTypeOK, Counted, Server!BootStep, Server!Seeder!Stage
<1>4. CASE pytest
  BY <1>4, DeploymentAssumption
     DEF pytest, vars, locals, BootInv, DeploymentTypeOK, Counted, Server!BootStep, Server!Seeder!Stage
<1>5. CASE UNCHANGED all_vars
  BY <1>5 DEF all_vars, vars, bootstrap, locals, BootInv, DeploymentTypeOK, Counted
<1> QED
  BY <1>1, <1>2, <1>3, <1>4, <1>5, ServerKeepsBootInv, TestsKeepBootInv DEF DeploymentNext

-----------------------------------------------------------------------------
(* What the steps keep.                                                     *)

LEMMA StepGrowsTables ==
    ASSUME SessionsInv, file \in Files, Serves \/ Boots \/ ServerSeeds \/ TestsSeed
    PROVE  TablesGrow /\ file' = file
<1>1. TypeInv /\ HoldsStoredMerchant
  BY DEF SessionsInv, LockInv
<1>2. TablesTyped
  BY <1>1 DEF TypeInv, TypeOK, TablesTyped
<1>3. CASE Serves
  <2>1. file' = file
    BY <1>3 DEF Serves
  <2>2. CASE LoadsRows
    <3>1. UNCHANGED <<tables, file>>
      BY <2>1, <2>2 DEF LoadsRows
    <3> QED
      BY <1>1, <2>1, <3>1, UntouchedTables
  <2>3. ASSUME NEW s \in Session, Commit(s)
        PROVE  TablesGrow
    BY <1>1, <2>3, CommitGrowsTables
  <2> QED
    BY <1>1, <1>3, <2>1, <2>2, <2>3, LoadsOrCommits DEF Serves
<1>4. CASE Boots
  BY <1>1, <1>4, UntouchedTables DEF Boots
<1>5. CASE ServerSeeds
  BY <1>2, <1>5, SeederTypes DEF ServerSeeds
<1>6. CASE TestsSeed
  BY <1>2, <1>6, SeederTypes DEF TestsSeed
<1> QED
  BY <1>3, <1>4, <1>5, <1>6

LEMMA SeededStays ==
    ASSUME TablesGrow, file' = file
    PROVE  /\ MerchantsSeeded => MerchantsSeeded'
           /\ TransactionsSeeded => TransactionsSeeded'
           /\ EventsSeeded => EventsSeeded'
           /\ ReconciliationsSeeded => ReconciliationsSeeded'
<1>1. MerchantsSeeded => MerchantsSeeded'
  BY FileStays DEF TablesGrow, MerchantsSeeded
<1>2. TransactionsSeeded => TransactionsSeeded'
  BY FileStays DEF TablesGrow, TransactionsSeeded
<1>3. EventsSeeded => EventsSeeded'
  BY DEF TablesGrow, EventsSeeded
<1>4. ReconciliationsSeeded => ReconciliationsSeeded'
  BY FileStays DEF TablesGrow, ReconciliationsSeeded
<1> QED
  BY <1>1, <1>2, <1>3, <1>4

LEMMA SeededSoFarStep ==
    ASSUME SessionsInv, BootInv, SeededSoFar, Serves \/ Boots \/ ServerSeeds \/ TestsSeed
    PROVE  SeededSoFar'
<1>1. file \in Files
  BY DEF BootInv, DeploymentTypeOK
<1>2. TablesGrow /\ file' = file
  BY <1>1, StepGrowsTables
<1>3. /\ MerchantsSeeded => MerchantsSeeded'
      /\ TransactionsSeeded => TransactionsSeeded'
      /\ EventsSeeded => EventsSeeded'
      /\ ReconciliationsSeeded => ReconciliationsSeeded'
  BY <1>2, SeededStays
<1>4. CASE Serves \/ TestsSeed
  BY <1>3, <1>4 DEF Serves, TestsSeed, SeededSoFar
<1>5. CASE Boots
  BY <1>3, <1>5 DEF Boots, SeededSoFar
<1>6. CASE ServerSeeds
  <2>1. TablesTyped
    BY DEF SessionsInv, LockInv, TypeInv, TypeOK, TablesTyped
  <2>2. step = "seed" /\ SeedsATable(stage, stage')
    BY <1>6 DEF ServerSeeds
  <2>3. CASE stage = "merchants" /\ stage' = "transactions"
    <3>1. \A m \in MerchantId : Computed.merchants[m] # None => merchants'[m] # None
      BY <2>2, <2>3 DEF SeedsATable
    <3>2. MerchantsSeeded'
      BY <1>2, <3>1, FileStays DEF MerchantsSeeded
    <3> QED
      BY <2>3, <3>2 DEF SeededSoFar
  <2>4. CASE stage = "transactions" /\ stage' = "payment_events"
    <3>1. TransactionsSeeded'
      BY <1>1, <1>2, <2>1, <2>2, <2>4, SeededRows, FileStays DEF TransactionsSeeded
    <3> QED
      BY <1>3, <2>2, <2>4, <3>1 DEF SeededSoFar
  <2>5. CASE stage = "payment_events" /\ stage' = "reconciliation"
    <3>1. EventsSeeded'
      <4>1. PICK log : log = payment_events'
        OBVIOUS
      <4>2. \A i \in DOMAIN file : file[i].event_id \in Logged'
        BY <1>1, <1>2, <2>1, <2>2, <2>5, <4>1, SeederExtendsLog
      <4> QED
        BY <1>2, <4>2 DEF EventsSeeded
    <3> QED
      BY <1>3, <2>2, <2>5, <3>1 DEF SeededSoFar
  <2>6. CASE stage = "reconciliation" /\ stage' = "done"
    <3>1. ReconciliationsSeeded'
      BY <1>1, <1>2, <2>1, <2>2, <2>6, SeededRows, FileStays DEF ReconciliationsSeeded
    <3> QED
      BY <1>3, <2>2, <2>6, <3>1 DEF SeededSoFar
  <2> QED
    BY <2>2, <2>3, <2>4, <2>5, <2>6 DEF SeedsATable
<1> QED
  BY <1>4, <1>5, <1>6

LEMMA TablesHaveCauseInit == DeploymentInit => TablesHaveCause
BY DEF DeploymentInit, Init, TablesHaveCause, Positions

LEMMA TablesHaveCauseStep ==
    ASSUME SessionsInv, file \in Files, TablesHaveCause,
           Serves \/ Boots \/ ServerSeeds \/ TestsSeed
    PROVE  TablesHaveCause'
<1>1. TypeInv /\ HoldsStoredMerchant
  BY DEF SessionsInv, LockInv
<1>2. TablesTyped
  BY <1>1 DEF TypeInv, TypeOK, TablesTyped
<1>3. CASE Serves
  <2>1. file' = file
    BY <1>3 DEF Serves
  <2>2. CASE LoadsRows
    <3>1. UNCHANGED <<tables, file>>
      BY <2>1, <2>2 DEF LoadsRows
    <3> QED
      BY <1>1, <3>1, UntouchedTables
  <2>3. ASSUME NEW s \in Session, Commit(s)
        PROVE  TablesHaveCause'
    <3>1. payload[s] \in Inbox[s]
      BY <2>3 DEF SessionsInv, Commit
    <3>2. payload[s].event_id \notin Logged
      BY <2>3 DEF SessionsInv, LockInv, LockIsHeldToWrite, HolderIsNew, Commit
    <3> QED
      BY <1>1, <2>1, <2>3, <3>1, <3>2, CommitHasCause
  <2> QED
    BY <1>1, <1>3, <2>2, <2>3, LoadsOrCommits DEF Serves
<1>4. CASE Boots
  BY <1>1, <1>4, UntouchedTables DEF Boots
<1>5. CASE ServerSeeds
  BY <1>2, <1>5, SeederHasCause DEF ServerSeeds
<1>6. CASE TestsSeed
  BY <1>2, <1>6, SeederHasCause DEF TestsSeed
<1> QED
  BY <1>3, <1>4, <1>5, <1>6

-----------------------------------------------------------------------------
(* The invariant of the deployment.                                         *)

DeploymentInv == SessionsInv /\ BootInv /\ SeededSoFar /\ TablesHaveCause

LEMMA DeploymentInvInit == DeploymentInit => DeploymentInv
<1>1. DeploymentInit => SessionsInv
  BY SessionsInvInit DEF DeploymentInit
<1>2. DeploymentInit => SeededSoFar
  BY DEF DeploymentInit, SeededSoFar
<1> QED
  BY <1>1, <1>2, BootInvInit, TablesHaveCauseInit DEF DeploymentInv

LEMMA DeploymentInvStep == DeploymentInv /\ [DeploymentNext]_all_vars => DeploymentInv'
<1> SUFFICES ASSUME DeploymentInv, [DeploymentNext]_all_vars
             PROVE  DeploymentInv'
  OBVIOUS
<1>1. SessionsInv /\ BootInv /\ SeededSoFar /\ TablesHaveCause /\ file \in Files
  BY DEF DeploymentInv, BootInv, DeploymentTypeOK
<1>2. Serves \/ Boots \/ ServerSeeds \/ TestsSeed
  BY <1>1, StepsOfDeployment
<1>3. SessionsInv'
  <2>1. CASE Serves \/ Boots
    BY <1>1, <2>1, SessionsInvStep DEF Serves, Boots
  <2>2. CASE ServerSeeds
    BY <1>1, <2>2, SeederLeavesSessions DEF ServerSeeds
  <2>3. CASE TestsSeed
    BY <1>1, <2>3, SeederLeavesSessions DEF TestsSeed
  <2> QED
    BY <1>2, <2>1, <2>2, <2>3
<1>4. BootInv'
  <2>1. TypeOK'
    BY <1>3 DEF SessionsInv, LockInv, TypeInv
  <2> QED
    BY <1>1, <2>1, BootInvStep
<1>5. SeededSoFar' /\ TablesHaveCause'
  BY <1>1, <1>2, SeededSoFarStep, TablesHaveCauseStep
<1> QED
  BY <1>3, <1>4, <1>5 DEF DeploymentInv

LEMMA DeploymentInvAlways == DeploymentSpec => []DeploymentInv
BY DeploymentInvInit, DeploymentInvStep, PTL DEF DeploymentSpec

\* The tables, the sessions and both bootstraps keep their types.
THEOREM DeploymentTypeCorrect == DeploymentSpec => []DeploymentTypeOK
<1>1. DeploymentInv => DeploymentTypeOK
  BY DEF DeploymentInv, BootInv
<1> QED
  BY <1>1, DeploymentInvAlways, PTL

\* Whatever is served, seeded, cut short or started again, the log only grows and has an
\* event_id once.
THEOREM LogStaysAppendOnly == DeploymentSpec => LogIsAppendOnly
<1>1. DeploymentInv /\ DeploymentInv' /\ [DeploymentNext]_all_vars =>
         [/\ Len(payment_events') >= Len(payment_events)
          /\ \A i \in DOMAIN payment_events : payment_events'[i] = payment_events[i]
          /\ \A i, j \in DOMAIN payment_events' :
                payment_events'[i].event_id = payment_events'[j].event_id => i = j]_all_vars
  <2> SUFFICES ASSUME DeploymentInv, DeploymentInv', [DeploymentNext]_all_vars
               PROVE  /\ Len(payment_events') >= Len(payment_events)
                      /\ \A i \in DOMAIN payment_events : payment_events'[i] = payment_events[i]
                      /\ \A i, j \in DOMAIN payment_events' :
                            payment_events'[i].event_id = payment_events'[j].event_id => i = j
    OBVIOUS
  <2>1. SessionsInv /\ file \in Files /\ (Serves \/ Boots \/ ServerSeeds \/ TestsSeed)
    BY StepsOfDeployment DEF DeploymentInv, BootInv, DeploymentTypeOK
  <2>2. TablesGrow
    BY <2>1, StepGrowsTables
  <2>3. \A i, j \in DOMAIN payment_events' :
           payment_events'[i].event_id = payment_events'[j].event_id => i = j
    BY DEF DeploymentInv, TablesHaveCause
  <2> QED
    BY <2>2, <2>3 DEF TablesGrow
<1> QED
  BY <1>1, DeploymentInvAlways, PTL DEF DeploymentSpec, LogIsAppendOnly

-----------------------------------------------------------------------------
(* What a server that is ready serves, when event_ids name events.          *)

\* A logged event of the file is the file's: of its type and its transaction.
LEMMA FileEventsAreLogged ==
    ASSUME FilesNameTheirEvents, DeploymentInv, step = "ready", NEW i \in DOMAIN file
    PROVE  \E k \in DOMAIN payment_events :
               /\ payment_events[k].transaction_id = file[i].transaction_id
               /\ payment_events[k].event_type = file[i].event_type
<1>1. file \in Files /\ stage = "done" /\ SeededSoFar
  BY DEF DeploymentInv, BootInv, DeploymentTypeOK
<1>2. file[i].event_id \in Logged
  BY <1>1 DEF SeededSoFar, EventsSeeded
<1>3. PICK k \in DOMAIN payment_events : payment_events[k].event_id = file[i].event_id
  BY <1>2 DEF Logged
<1>4. PICK p : p = payment_events[k]
  OBVIOUS
<1>5. Known(p)
  BY <1>4 DEF DeploymentInv, TablesHaveCause
<1>6. \A q \in AnyPayload \cup {file[j] : j \in DOMAIN file} :
         q.event_id = file[i].event_id =>
             q.event_type = file[i].event_type /\ q.transaction_id = file[i].transaction_id
  BY <1>1 DEF FilesNameTheirEvents
<1>7. CASE p \in AnyPayload
  BY <1>3, <1>4, <1>6, <1>7
<1>8. CASE \E j \in DOMAIN file : p = EventRow(file[j])
  <2>1. PICK j \in DOMAIN file : p = EventRow(file[j])
    BY <1>8
  <2>2. /\ p.event_id = file[j].event_id /\ p.event_type = file[j].event_type
        /\ p.transaction_id = file[j].transaction_id
    BY <2>1 DEF EventRow
  <2> QED
    BY <1>3, <1>4, <1>6, <2>2
<1> QED
  BY <1>4, <1>5, <1>7, <1>8 DEF Known

LEMMA ReadyIsComplete ==
    ASSUME FilesNameTheirEvents, DeploymentInv, step = "ready"
    PROVE  RowsComplete
<1>1. /\ stage = "done" /\ MerchantsSeeded /\ TransactionsSeeded /\ ReconciliationsSeeded
  BY DEF DeploymentInv, BootInv, SeededSoFar
<1>2. ASSUME NEW i \in DOMAIN payment_events
      PROVE  merchants[payment_events[i].merchant_id] # None
  <2>1. payment_events[i] \in PaymentEvent
    BY DEF DeploymentInv, SessionsInv, LockInv, TypeInv, TypeOK
  <2>2. payment_events[i].merchant_id \in MerchantId
    BY <2>1, KeysOfPayload
  <2> QED
    BY <1>1, <2>2 DEF DeploymentInv, TablesHaveCause, MerchantComes, MerchantsSeeded
<1>3. ASSUME NEW t \in TransactionId
      PROVE  /\ (transactions[t] # None) <=> (Positions(t) # {})
             /\ (reconciliation[t] # None) <=> (Positions(t) # {})
  <2>1. CASE InFile(t)
    <3>1. transactions[t] # None /\ reconciliation[t] # None
      BY <1>1, <2>1 DEF TransactionsSeeded, ReconciliationsSeeded
    <3>2. PICK i \in DOMAIN file : file[i].transaction_id = t
      BY <2>1 DEF InFile
    <3>3. Positions(t) # {}
      BY <3>2, FileEventsAreLogged DEF Positions
    <3> QED
      BY <3>1, <3>3
  <2>2. CASE ~InFile(t)
    BY <2>2 DEF DeploymentInv, TablesHaveCause
  <2> QED
    BY <2>1, <2>2
<1> QED
  BY <1>2, <1>3 DEF RowsComplete

\* The files that the start of the server has passed, over the steps of both run.py.
LEMMA ServerKeepsFiles ==
    ASSUME BootInv, FilesInv, run_server
    PROVE  FilesInv'
<1> USE DEF PastPip, PastPackages, Disturbs, Server!Rewriting
<1>1. /\ UNCHANGED <<test_step, test_written, worker>>
      /\ step # "exited" => beside' = beside
      /\ step = "exited" => beside' = IF test_step \in Server!Rewriting THEN "rewrote" ELSE "nothing"
  BY DEF run_server, tested
<1>2. written \in Nat /\ Counted(step, written) /\ (step # "ready" => worker = "starting")
  BY DEF BootInv, DeploymentTypeOK
<1>3. CASE Server!step_venv
  BY <1>1, <1>2, <1>3 DEF Server!step_venv, FilesInv
<1>4. CASE Server!step_install
  BY <1>1, <1>2, <1>4 DEF Server!step_install, Server!pip_install, FilesInv, Counted
<1>5. CASE Server!step_write_sources
  BY <1>1, <1>2, <1>5 DEF Server!step_write_sources, FilesInv
<1>6. CASE Server!step_seed
  BY <1>1, <1>2, <1>6 DEF Server!step_seed, FilesInv
<1>7. CASE Server!Exit \/ Server!Start
  BY <1>1, <1>2, <1>7 DEF Server!Exit, Server!Start, FilesInv
<1> QED
  BY <1>3, <1>4, <1>5, <1>6, <1>7 DEF run_server, Server!Next

LEMMA TestsKeepFiles ==
    ASSUME BootInv, FilesInv, run_tests
    PROVE  FilesInv'
<1> USE DEF PastPip, PastPackages, Disturbs, Server!Rewriting
<1>1. /\ UNCHANGED <<step, written, worker>>
      /\ beside' = IF test_step \in Server!Rewriting /\ test_step' = "exited" THEN "cut_short"
                   ELSE IF test_step' \in Server!Rewriting /\ beside = "nothing" THEN "rewrote"
                   ELSE beside
  BY DEF run_tests, started
<1>2. written \in Nat /\ test_written \in Nat
  BY DEF BootInv, DeploymentTypeOK
<1>3. CASE Tests!step_venv
  BY <1>1, <1>2, <1>3 DEF Tests!step_venv, FilesInv
<1>4. CASE Tests!step_install
  BY <1>1, <1>2, <1>4 DEF Tests!step_install, Tests!pip_install, FilesInv
<1>5. CASE Tests!step_write_sources
  BY <1>1, <1>2, <1>5 DEF Tests!step_write_sources, FilesInv
<1>6. CASE Tests!step_seed
  BY <1>1, <1>2, <1>6 DEF Tests!step_seed, FilesInv
<1>7. CASE Tests!Exit \/ Tests!Start
  BY <1>1, <1>2, <1>7 DEF Tests!Exit, Tests!Start, FilesInv
<1> QED
  BY <1>3, <1>4, <1>5, <1>6, <1>7 DEF run_tests, Tests!Next

\* Unless run.py --test is in the middle of a part, or was cut short there, all that the
\* server loads is whole once it is ready.
LEMMA ReadyIsWhole ==
    ASSUME BootInv, FilesInv, step = "ready",
           beside # "cut_short", test_step \notin Server!Rewriting
    PROVE  venv = Server!Part /\ sources = Server!Source
<1>1. /\ venv \subseteq {"dir", "pip", "packages"} /\ sources \subseteq 1..NumSources
      /\ written = NumSources
  BY DEF BootInv, DeploymentTypeOK, Counted, Server!Part, Server!Source
<1>2. "dir" \in venv /\ "pip" \in venv /\ "packages" \in venv
  BY DEF FilesInv, Disturbs, PastPip, PastPackages, Server!Rewriting
<1>3. \A i \in 1..written : i \in sources
  BY DEF FilesInv, Disturbs, PastPackages, Server!Rewriting
<1> QED
  BY <1>1, <1>2, <1>3 DEF Server!Part, Server!Source

LEMMA FilesInvStep ==
    ASSUME BootInv, FilesInv, [DeploymentNext]_all_vars
    PROVE  FilesInv'
<1> USE DEF started, tested
<1>1. CASE Serve \/ UNCHANGED all_vars
  <2>1. UNCHANGED bootstrap
    BY <1>1 DEF Serve, all_vars
  <2> QED
    BY <2>1 DEF bootstrap, FilesInv, Disturbs
<1>2. CASE Load
  <2>1. worker' = "down" => beside # "nothing"
    <3> SUFFICES ASSUME ~Loadable
                 PROVE  beside # "nothing"
      BY <1>2 DEF Load
    <3>1. venv # Server!Part \/ sources # Server!Source
      BY DEF Loadable, Server!Part
    <3>2. step = "ready"
      BY <1>2 DEF Load
    <3>3. beside = "cut_short" \/ test_step \in Server!Rewriting
      BY <3>1, <3>2, ReadyIsWhole
    <3> QED
      BY <3>3 DEF FilesInv
  <2> QED
    BY <1>2, <2>1 DEF Load, FilesInv, Disturbs
<1>3. CASE Stop
  BY <1>3 DEF Stop, FilesInv, Disturbs, PastPip, PastPackages
<1>4. CASE pytest
  BY <1>4 DEF pytest, FilesInv, Disturbs, Server!Rewriting
<1> QED
  BY <1>1, <1>2, <1>3, <1>4, ServerKeepsFiles, TestsKeepFiles DEF DeploymentNext

LEMMA FilesInvAlways == DeploymentSpec => []FilesInv
<1>1. DeploymentInit => FilesInv
  BY DEF DeploymentInit, FilesInv, PastPip, PastPackages, Server!Rewriting
<1>2. DeploymentInv /\ FilesInv /\ [DeploymentNext]_all_vars => FilesInv'
  BY FilesInvStep DEF DeploymentInv
<1> QED
  BY <1>1, <1>2, DeploymentInvAlways, PTL DEF DeploymentSpec

\* Whatever starts before it were cut short, and where, a server that is ready has a
\* database with every event of the file and its rows; its environment and its sources are
\* whole but for what a run.py --test is rewriting or was cut short in since it was
\* started, and only beside such a run.py may its worker fail to come up.
THEOREM ReadyServerIsSeeded == FilesNameTheirEvents /\ DeploymentSpec => []ServesOnlySeeded
<1> SUFFICES ASSUME FilesNameTheirEvents
             PROVE  DeploymentSpec => []ServesOnlySeeded
  OBVIOUS
<1>1. DeploymentInv /\ FilesInv => ServesOnlySeeded
  <2> SUFFICES ASSUME DeploymentInv, FilesInv, step = "ready"
               PROVE  /\ \A i \in DOMAIN file : file[i].event_id \in Logged
                      /\ RowsComplete
                      /\ (beside # "cut_short" /\ test_step \notin Server!Rewriting) =>
                            venv = Server!Part /\ sources = Server!Source
                      /\ worker = "down" => beside # "nothing"
    BY DEF ServesOnlySeeded
  <2>1. BootInv /\ stage = "done" /\ SeededSoFar
    BY DEF DeploymentInv, BootInv
  <2>2. worker = "down" => beside # "nothing"
    BY DEF FilesInv
  <2> QED
    BY <2>1, <2>2, ReadyIsComplete, ReadyIsWhole DEF SeededSoFar, EventsSeeded
<1> QED
  BY <1>1, DeploymentInvAlways, FilesInvAlways, PTL

\* Seeding over live data may put a status back, but only to one that the log has.
THEOREM StatusStaysLogged == FilesNameTheirEvents /\ DeploymentSpec => []StatusIsLogged
<1> SUFFICES ASSUME FilesNameTheirEvents
             PROVE  DeploymentSpec => []StatusIsLogged
  OBVIOUS
<1>1. DeploymentInv => StatusIsLogged
  <2> SUFFICES ASSUME DeploymentInv, step = "ready", NEW t \in TransactionId,
                      transactions[t] # None
               PROVE  \E i \in Positions(t) : transactions[t].current_status
                                                 = EVENT_TO_STATUS[payment_events[i].event_type]
    BY DEF StatusIsLogged
  <2>1. PICK status : status = transactions[t].current_status
    OBVIOUS
  <2>2. StatusLogged(t, status) \/ StatusInFile(t, status)
    BY <2>1 DEF DeploymentInv, TablesHaveCause
  <2>3. CASE StatusLogged(t, status)
    BY <2>1, <2>3 DEF StatusLogged
  <2>4. CASE StatusInFile(t, status)
    <3>1. PICK i \in DOMAIN file : /\ file[i].transaction_id = t
                                   /\ EVENT_TO_STATUS[file[i].event_type] = status
      BY <2>4 DEF StatusInFile
    <3>2. PICK k \in DOMAIN payment_events :
              /\ payment_events[k].transaction_id = file[i].transaction_id
              /\ payment_events[k].event_type = file[i].event_type
      BY FileEventsAreLogged
    <3> QED
      BY <2>1, <3>1, <3>2 DEF Positions
  <2> QED
    BY <2>2, <2>3, <2>4
<1> QED
  BY <1>1, DeploymentInvAlways, PTL

-----------------------------------------------------------------------------
(* Rows that no seeder disturbs.                                            *)

LEMMA OthersReadUndisturbed ==
    ASSUME NEW s \in Session, ReadsUndisturbed(s), \A t : Undisturbed(t)' => Undisturbed(t),
           pc'[s] = pc[s], payload'[s] = payload[s],
           transaction'[s] = transaction[s], recon'[s] = recon[s],
           pc[s] # "idle" =>
              /\ transactions'[payload[s].transaction_id]
                    = transactions[payload[s].transaction_id]
              /\ reconciliation'[payload[s].transaction_id]
                    = reconciliation[payload[s].transaction_id]
    PROVE  ReadsUndisturbed(s)'
<1>1. PICK t : t = payload[s].transaction_id
  OBVIOUS
<1>2. Undisturbed(t)' => Undisturbed(t)
  OBVIOUS
<1> QED
  BY <1>1, <1>2 DEF ReadsUndisturbed

LEMMA SessionsReadUndisturbed ==
    ASSUME InboxesAreDisjoint, SessionsInv, UndisturbedAgree,
           \A s \in Session : ReadsUndisturbed(s),
           \A t : Undisturbed(t)' => Undisturbed(t), [Next]_vars
    PROVE  \A s \in Session : ReadsUndisturbed(s)'
<1>1. TypeInv
  BY DEF SessionsInv, LockInv
<1>2. \A r \in Session : pc[r] # "idle" => payload[r] \in Inbox[r] /\ payload[r] \in PaymentEvent
  BY <1>1 DEF SessionsInv, TypeInv, ServesAPayload
<1>3. ASSUME NEW s \in Session,
             \/ \E p \in Inbox[s] : Receive(s, p)
             \/ GetMerchant(s) \/ GetTransaction(s) \/ LoadReconciliation(s) \/ Flush(s)
             \/ SelectReconciliation(s) \/ FlushRejected(s) \/ Raise(s) \/ Respond(s),
             NEW r \in Session
      PROVE  ReadsUndisturbed(r)'
  <2>1. UNCHANGED <<merchants, transactions, reconciliation>>
    BY <1>3 DEF Receive, GetMerchant, GetTransaction, LoadReconciliation, Flush,
                SelectReconciliation, FlushRejected, Raise, Respond, tables
  <2>2. CASE r # s
    <3>1. /\ pc'[r] = pc[r] /\ payload'[r] = payload[r]
          /\ transaction'[r] = transaction[r] /\ recon'[r] = recon[r]
      BY <1>1, <1>3, <2>2
      DEF Receive, GetMerchant, GetTransaction, LoadReconciliation, Flush,
          SelectReconciliation, FlushRejected, Raise, Respond, Finish, Goto, TypeInv, TypeOK
    <3> QED
      BY <2>1, <3>1, OthersReadUndisturbed
  <2>3. CASE r = s
    <3>1. CASE (\E p \in Inbox[s] : Receive(s, p)) \/ GetMerchant(s) \/ Respond(s)
      <4>1. pc'[s] \in {"get_merchant", "get_transaction", "idle"}
        BY <1>1, <3>1 DEF Receive, GetMerchant, Respond, Goto, TypeInv, TypeOK
      <4> QED
        BY <2>3, <4>1 DEF ReadsUndisturbed
    <3>2. CASE FlushRejected(s) \/ Raise(s)
      <4>1. pc'[s] = "respond"
        BY <1>1, <3>2 DEF FlushRejected, Raise, Finish, Goto, TypeInv, TypeOK
      <4> QED
        BY <2>3, <4>1 DEF ReadsUndisturbed
    \* A transaction that is not there has no reconciliation row to load.
    <3>3. CASE GetTransaction(s)
      <4>1. PICK t \in TransactionId : payload[s].transaction_id = t
        BY <1>2, <3>3, KeysOfPayload DEF GetTransaction
      <4>2. recon[s] = None
        BY <1>1, <3>3 DEF GetTransaction, TypeInv, HoldsStoredRows
      <4>3. /\ payload'[s] = payload[s] /\ transaction'[s] = transactions[t] /\ recon'[s] = None
            /\ pc'[s] = IF transactions[t] = None THEN "flush" ELSE "load_reconciliation"
        BY <1>1, <3>3, <4>1, <4>2 DEF GetTransaction, Goto, TypeInv, TypeOK
      <4>4. (Undisturbed(t)' /\ transactions[t] = None) => reconciliation[t] = None
        BY <4>1 DEF UndisturbedAgree, RowsAgree
      <4>5. payload'[s].transaction_id = t
        BY <4>1, <4>3
      <4> QED
        BY <2>1, <2>3, <4>3, <4>4, <4>5 DEF ReadsUndisturbed
    <3>4. CASE LoadReconciliation(s) \/ Flush(s) \/ SelectReconciliation(s)
      <4>1. PICK t : payload[s].transaction_id = t
        OBVIOUS
      <4>2. /\ payload'[s].transaction_id = t /\ transaction'[s] = transaction[s]
            /\ pc[s] \in {"load_reconciliation", "flush", "select_reconciliation"}
            /\ pc'[s] \in {"flush", "select_reconciliation", "commit"}
            /\ \/ recon'[s] = reconciliation[t]
               \/ /\ recon'[s] = recon[s] /\ pc[s] \in {"flush", "select_reconciliation"}
        BY <1>1, <3>4, <4>1
        DEF LoadReconciliation, Flush, SelectReconciliation, Goto, TypeInv, TypeOK
      <4>3. Undisturbed(t)' =>
               /\ transaction[s] = transactions[t]
               /\ pc[s] \in {"flush", "select_reconciliation"} => recon[s] = reconciliation[t]
        BY <4>1, <4>2 DEF ReadsUndisturbed
      <4> QED
        BY <2>1, <2>3, <4>2, <4>3 DEF ReadsUndisturbed
    <3> QED
      BY <1>3, <3>1, <3>2, <3>3, <3>4
  <2> QED
    BY <2>2, <2>3
\* A commit changes no row that another session has read: they are about others.
<1>4. ASSUME NEW s \in Session, Commit(s), NEW r \in Session
      PROVE  ReadsUndisturbed(r)'
  <2>1. payload' = payload /\ pc'[s] = "respond"
    BY <1>1, <1>4 DEF Commit, Finish, Goto, TypeInv, TypeOK
  <2>2. CASE r = s
    BY <2>1, <2>2 DEF ReadsUndisturbed
  <2>3. CASE r # s
    <3>1. pc'[r] = pc[r] /\ transaction'[r] = transaction[r] /\ recon'[r] = recon[r]
      BY <1>1, <1>4, <2>3 DEF Commit, Finish, Goto, TypeInv, TypeOK
    <3>2. ASSUME pc[r] # "idle"
          PROVE  /\ transactions'[payload[r].transaction_id]
                       = transactions[payload[r].transaction_id]
                 /\ reconciliation'[payload[r].transaction_id]
                       = reconciliation[payload[r].transaction_id]
      <4>1. /\ payload[r] \in Inbox[r] /\ payload[s] \in Inbox[s]
            /\ payload[r].transaction_id \in TransactionId
        BY <1>2, <1>4, <3>2, KeysOfPayload DEF Commit
      <4>2. payload[r].transaction_id # payload[s].transaction_id
        BY <2>3, <4>1 DEF InboxesAreDisjoint
      <4> QED
        BY <1>1, <1>4, <4>1, <4>2, CommitWritesRows
    <3> QED
      BY <2>1, <3>1, <3>2, OthersReadUndisturbed
  <2> QED
    BY <2>2, <2>3
<1>5. ASSUME Crash, NEW r \in Session
      PROVE  ReadsUndisturbed(r)'
  BY <1>5 DEF Crash, ReadsUndisturbed
<1>6. ASSUME UNCHANGED vars, NEW r \in Session
      PROVE  ReadsUndisturbed(r)'
  BY <1>6, OthersReadUndisturbed DEF vars, tables, locals
<1> QED
  BY <1>3, <1>4, <1>5, <1>6 DEF Next, Step

LEMMA SessionsKeepAgreement ==
    ASSUME SessionsInv, UndisturbedAgree, \A s \in Session : ReadsUndisturbed(s),
           \A t : Undisturbed(t)' => Undisturbed(t), [Next]_vars
    PROVE  UndisturbedAgree'
<1>1. TypeInv /\ HoldsStoredMerchant
  BY DEF SessionsInv, LockInv
<1>2. CASE LoadsRows
  BY <1>2 DEF LoadsRows, tables, UndisturbedAgree
<1>3. ASSUME NEW s \in Session, Commit(s), NEW t \in TransactionId, Undisturbed(t)
      PROVE  RowsAgree(transactions'[t], reconciliation'[t])
  <2>1. PICK p \in PaymentEvent : payload[s] = p
    BY <1>1, <1>3 DEF TypeInv, ServesAPayload, Commit
  <2>2. PICK row, rec : row = transactions[t] /\ rec = reconciliation[t]
    OBVIOUS
  <2>3. /\ row \in Transaction \cup {None} /\ rec \in ReconciliationRecord \cup {None}
        /\ RowsAgree(row, rec)
    BY <1>1, <1>3, <2>2 DEF TypeInv, TypeOK, UndisturbedAgree
  <2>4. CASE t = p.transaction_id
    <3>1. transaction[s] = row /\ recon[s] = rec
      BY <1>3, <2>1, <2>2, <2>4 DEF ReadsUndisturbed, Commit
    <3>2. /\ transactions'[t] = WriteTransaction(row, row, UpsertTransaction(row, p))
          /\ reconciliation'[t] = WriteReconciliation(rec, rec, UpsertReconciliation(rec, row, p))
      BY <1>1, <1>3, <2>1, <2>2, <2>4, <3>1 DEF Commit, TypeInv, TypeOK
    <3>3. /\ transactions'[t] = UpsertTransaction(row, p)
          /\ reconciliation'[t] = UpsertReconciliation(rec, row, p)
      BY <2>3, <3>2, WritesAreWhole
    <3> QED
      BY <2>3, <3>3, UpsertsAgree
  <2>5. CASE t # p.transaction_id
    <3>1. transactions'[t] = transactions[t] /\ reconciliation'[t] = reconciliation[t]
      BY <1>1, <1>3, <2>1, <2>5, CommitWritesRows
    <3> QED
      BY <2>2, <2>3, <3>1
  <2> QED
    BY <2>4, <2>5
<1>4. ASSUME NEW s \in Session, Commit(s)
      PROVE  UndisturbedAgree'
  BY <1>3, <1>4 DEF UndisturbedAgree
<1> QED
  BY <1>1, <1>2, <1>4, LoadsOrCommits

\* The rows are apart only between two of a seeder's transactions: the last one makes those
\* of the file agree.
LEMMA RowsStayTogetherStep ==
    ASSUME InboxesAreDisjoint, DeploymentInv, RowsStayTogether,
           Serves \/ Boots \/ ServerSeeds \/ TestsSeed
    PROVE  RowsStayTogether'
<1>1. /\ SessionsInv /\ file \in Files /\ TablesTyped
      /\ reseeded \in BOOLEAN /\ (step # "ready" => \A s \in Session : pc[s] = "idle")
  BY DEF DeploymentInv, BootInv, DeploymentTypeOK, TypeOK, TablesTyped
<1>2. /\ UndisturbedAgree /\ SeededStatusStays
      /\ \A s \in Session : ReadsUndisturbed(s)
  BY DEF RowsStayTogether
<1>3. CASE Serves \/ Boots
  <2>1. [Next]_vars /\ file' = file
    BY <1>3 DEF Serves, Boots
  <2>2. \A t : Undisturbed(t)' => Undisturbed(t)
    BY <1>1, <1>3, <2>1, FileStays DEF Serves, Boots, Undisturbed
  <2>3. UndisturbedAgree' /\ \A s \in Session : ReadsUndisturbed(s)'
    BY <1>1, <1>2, <2>1, <2>2, SessionsReadUndisturbed, SessionsKeepAgreement
  <2>4. SeededStatusStays'
    BY <1>2, <1>3, <2>1, FileStays DEF Serves, Boots, tables, SeededStatusStays
  <2> QED
    BY <2>3, <2>4 DEF RowsStayTogether
<1>4. CASE TestsSeed
  <2>1. /\ UNCHANGED <<locals, file, step, stage>> /\ reseeded' = TRUE
        /\ SeedsATable(test_stage, test_stage')
    BY <1>4 DEF TestsSeed
  <2>2. PICK from, to : SeedsATable(from, to)
    BY <2>1
  <2>3. \A t \in TransactionId : Undisturbed(t)' =>
           /\ Undisturbed(t)
           /\ transactions'[t] = transactions[t] /\ reconciliation'[t] = reconciliation[t]
    <3> SUFFICES ASSUME NEW t \in TransactionId, Undisturbed(t)'
                 PROVE  /\ Undisturbed(t)
                        /\ transactions'[t] = transactions[t]
                        /\ reconciliation'[t] = reconciliation[t]
      OBVIOUS
    <3>1. ~InFile(t)
      BY <2>1, FileStays DEF Undisturbed
    <3> QED
      BY <1>1, <2>2, <3>1, SeededRows DEF Undisturbed
  <2>4. UndisturbedAgree'
    BY <1>2, <2>3 DEF UndisturbedAgree
  <2>5. ASSUME NEW s \in Session
        PROVE  ReadsUndisturbed(s)'
    <3>1. PICK t : t = payload[s].transaction_id
      OBVIOUS
    <3>2. /\ pc' = pc /\ payload' = payload /\ transaction' = transaction /\ recon' = recon
      BY <2>1 DEF locals
    <3>3. pc[s] # "idle" => t \in TransactionId
      BY <1>1, <3>1, KeysOfPayload DEF SessionsInv, LockInv, TypeInv, ServesAPayload
    <3>4. (pc[s] # "idle" /\ Undisturbed(t)') =>
             /\ Undisturbed(t)
             /\ transactions'[t] = transactions[t] /\ reconciliation'[t] = reconciliation[t]
      BY <2>3, <3>3
    <3> QED
      BY <1>2, <3>1, <3>2, <3>4 DEF ReadsUndisturbed
  <2>6. SeededStatusStays'
    <3> SUFFICES ASSUME (step = "seed" /\ stage \in {"payment_events", "reconciliation"})',
                        NEW t \in TransactionId, InFile(t)'
                 PROVE  /\ transactions'[t] # None
                        /\ transactions'[t].current_status
                              = Computed'.transactions[t].current_status
      BY DEF SeededStatusStays
    <3>1. PICK c : c = Computed
      OBVIOUS
    <3>2. InFile(t) /\ Computed' = c
      BY <2>1, <3>1, FileStays
    <3>3. transactions[t] # None /\ transactions[t].current_status = c.transactions[t].current_status
      BY <1>2, <2>1, <3>1, <3>2 DEF SeededStatusStays
    <3>4. /\ from = "transactions" =>
                /\ transactions'[t] # None
                /\ transactions'[t].current_status = c.transactions[t].current_status
          /\ from # "transactions" => transactions'[t] = transactions[t]
      BY <1>1, <2>2, <3>1, <3>2, SeededRows
    <3> QED
      BY <3>2, <3>3, <3>4
  <2> QED
    BY <2>4, <2>5, <2>6 DEF RowsStayTogether
<1>5. CASE ServerSeeds
  <2>1. /\ step = "seed" /\ SeedsATable(stage, stage') /\ UNCHANGED <<locals, file>>
        /\ step' = IF stage' = "done" THEN "ready" ELSE "seed"
    BY <1>5 DEF ServerSeeds
  <2>2. PICK from, to : from = stage /\ to = stage' /\ SeedsATable(from, to)
    BY <2>1
  <2>3. PICK c : c = Computed
    OBVIOUS
  <2>4. Computed' = c /\ \A t : InFile(t)' <=> InFile(t)
    BY <2>1, <2>3, FileStays
  <2>5. \A s \in Session : ReadsUndisturbed(s)'
    <3>1. \A s \in Session : pc'[s] = "idle"
      BY <1>1, <2>1 DEF locals
    <3> QED
      BY <3>1 DEF ReadsUndisturbed
  <2>6. \A t \in TransactionId : InFile(t) =>
           /\ from \in {"payment_events", "reconciliation"} =>
                 /\ transactions[t] # None
                 /\ transactions[t].current_status = c.transactions[t].current_status
           /\ from = "transactions" =>
                 /\ transactions'[t] # None
                 /\ transactions'[t].current_status = c.transactions[t].current_status
           /\ from # "transactions" => transactions'[t] = transactions[t]
           /\ from = "reconciliation" =>
                 reconciliation'[t] # None /\ reconciliation'[t] = c.reconciliation[t]
    <3> SUFFICES ASSUME NEW t \in TransactionId, InFile(t)
                 PROVE  /\ from \in {"payment_events", "reconciliation"} =>
                              /\ transactions[t] # None
                              /\ transactions[t].current_status = c.transactions[t].current_status
                        /\ from = "transactions" =>
                              /\ transactions'[t] # None
                              /\ transactions'[t].current_status = c.transactions[t].current_status
                        /\ from # "transactions" => transactions'[t] = transactions[t]
                        /\ from = "reconciliation" =>
                              reconciliation'[t] # None /\ reconciliation'[t] = c.reconciliation[t]
      OBVIOUS
    <3>1. from \in {"payment_events", "reconciliation"} =>
             /\ transactions[t] # None
             /\ transactions[t].current_status = c.transactions[t].current_status
      BY <1>2, <2>1, <2>2, <2>3 DEF SeededStatusStays
    <3> QED
      BY <1>1, <2>2, <2>3, <3>1, SeededRows
  <2>7. SeededStatusStays'
    <3> SUFFICES ASSUME (step = "seed" /\ stage \in {"payment_events", "reconciliation"})',
                        NEW t \in TransactionId, InFile(t)
                 PROVE  /\ transactions'[t] # None
                        /\ transactions'[t].current_status = c.transactions[t].current_status
      BY <2>4 DEF SeededStatusStays
    <3>1. from \in {"transactions", "payment_events"}
      BY <2>2 DEF SeedsATable
    <3> QED
      BY <2>6, <3>1
  <2>8. UndisturbedAgree'
    <3> SUFFICES ASSUME NEW t \in TransactionId, Undisturbed(t)'
                 PROVE  RowsAgree(transactions'[t], reconciliation'[t])
      BY DEF UndisturbedAgree
    <3>1. CASE ~InFile(t)
      <4>1. transactions'[t] = transactions[t] /\ reconciliation'[t] = reconciliation[t]
        BY <1>1, <2>2, <3>1, SeededRows
      <4> QED
        BY <1>2, <3>1, <4>1 DEF UndisturbedAgree, Undisturbed
    <3>2. CASE InFile(t)
      <4>1. step' = "ready"
        BY <2>4, <3>2 DEF Undisturbed
      <4>2. from = "reconciliation"
        BY <2>1, <2>2, <4>1 DEF SeedsATable
      <4>3. PICK row, rec : row = transactions'[t] /\ rec = reconciliation'[t]
        OBVIOUS
      <4>4. /\ row # None /\ row.current_status = c.transactions[t].current_status
            /\ rec # None /\ rec = c.reconciliation[t]
        BY <2>6, <3>2, <4>2, <4>3
      <4>5. c.transactions[t] # None /\ RowsAgree(c.transactions[t], c.reconciliation[t])
        BY <1>1, <2>3, <3>2, FileCalls
      <4> QED
        BY <4>3, <4>4, <4>5 DEF RowsAgree
    <3> QED
      BY <3>1, <3>2
  <2> QED
    BY <2>5, <2>7, <2>8 DEF RowsStayTogether
<1> QED
  BY <1>3, <1>4, <1>5

LEMMA RowsTogetherAlways ==
    InboxesAreDisjoint /\ DeploymentSpec => [](DeploymentInv /\ RowsStayTogether)
<1> SUFFICES ASSUME InboxesAreDisjoint
             PROVE  DeploymentSpec => [](DeploymentInv /\ RowsStayTogether)
  OBVIOUS
<1>1. DeploymentInit => RowsStayTogether
  BY DEF DeploymentInit, Init, RowsStayTogether, UndisturbedAgree, RowsAgree,
         ReadsUndisturbed, SeededStatusStays
<1>2. DeploymentInv /\ RowsStayTogether /\ [DeploymentNext]_all_vars => RowsStayTogether'
  BY StepsOfDeployment, RowsStayTogetherStep DEF DeploymentInv
<1> QED
  BY <1>1, <1>2, DeploymentInvInit, DeploymentInvStep, PTL DEF DeploymentSpec

\* While no seeder has written beside the server, the two rows of each transaction have one
\* status, though the seeder and the sessions write them apart.
THEOREM SnapshotsStayTogether == InboxesAreDisjoint /\ DeploymentSpec => []SnapshotsAgree
<1> SUFFICES ASSUME InboxesAreDisjoint
             PROVE  DeploymentSpec => []SnapshotsAgree
  OBVIOUS
<1>1. RowsStayTogether => SnapshotsAgree
  BY DEF RowsStayTogether, UndisturbedAgree, Undisturbed, RowsAgree, SnapshotsAgree
<1> QED
  BY <1>1, RowsTogetherAlways, PTL

-----------------------------------------------------------------------------
(* The reports that are served.                                             *)

\* A transaction that is stored is named by an event, of the file or of the log: there are
\* finitely many.
LEMMA StoredAreFinite ==
    ASSUME DeploymentInv
    PROVE  IsFiniteSet({t \in TransactionId : transactions[t] # None})
<1> DEFINE stored == {t \in TransactionId : transactions[t] # None}
           inLog == [i \in DOMAIN payment_events |-> payment_events[i].transaction_id]
           inFile == [i \in DOMAIN file |-> file[i].transaction_id]
           logged == {inLog[i] : i \in DOMAIN payment_events}
           filed == {inFile[i] : i \in DOMAIN file}
<1>1. IsFiniteSet(DOMAIN payment_events) /\ IsFiniteSet(DOMAIN file)
  <2>1. payment_events \in Seq(PaymentEvent) /\ file \in Seq(Server!Seeder!FileEvent)
    BY DeploymentAssumption DEF DeploymentInv, BootInv, DeploymentTypeOK, TypeOK
  <2>2. /\ DOMAIN payment_events = 1..Len(payment_events) /\ Len(payment_events) \in Int
        /\ DOMAIN file = 1..Len(file) /\ Len(file) \in Int
    BY <2>1
  <2> QED
    BY <2>2, FS_Interval
<1>2. inLog \in Surjection(DOMAIN payment_events, logged) /\ inFile \in Surjection(DOMAIN file, filed)
  BY DEF Surjection
<1>3. IsFiniteSet(logged) /\ IsFiniteSet(filed)
  BY <1>1, <1>2, FS_Surjection
<1>4. \A t \in stored : t \in logged \/ t \in filed
  BY DEF DeploymentInv, TablesHaveCause, Positions, InFile
<1>5. IsFiniteSet(logged \cup filed) /\ stored \in SUBSET (logged \cup filed)
  BY <1>3, <1>4, FS_Union
<1> QED
  BY <1>5, FS_Subset

\* A server that is ready has stored the merchant of each transaction.
LEMMA ReadyMerchantsAreStored ==
    ASSUME DeploymentInv, step = "ready", NEW t \in TransactionId, transactions[t] # None
    PROVE  merchants[transactions[t].merchant_id] # None
<1>1. MerchantsSeeded
  BY DEF DeploymentInv, BootInv, SeededSoFar
<1>2. transactions[t].merchant_id \in MerchantId
  BY DEF DeploymentInv, BootInv, DeploymentTypeOK, TypeOK, Transaction
<1> QED
  BY <1>1, <1>2 DEF DeploymentInv, TablesHaveCause, MerchantComes, MerchantsSeeded

\* The groups of the summary add up to the transactions that are stored.
LEMMA ReadySummaryAddsUp ==
    ASSUME DeploymentInv, step = "ready", NEW created_on, NEW group_by,
           NEW summary, summary = get_reconciliation_summary(created_on, group_by, None)
    PROVE  AtomicLedger!TotalTransactions(summary)
              = Cardinality({t \in TransactionId : transactions[t] # None})
<1>1. PICK A : A = {t \in TransactionId : transactions[t] # None}
  OBVIOUS
<1>2. IsFiniteSet(A)
  BY <1>1, StoredAreFinite
<1>3. AtomicLedger!Summarised(merchants, transactions, None) = A
  BY <1>1, ReadyMerchantsAreStored DEF AtomicLedger!Summarised
<1>4. PICK g : g = [t \in A |-> AtomicLedger!GroupOf(transactions[t], created_on[t], group_by)]
  OBVIOUS
<1>5. summary = [k \in {g[t] : t \in A} |-> Cardinality(Members(A, g, {k}))]
  <2>1. \A S : AtomicLedger!Cardinality(S) = Cardinality(S)
    BY DEF AtomicLedger!Cardinality, Cardinality
  <2>2. summary = [k \in {AtomicLedger!GroupOf(transactions[t], created_on[t], group_by) : t \in A} |->
                      Cardinality({t \in A : AtomicLedger!GroupOf(transactions[t], created_on[t],
                                                                  group_by) = k})]
    BY <1>3, <2>1 DEF get_reconciliation_summary, AtomicLedger!Summary
  <2>3. {AtomicLedger!GroupOf(transactions[t], created_on[t], group_by) : t \in A} = {g[t] : t \in A}
    BY <1>4
  <2>4. \A k : {t \in A : AtomicLedger!GroupOf(transactions[t], created_on[t], group_by) = k}
                  = Members(A, g, {k})
    BY <1>4 DEF Members
  <2> QED
    BY <2>2, <2>3, <2>4
<1>6. IsFiniteSet(DOMAIN summary)
  <2>1. g \in Surjection(A, {g[t] : t \in A})
    BY <1>4 DEF Surjection
  <2>2. IsFiniteSet({g[t] : t \in A})
    BY <1>2, <2>1, FS_Surjection
  <2> QED
    BY <1>5, <2>2
<1>7. SumOver(summary, DOMAIN summary) = Cardinality(Members(A, g, DOMAIN summary))
  <2>1. \A k \in DOMAIN summary : summary[k] = Cardinality(Members(A, g, {k}))
    BY <1>5
  <2> QED
    BY <1>2, <1>6, <2>1, GroupsAddUp
<1>8. Members(A, g, DOMAIN summary) = A
  BY <1>5 DEF Members
<1>9. AtomicLedger!TotalTransactions(summary) = SumOver(summary, DOMAIN summary)
  BY DEF AtomicLedger!TotalTransactions, AtomicLedger!MapThenSumSet,
         AtomicLedger!MapThenFoldSet, SumOver, MapThenSumSet, MapThenFoldSet
<1> QED
  BY <1>1, <1>7, <1>8, <1>9

\* Rows that agree are listed as stuck, or for the conflict that they store.
LEMMA AgreeingRowsAreExplained ==
    ASSUME NEW row, NEW rec, row # None, RowsAgree(row, rec), AtomicLedger!Discrepant(rec)
    PROVE  \/ AtomicLedger!ListedReason(rec) = "stuck"
           \/ /\ rec.discrepancy_flag
              /\ AtomicLedger!ListedReason(rec) = rec.discrepancy_reason
<1>1. CASE rec.discrepancy_reason # None
  BY <1>1 DEF RowsAgree, AtomicLedger!ListedReason
<1>2. CASE rec.discrepancy_reason = None
  <2>1. rec.payment_status = "processed" /\ rec.settlement_status = "pending"
    BY <1>2 DEF RowsAgree, AtomicLedger!Discrepant
  <2> QED
    BY <1>2, <2>1 DEF AtomicLedger!ListedReason, AtomicLedger!infer_reason
<1> QED
  BY <1>1, <1>2

\* What is served of the rows that seeders and sessions wrote: the summary counts them all,
\* and each one listed is stuck or stores the conflict it is listed for.
THEOREM ServedReportsStayComplete ==
    InboxesAreDisjoint /\ DeploymentSpec => []ServedReportsAreComplete
<1> SUFFICES ASSUME InboxesAreDisjoint
             PROVE  DeploymentSpec => []ServedReportsAreComplete
  OBVIOUS
<1>1. DeploymentInv /\ RowsStayTogether => ServedReportsAreComplete
  <2> SUFFICES ASSUME DeploymentInv, RowsStayTogether, step = "ready"
               PROVE  /\ \A created_on \in [TransactionId -> 1..2],
                            group_by \in {"merchant", "date", "status"} :
                            AtomicLedger!TotalTransactions(
                                get_reconciliation_summary(created_on, group_by, None))
                              = Cardinality({t \in TransactionId : transactions[t] # None})
                      /\ ~reseeded => \A t \in DOMAIN get_discrepancies(None) :
                            \/ get_discrepancies(None)[t] = "stuck"
                            \/ /\ reconciliation[t].discrepancy_flag
                               /\ get_discrepancies(None)[t] = reconciliation[t].discrepancy_reason
    BY DEF ServedReportsAreComplete
  <2>1. ASSUME NEW created_on \in [TransactionId -> 1..2],
               NEW group_by \in {"merchant", "date", "status"}
        PROVE  AtomicLedger!TotalTransactions(get_reconciliation_summary(created_on, group_by, None))
                  = Cardinality({t \in TransactionId : transactions[t] # None})
    BY ReadySummaryAddsUp
  <2>2. ASSUME ~reseeded, NEW t \in DOMAIN get_discrepancies(None)
        PROVE  \/ get_discrepancies(None)[t] = "stuck"
               \/ /\ reconciliation[t].discrepancy_flag
                  /\ get_discrepancies(None)[t] = reconciliation[t].discrepancy_reason
    <3>1. /\ t \in TransactionId /\ transactions[t] # None
          /\ AtomicLedger!Discrepant(reconciliation[t])
          /\ get_discrepancies(None)[t] = AtomicLedger!ListedReason(reconciliation[t])
      BY <2>2 DEF get_discrepancies, AtomicLedger!Discrepancies
    <3>2. RowsAgree(transactions[t], reconciliation[t])
      BY <2>2, <3>1 DEF RowsStayTogether, UndisturbedAgree, Undisturbed
    <3> QED
      BY <3>1, <3>2, AgreeingRowsAreExplained
  <2> QED
    BY <2>1, <2>2
<1> QED
  BY <1>1, RowsTogetherAlways, PTL

=============================================================================
