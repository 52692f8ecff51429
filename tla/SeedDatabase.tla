---------------------------- MODULE SeedDatabase ----------------------------
(***************************************************************************)
(* The seeder as a process: it computes the final rows from the file, then *)
(* writes the four tables one after the other, each in a transaction of    *)
(* its own.  It can be killed between two of them and started again, and   *)
(* it can be run again when it is done.                                    *)
(***************************************************************************)
EXTENDS SeedState

CONSTANTS Files,           \* the event files it may be given
          FlagsLateProcessed  \* TRUE in scripts/seed_db.py, FALSE in setu_app/seed.py

ASSUME FilesAssumption == Files \subseteq Seq(FileEvent) /\ FlagsLateProcessed \in BOOLEAN

VARIABLES
    merchants, transactions, payment_events, reconciliation,
    file,                  \* the file being seeded
    stage                  \* the table it writes next

vars == <<merchants, transactions, payment_events, reconciliation, file, stage>>

Stage == {"merchants", "transactions", "payment_events", "reconciliation", "done"}

TypeOK ==
    /\ merchants \in [MerchantId -> MerchantName \cup {None}]
    /\ transactions \in [TransactionId -> Transaction \cup {None}]
    /\ payment_events \in Seq(PaymentEvent)
    /\ reconciliation \in [TransactionId -> ReconciliationRecord \cup {None}]
    /\ file \in Seq(FileEvent)
    /\ stage \in Stage

Init ==
    /\ merchants = NoRows.merchants
    /\ transactions = NoRows.transactions
    /\ payment_events = <<>>
    /\ reconciliation = NoRows.reconciliation
    /\ file \in Files
    /\ stage = "merchants"

computed == IF FlagsLateProcessed THEN compute_final_states(file) ELSE compute_state(file)

Logged == {payment_events[i].event_id : i \in DOMAIN payment_events}

\* Mutant: the events are written before the transactions they belong to.
SeedEventsSecond ==
    /\ stage = "merchants"
    /\ merchants' = computed.merchants
    /\ stage' = "payment_events"
    /\ UNCHANGED <<transactions, payment_events, reconciliation, file>>

\* ON CONFLICT DO UPDATE of the merchant's name.
SeedMerchants ==
    /\ stage = "merchants"
    /\ merchants' = [m \in MerchantId |-> IF computed.merchants[m] = None
                                          THEN merchants[m] ELSE computed.merchants[m]]
    /\ stage' = "transactions"
    /\ UNCHANGED <<transactions, payment_events, reconciliation, file>>

\* ON CONFLICT DO UPDATE of current_status alone.
SeedTransactions ==
    LET Upserted(stored, row) ==
            IF row = None THEN stored
            ELSE IF stored = None THEN row
            ELSE [stored EXCEPT !.current_status = row.current_status]
    IN  /\ stage = "transactions"
        /\ transactions' = [t \in TransactionId |->
                               Upserted(transactions[t], computed.transactions[t])]
        /\ stage' = "payment_events"
        /\ UNCHANGED <<merchants, payment_events, reconciliation, file>>

\* Mutant: the copies in the file are inserted too.
NewEventsAndCopies == InFileOrder(file, {i \in DOMAIN file : file[i].event_id \notin Logged})

\* Mutant: the events are inserted whether or not they are logged.
EventsAgain == unique_events(file)

\* ON CONFLICT DO NOTHING for an event_id that is already logged.
NewEvents == InFileOrder(file, {i \in FirstCopies(file) : file[i].event_id \notin Logged})

SeedEvents ==
    /\ stage = "payment_events"
    /\ payment_events' = payment_events \o [k \in DOMAIN NewEvents |-> EventRow(NewEvents[k])]
    /\ stage' = "reconciliation"
    /\ UNCHANGED <<merchants, transactions, reconciliation, file>>

\* ON CONFLICT DO UPDATE of every column.
SeedReconciliations ==
    /\ stage = "reconciliation"
    /\ reconciliation' = [t \in TransactionId |->
            IF computed.reconciliation[t] = None
            THEN reconciliation[t] ELSE computed.reconciliation[t]]
    /\ stage' = "done"
    /\ UNCHANGED <<merchants, transactions, payment_events, file>>

Seed == SeedMerchants \/ SeedTransactions \/ SeedEvents \/ SeedReconciliations

\* The seeder is killed, or has ended, and is run again from the start.
Rerun ==
    /\ stage' = "merchants"
    /\ UNCHANGED <<merchants, transactions, payment_events, reconciliation, file>>

Next == Seed \/ Rerun

Spec == Init /\ [][Next]_vars

-----------------------------------------------------------------------------
(* The file read as a history.                                             *)

ByTime == Chronological(file)

\* The places of transaction t in the chronological file.
Places(t) == {i \in DOMAIN ByTime : ByTime[i].transaction_id = t}

Status(i) == EVENT_TO_STATUS[ByTime[i].event_type]

\* The file has, for t and in this order of time, an event of the first type and
\* one of the second.
Follows(t, first, second) ==
    \E i, j \in Places(t) : i < j /\ ByTime[i].event_type = first
                                  /\ ByTime[j].event_type = second

\* The file has a settlement of t that is recorded, a settled event that is not
\* t's first, and a later event of type `second'.
FollowsSettlement(t, second) ==
    \E k, i, j \in Places(t) : /\ k < i /\ i < j
                               /\ ByTime[i].event_type = "settled"
                               /\ ByTime[j].event_type = second

-----------------------------------------------------------------------------
(* Properties.                                                             *)

\* However often the seeder was killed on the way, when it ends the tables hold
\* the rows computed from the file and each event of the file once.
EndsWithComputedRows ==
    stage = "done" =>
        /\ [merchants |-> merchants, transactions |-> transactions,
            reconciliation |-> reconciliation] = computed
        /\ payment_events = [k \in DOMAIN unique_events(file) |->
                                EventRow(unique_events(file)[k])]

\* "Running this script a second time is safe": once a run has written its last
\* table, no later run on the same file changes anything, not even on the way.
RerunChangesNothing ==
    [][reconciliation # NoRows.reconciliation =>
          UNCHANGED <<merchants, transactions, payment_events, reconciliation>>]_vars

\* Killed at any moment, the seeder leaves no row without the row it refers to.
ParentsAreWrittenFirst ==
    /\ \A t \in TransactionId :
          /\ transactions[t] # None => merchants[transactions[t].merchant_id] # None
          /\ reconciliation[t] # None => transactions[t] # None
    /\ \A i \in DOMAIN payment_events :
          /\ transactions[payment_events[i].transaction_id] # None
          /\ merchants[payment_events[i].merchant_id] # None

\* The seeded status is that of the earliest event of the highest rank, whatever
\* the order of the file and however many copies of an event it holds.
SeededStatusIsFirstOfHighestRank ==
    stage = "done" =>
        \A t \in TransactionId : Places(t) # {} =>
            \E i \in Places(t) :
                /\ transactions[t].current_status = Status(i)
                /\ \A j \in Places(t) :
                      \/ STATUS_RANK[Status(j)] < STATUS_RANK[Status(i)]
                      \/ STATUS_RANK[Status(j)] = STATUS_RANK[Status(i)] /\ i <= j

\* The seeded flag is raised for exactly these: a failure after a recorded
\* settlement, where the seeder looks for it a processed event after a settled one,
\* and a processed transaction without settlement or failure after it.
SeededFlagMatchesFile ==
    stage = "done" =>
        \A t \in TransactionId : Places(t) # {} =>
            (reconciliation[t].discrepancy_flag <=>
                \/ FollowsSettlement(t, "payment_failed")
                \/ FlagsLateProcessed /\ Follows(t, "settled", "payment_processed")
                \/ /\ transactions[t].current_status = "processed"
                   /\ \A i \in Places(t) : ByTime[i].event_type # "payment_failed")

\* Entries are copies of one another when they have the same event_id, and only
\* then are they of the same time.
CopiesAreIdentical ==
    \A i, j \in DOMAIN file :
        /\ file[i].event_id = file[j].event_id => file[i] = file[j]
        /\ file[i].timestamp = file[j].timestamp => file[i] = file[j]

StartsWithSettled(t) ==
    \E i \in Places(t) : ByTime[i].event_type = "settled" /\ \A j \in Places(t) : i <= j

\* The computation runs over the file with its duplicates in; they change nothing
\* so long as no transaction's first event is settled (its copy would then count as
\* a second event and record the settlement).
DuplicatesChangeNothing ==
    (/\ stage = "done"
     /\ CopiesAreIdentical /\ \A t \in TransactionId : ~StartsWithSettled(t))
        => ComputeStates(unique_events(file), FlagsLateProcessed) = computed

\* What live ingestion of an entry makes of the rows.
IngestEntry(rows, ev) ==
    LET t == ev.transaction_id
    IN  [merchants |-> [rows.merchants EXCEPT ![ev.merchant_id] = ev.merchant_name],
         transactions |-> [rows.transactions EXCEPT ![t] = UpsertTransaction(@, ev)],
         reconciliation |-> [rows.reconciliation EXCEPT ![t] =
             UpsertReconciliation(@, rows.transactions[t], ev)]]

\* What live ingestion of the same entries, in the order of time, stores.
IngestedRows(events) ==
    LET ordered == Chronological(events)
        rows[k \in 0..Len(events)] ==
            IF k = 0 THEN NoRows ELSE IngestEntry(rows[k - 1], ordered[k])
    IN  rows[Len(events)]

\* The seeder and live ingestion store the same rows for a file without conflicts
\* and without copies, but for the flag of transactions that are stuck.
SeedMatchesIngest ==
    (/\ stage = "done"
     /\ CopiesAreIdentical /\ unique_events(file) = file
     /\ \A t \in TransactionId :
          /\ ~Follows(t, "payment_failed", "settled")
          /\ ~Follows(t, "settled", "payment_failed")
          /\ ~Follows(t, "settled", "payment_processed"))
    => LET ingested == IngestedRows(file)
       IN  computed = [ingested EXCEPT !.reconciliation =
                          [t \in TransactionId |-> FlagStuck(@[t], ingested.transactions[t])]]

-----------------------------------------------------------------------------
(* What the documentation says of conflicting events in the file.          *)

\* "initiated -> failed -> settled ... Discrepancy": a transaction the file settles
\* after it has failed is flagged.
FailedThenSettledIsFlagged ==
    stage = "done" =>
        \A t \in TransactionId :
            Follows(t, "payment_failed", "settled") => reconciliation[t].discrepancy_flag
=============================================================================
