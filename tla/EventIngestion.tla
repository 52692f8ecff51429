--------------------------- MODULE EventIngestion ---------------------------
(***************************************************************************)
(* POST /events as it runs: every request has a database session of its    *)
(* own, and every await in ingest_event lets another request in.  A        *)
(* session reads rows, computes from what it read, and writes under the    *)
(* database's single write lock, which it takes at its first write and     *)
(* holds until it commits or rolls back (SQLite, the configured default).  *)
(* Reads before that take no lock and see the latest commit.               *)
(*                                                                         *)
(* The session is SQLAlchemy's: a row object it has loaded is not          *)
(* refreshed by a later SELECT, and an UPDATE writes only the columns      *)
(* whose value differs from the one loaded.  Both are modelled.            *)
(***************************************************************************)
EXTENDS PaymentLifecycle

CONSTANTS Session,         \* the requests that can be in progress at once
          Inbox            \* Inbox[s] is the set of events session s may be sent

ASSUME SessionAssumption ==
    /\ None \notin Session
    /\ Inbox \in [Session -> SUBSET PaymentEvent]

VARIABLES
    \* committed tables
    merchants, transactions, payment_events, reconciliation,
    lock,                  \* the session that holds the write lock, or None
    \* per session: the statement it is about to execute, the request it serves,
    \* the rows it has loaded (None when there was none) and its result
    pc, payload, merchant, transaction, recon, outcome,
    \* history: the answers that reached clients
    acknowledged, refused

tables == <<merchants, transactions, payment_events, reconciliation>>
locals == <<pc, payload, merchant, transaction, recon, outcome>>
answers == <<acknowledged, refused>>
vars == <<tables, lock, locals, answers>>

Outcome == {"accepted", "duplicate", "error"}

PC == {"idle", "get_merchant", "get_transaction", "load_reconciliation", "flush",
       "select_reconciliation", "commit", "respond"}

TypeOK ==
    /\ merchants \in [MerchantId -> MerchantName \cup {None}]
    /\ transactions \in [TransactionId -> Transaction \cup {None}]
    /\ payment_events \in Seq(PaymentEvent)
    /\ reconciliation \in [TransactionId -> ReconciliationRecord \cup {None}]
    /\ lock \in Session \cup {None}
    /\ pc \in [Session -> PC]
    /\ payload \in [Session -> PaymentEvent \cup {None}]
    /\ merchant \in [Session -> MerchantName \cup {None}]
    /\ transaction \in [Session -> Transaction \cup {None}]
    /\ recon \in [Session -> ReconciliationRecord \cup {None}]
    /\ outcome \in [Session -> Outcome \cup {None}]
    /\ acknowledged \in [EventId -> Nat]
    /\ refused \subseteq PaymentEvent

-----------------------------------------------------------------------------

Logged == {payment_events[i].event_id : i \in DOMAIN payment_events}

Nobody == [s \in Session |-> None]

Init ==
    /\ merchants = [m \in MerchantId |-> None]
    /\ transactions = [t \in TransactionId |-> None]
    /\ payment_events = <<>>
    /\ reconciliation = [t \in TransactionId |-> None]
    /\ lock = None
    /\ pc = [s \in Session |-> "idle"]
    /\ payload = Nobody /\ merchant = Nobody /\ transaction = Nobody
    /\ recon = Nobody /\ outcome = Nobody
    /\ acknowledged = [e \in EventId |-> 0]
    /\ refused = {}

\* Session s moves on to statement `next'.
Goto(s, next) == pc' = [pc EXCEPT ![s] = next]

\* Session s ends its transaction with result `o': it gives the lock back if it has
\* it, and nothing reads the rows it has loaded any more.
Finish(s, o) ==
    /\ Goto(s, "respond")
    /\ outcome' = [outcome EXCEPT ![s] = o]
    /\ lock' = IF lock = s THEN None ELSE lock
    /\ merchant' = [merchant EXCEPT ![s] = None]
    /\ transaction' = [transaction EXCEPT ![s] = None]
    /\ recon' = [recon EXCEPT ![s] = None]

-----------------------------------------------------------------------------
(* The statements of ingest_event, in the order it executes them.          *)

Receive(s, p) ==
    /\ pc[s] = "idle"
    /\ payload' = [payload EXCEPT ![s] = p]
    /\ Goto(s, "get_merchant")
    /\ UNCHANGED <<tables, lock, merchant, transaction, recon, outcome, answers>>

GetMerchant(s) ==
    /\ pc[s] = "get_merchant"
    /\ merchant' = [merchant EXCEPT ![s] = merchants[payload[s].merchant_id]]
    /\ Goto(s, "get_transaction")
    /\ UNCHANGED <<tables, lock, payload, transaction, recon, outcome, answers>>

\* db.get(Transaction, ...): when it finds a row the session goes on to load
\* the row's reconciliation record, in a SELECT of its own.
GetTransaction(s) ==
    LET row == transactions[payload[s].transaction_id]
    IN  /\ pc[s] = "get_transaction"
        /\ transaction' = [transaction EXCEPT ![s] = row]
        /\ Goto(s, IF row = None THEN "flush" ELSE "load_reconciliation")
        /\ UNCHANGED <<tables, lock, payload, merchant, recon, outcome, answers>>

LoadReconciliation(s) ==
    /\ pc[s] = "load_reconciliation"
    /\ recon' = [recon EXCEPT ![s] = reconciliation[payload[s].transaction_id]]
    /\ Goto(s, "flush")
    /\ UNCHANGED <<tables, lock, payload, merchant, transaction, outcome, answers>>

\* Mutant: no UNIQUE constraint on event_id.
UniqueViolationOfRows(s) ==
    LET p == payload[s]
    IN  \/ merchant[s] = None /\ merchants[p.merchant_id] # None
        \/ transaction[s] = None /\ transactions[p.transaction_id] # None

\* Mutant: the merchant is inserted by every event.
UniqueViolationOfMerchant(s) ==
    LET p == payload[s]
    IN  p.event_id \in Logged \/ merchants[p.merchant_id] # None

\* An INSERT of session s meets a row that is already there: the event's, or that
\* of a merchant or a transaction the session did not find when it looked.
UniqueViolation(s) ==
    LET p == payload[s]
    IN  \/ p.event_id \in Logged
        \/ merchant[s] = None /\ merchants[p.merchant_id] # None
        \/ transaction[s] = None /\ transactions[p.transaction_id] # None

\* Mutant: two sessions write at once.
FlushUnlocked(s) ==
    /\ pc[s] = "flush"
    /\ ~UniqueViolation(s)
    /\ lock' = s
    /\ Goto(s, "select_reconciliation")
    /\ UNCHANGED <<tables, payload, merchant, transaction, recon, outcome, answers>>

\* The first flush takes the write lock and sends the merchant, transaction and
\* event rows.  They stay the session's own until it commits.
Flush(s) ==
    /\ pc[s] = "flush"
    /\ lock = None
    /\ ~UniqueViolation(s)
    /\ lock' = s
    /\ Goto(s, "select_reconciliation")
    /\ UNCHANGED <<tables, payload, merchant, transaction, recon, outcome, answers>>

\* except IntegrityError: roll back and report a duplicate.
FlushRejected(s) ==
    /\ pc[s] = "flush"
    /\ lock = None
    /\ UniqueViolation(s)
    /\ Finish(s, "duplicate")
    /\ UNCHANGED <<tables, payload, answers>>

\* The SELECT of the reconciliation row gives the object the session already has.
SelectReconciliation(s) ==
    /\ pc[s] = "select_reconciliation"
    /\ recon' = [recon EXCEPT ![s] =
                    IF @ = None THEN reconciliation[payload[s].transaction_id] ELSE @]
    /\ Goto(s, "commit")
    /\ UNCHANGED <<tables, lock, payload, merchant, transaction, outcome, answers>>

\* Mutant: a row that was not found is not inserted.
ColumnOfFoundRow(stored, loaded, assigned) == IF loaded = None THEN stored ELSE assigned

\* A column after an UPDATE: written only when the assigned value is a change
\* from the loaded one.
Column(stored, loaded, assigned) == IF assigned = loaded THEN stored ELSE assigned

\* Mutant: the status of a transaction that was found is not written.
WriteNewTransaction(stored, loaded, assigned) == IF loaded = None THEN assigned ELSE stored

WriteTransaction(stored, loaded, assigned) ==
    IF loaded = None
    THEN assigned
    ELSE [stored EXCEPT !.current_status =
             Column(@, loaded.current_status, assigned.current_status)]

WriteReconciliation(stored, loaded, assigned) ==
    IF loaded = None
    THEN assigned
    ELSE [payment_status |->
            Column(stored.payment_status, loaded.payment_status, assigned.payment_status),
          settlement_status |->
            Column(stored.settlement_status, loaded.settlement_status,
                   assigned.settlement_status),
          discrepancy_flag |->
            Column(stored.discrepancy_flag, loaded.discrepancy_flag,
                   assigned.discrepancy_flag),
          discrepancy_reason |->
            Column(stored.discrepancy_reason, loaded.discrepancy_reason,
                   assigned.discrepancy_reason),
          settled_at |->
            Column(stored.settled_at, loaded.settled_at, assigned.settled_at)]

\* The second flush and the commit of get_db: the writes of both flushes become
\* visible at once and the lock is released.
Commit(s) ==
    LET p == payload[s]
    IN  /\ pc[s] = "commit"
        /\ merchants' = [merchants EXCEPT ![p.merchant_id] =
                            Column(@, merchant[s], p.merchant_name)]
        /\ transactions' = [transactions EXCEPT ![p.transaction_id] =
              WriteTransaction(@, transaction[s], UpsertTransaction(transaction[s], p))]
        /\ payment_events' = Append(payment_events, p)
        /\ reconciliation' = [reconciliation EXCEPT ![p.transaction_id] =
              WriteReconciliation(@, recon[s],
                                  UpsertReconciliation(recon[s], transaction[s], p))]
        /\ Finish(s, "accepted")
        /\ UNCHANGED <<payload, answers>>

\* Mutant: no busy timeout, a session waits for the lock as long as it takes.
RaiseUnlessWaiting(s) ==
    /\ pc[s] \notin {"idle", "respond", "flush"}
    /\ Finish(s, "error")
    /\ UNCHANGED <<tables, payload, answers>>

\* Any statement may fail: "database is locked" once the busy timeout is over, a
\* full disk, a lost connection.  get_db rolls back and the client gets a 500.
Raise(s) ==
    /\ pc[s] \notin {"idle", "respond"}
    /\ Finish(s, "error")
    /\ UNCHANGED <<tables, payload, answers>>

\* The answer leaves and the session is closed.
Respond(s) ==
    LET p == payload[s]
    IN  /\ pc[s] = "respond"
        /\ acknowledged' = IF outcome[s] = "accepted"
                           THEN [acknowledged EXCEPT ![p.event_id] = @ + 1]
                           ELSE acknowledged
        /\ refused' = IF outcome[s] = "duplicate" THEN refused \cup {p} ELSE refused
        /\ Goto(s, "idle")
        /\ payload' = [payload EXCEPT ![s] = None]
        /\ outcome' = [outcome EXCEPT ![s] = None]
        /\ UNCHANGED <<tables, lock, merchant, transaction, recon>>

\* The server process dies: the sessions and the lock go with it, the committed
\* tables stay, and nobody gets an answer.
Crash ==
    /\ \E s \in Session : pc[s] # "idle"
    /\ lock' = None
    /\ pc' = [s \in Session |-> "idle"]
    /\ payload' = Nobody /\ merchant' = Nobody /\ transaction' = Nobody
    /\ recon' = Nobody /\ outcome' = Nobody
    /\ UNCHANGED <<tables, answers>>

Step(s) ==
    \/ GetMerchant(s) \/ GetTransaction(s) \/ LoadReconciliation(s)
    \/ Flush(s) \/ FlushRejected(s) \/ SelectReconciliation(s)
    \/ Commit(s) \/ Raise(s) \/ Respond(s)

Next ==
    \/ \E s \in Session : Step(s) \/ \E p \in Inbox[s] : Receive(s, p)
    \/ Crash

Spec == Init /\ [][Next]_vars

\* Every statement ends: the database answers it, or the busy timeout and the
\* driver turn it into an error; a finished request is answered.  Clients owe
\* nothing, and the process need not crash.
FairSpec == Spec /\ \A s \in Session : WF_vars(Step(s))

AnyPayload == UNION {Inbox[s] : s \in Session}

Send(p) == \E s \in Session : p \in Inbox[s] /\ Receive(s, p)

-----------------------------------------------------------------------------
(* Properties of any number of concurrent sessions.                        *)

Positions(t) == {i \in DOMAIN payment_events : payment_events[i].transaction_id = t}

\* Whoever holds the write lock is between its first flush and its commit, and
\* nobody is there without it: two sessions never write at once.
LockIsHeldToWrite ==
    \A s \in Session : pc[s] \in {"select_reconciliation", "commit"} <=> lock = s

\* The four tables agree on what exists, though SQLite checks no foreign key:
\* an event's merchant, transaction and reconciliation rows are there, and a
\* transaction or reconciliation row is there only for a transaction with events.
RowsComplete ==
    /\ \A i \in DOMAIN payment_events : merchants[payment_events[i].merchant_id] # None
    /\ \A t \in TransactionId :
          /\ (transactions[t] # None) <=> (Positions(t) # {})
          /\ (reconciliation[t] # None) <=> (Positions(t) # {})

\* Interleaved sessions may store an old status, but never one out of thin air: a
\* transaction's status is that of one of its logged events, and its merchant is
\* that of its first event.
StatusHasEvent ==
    \A t \in TransactionId : transactions[t] # None =>
        /\ \E i \in Positions(t) : transactions[t].current_status
                                      = EVENT_TO_STATUS[payment_events[i].event_type]
        /\ \E i \in Positions(t) :
              /\ \A j \in Positions(t) : i <= j
              /\ transactions[t].merchant_id = payment_events[i].merchant_id

\* A settlement is never recorded without its instant, and the instant is that of
\* a settled event of the same transaction in the log, not its first event.
SettlementHasEvent ==
    \A t \in TransactionId : reconciliation[t] # None =>
        /\ reconciliation[t].settlement_status = "settled"
              => reconciliation[t].settled_at # None
        /\ reconciliation[t].settled_at # None =>
              \E i, j \in Positions(t) :
                  /\ i < j
                  /\ payment_events[j].event_type = "settled"
                  /\ payment_events[j].event_id = reconciliation[t].settled_at

\* The two events, earlier and later, that each conflict is about.
ConflictingTypes(reason) ==
    CASE reason = "settled_after_failed" -> <<"payment_failed", "settled">>
      [] reason = "failed_after_settled" -> <<"settled", "payment_failed">>
      [] reason = "processed_after_settled" -> <<"settled", "payment_processed">>

Conflicts == {"settled_after_failed", "failed_after_settled", "processed_after_settled"}

\* The log of t holds the events of that conflict, in that order.
Evidence(t, reason) ==
    \E i, j \in Positions(t) :
        /\ i < j
        /\ payment_events[i].event_type = ConflictingTypes(reason)[1]
        /\ payment_events[j].event_type = ConflictingTypes(reason)[2]

\* No false alarm even under interleaving: a raised flag, and a stored reason, have
\* the conflicting events in the log, in the conflicting order.
FlagHasEvidence ==
    \A t \in TransactionId : reconciliation[t] # None =>
        /\ reconciliation[t].discrepancy_flag
              => \E reason \in Conflicts : Evidence(t, reason)
        /\ reconciliation[t].discrepancy_reason # None =>
              /\ reconciliation[t].discrepancy_reason \in Conflicts
              /\ Evidence(t, reconciliation[t].discrepancy_reason)

\* A client that was told "accepted" finds its event in the log, whatever crashed
\* since, and is told so for one event_id at most once.
AcceptedOnceAndLogged ==
    \A e \in EventId :
        /\ acknowledged[e] <= 1
        /\ acknowledged[e] = 1 => e \in Logged

Contract == INSTANCE IngestContract

\* The log and the answers behave as IngestContract says, for every interleaving,
\* error and crash.
ImplementsContract == Contract!ContractSpec

\* Why the contract holds: the parts of an invariant every step preserves.
Answering(s, o) == pc[s] = "respond" /\ outcome[s] = o

ServesAPayload == \A s \in Session : pc[s] # "idle" => payload[s] \in PaymentEvent

\* The event of the session that holds the lock is not logged, and no other session
\* can log it meanwhile.
HolderIsNew == \A s \in Session : lock = s => payload[s].event_id \notin Logged

\* An acceptance on its way to the client is of a logged event that is not
\* acknowledged yet, and no two are of the same event_id.
AcceptanceIsBacked ==
    \A s \in Session : Answering(s, "accepted") =>
        /\ \E i \in DOMAIN payment_events : payment_events[i] = payload[s]
        /\ acknowledged[payload[s].event_id] = 0
        /\ \A r \in Session : (r # s /\ Answering(r, "accepted"))
                                => payload[r].event_id # payload[s].event_id

RefusalIsBacked ==
    \A s \in Session : Answering(s, "duplicate") => Contract!Related(payload[s])

\* A merchant or transaction row is there only if an event brought it.
RowsHaveEvents ==
    /\ \A m \in MerchantId : merchants[m] # None =>
          \E i \in DOMAIN payment_events : payment_events[i].merchant_id = m
    /\ \A t \in TransactionId : transactions[t] # None =>
          \E i \in DOMAIN payment_events : payment_events[i].transaction_id = t

\* What the log and the answers have to do with each other, however writers are kept apart.
LogBacksAnswers ==
    AcceptanceIsBacked /\ RefusalIsBacked /\ RowsHaveEvents /\ AcceptedOnceAndLogged

\* However sessions interleave, an answer on its way is one the contract allows: the
\* state from which every next step is a step of the contract.
AnswersAreBacked == LockIsHeldToWrite /\ ServesAPayload /\ HolderIsNew /\ LogBacksAnswers

\* A request that is being served ends, by an answer or by a crash: no session waits
\* for the lock for ever.
RequestsEnd == \A s \in Session : pc[s] = "get_merchant" ~> pc[s] = "idle"

Failure == Crash \/ \E s \in Session : Raise(s)

\* An event whose client never stops sending it gets into the log once failures
\* cease: the false duplicates of a race do not last, and the lock does not starve it.
RetriedEventsAreLogged ==
    \A p \in AnyPayload :
        (<>[][~Failure]_vars /\ []<><<Send(p)>>_vars) => <>(p.event_id \in Logged)

-----------------------------------------------------------------------------
(* Properties of sessions that do not meet, and of one session alone.      *)

AtomicLedger == INSTANCE Ledger WITH Payload <- AnyPayload

\* The tables change as if each accepted event were ingested in one step.
ImplementsLedger == AtomicLedger!Spec

\* Two requests that can be in progress at once are never about the same merchant or
\* the same transaction.  They may bear the same event_id.
InboxesAreDisjoint ==
    \A s, r \in Session : s # r =>
        \A p \in Inbox[s], q \in Inbox[r] :
            /\ p.merchant_id # q.merchant_id
            /\ p.transaction_id # q.transaction_id

-----------------------------------------------------------------------------
(* What the documentation says of concurrent and of conflicting events.    *)

\* "Status advancement is only allowed forward (by rank)."
StatusForwardOnly == AtomicLedger!StatusForwardOnly

\* "Event already processed; no state changes applied.": an event reported as a
\* duplicate is in the log.
DuplicateIsLogged == \A p \in refused : p.event_id \in Logged

\* "Discrepancies caused by conflicting events are flagged rather than silently
\* dropped.": a transaction that was settled after it had failed stays listed.
SettledAfterFailedIsListed ==
    \A t \in TransactionId :
        (reconciliation[t] # None /\ Evidence(t, "settled_after_failed"))
            => t \in AtomicLedger!Discrepancies(transactions, reconciliation, None)
=============================================================================
