------------------------ MODULE EventIngestionProofs ------------------------
(* Proofs about EventIngestion, for every set of sessions, requests, ids    *)
(* and names, and every interleaving, error and crash.                      *)
EXTENDS EventIngestion, PaymentLifecycleProofs

-----------------------------------------------------------------------------
(* Types.                                                                   *)

LEMMA WriteTransactionType ==
    ASSUME NEW stored \in Transaction \cup {None}, NEW loaded \in Transaction \cup {None},
           NEW assigned \in Transaction, loaded # None => stored # None
    PROVE  WriteTransaction(stored, loaded, assigned) \in Transaction
BY DEF WriteTransaction, Column, Transaction

LEMMA WriteReconciliationType ==
    ASSUME NEW stored \in ReconciliationRecord \cup {None},
           NEW loaded \in ReconciliationRecord \cup {None},
           NEW assigned \in ReconciliationRecord, loaded # None => stored # None
    PROVE  WriteReconciliation(stored, loaded, assigned) \in ReconciliationRecord
BY DEF WriteReconciliation, Column, ReconciliationRecord

LEMMA AppendEvent ==
    ASSUME NEW log \in Seq(PaymentEvent), NEW p \in PaymentEvent
    PROVE  /\ Append(log, p) \in Seq(PaymentEvent)
           /\ DOMAIN Append(log, p) = DOMAIN log \cup {Len(log) + 1}
           /\ \A i \in DOMAIN log : Append(log, p)[i] = log[i]
           /\ Append(log, p)[Len(log) + 1] = p
OBVIOUS

\* A session that has not looked, or has finished, holds no rows; a row it holds is
\* stored under the key it was loaded by, for rows are never deleted.
HoldsStoredRows ==
    \A s \in Session :
        /\ pc[s] \in {"idle", "get_merchant", "get_transaction", "respond"}
              => transaction[s] = None /\ recon[s] = None
        /\ transaction[s] # None => transactions[payload[s].transaction_id] # None
        /\ recon[s] # None => reconciliation[payload[s].transaction_id] # None

TypeInv == TypeOK /\ ServesAPayload /\ HoldsStoredRows

\* Whatever a session writes at its commit is a row, and no row of another disappears.
LEMMA CommitWritesRows ==
    ASSUME TypeInv, NEW s \in Session, Commit(s)
    PROVE  /\ payload[s] \in PaymentEvent
           /\ merchants' \in [MerchantId -> MerchantName \cup {None}]
           /\ transactions' \in [TransactionId -> Transaction \cup {None}]
           /\ transactions'[payload[s].transaction_id] # None
           /\ \A t \in TransactionId \ {payload[s].transaction_id} :
                 transactions'[t] = transactions[t]
           /\ reconciliation' \in [TransactionId -> ReconciliationRecord \cup {None}]
           /\ reconciliation'[payload[s].transaction_id] # None
           /\ \A t \in TransactionId \ {payload[s].transaction_id} :
                 reconciliation'[t] = reconciliation[t]
           /\ payment_events' \in Seq(PaymentEvent)
<1> DEFINE p == payload[s]
           t == p.transaction_id
           row == UpsertTransaction(transaction[s], p)
           rec == UpsertReconciliation(recon[s], transaction[s], p)
           newT == WriteTransaction(transactions[t], transaction[s], row)
           newR == WriteReconciliation(reconciliation[t], recon[s], rec)
<1>1. p \in PaymentEvent /\ p.merchant_id \in MerchantId
      /\ p.merchant_name \in MerchantName /\ t \in TransactionId
  BY DEF TypeInv, ServesAPayload, Commit, PaymentEvent
<1>2. /\ transaction[s] \in Transaction \cup {None}
      /\ recon[s] \in ReconciliationRecord \cup {None}
      /\ transactions[t] \in Transaction \cup {None}
      /\ reconciliation[t] \in ReconciliationRecord \cup {None}
      /\ transaction[s] # None => transactions[t] # None
      /\ recon[s] # None => reconciliation[t] # None
  BY <1>1 DEF TypeInv, TypeOK, HoldsStoredRows
<1>3. row \in Transaction
  BY <1>1, <1>2, UpsertTransactionType
<1>4. newT \in Transaction
  BY <1>2, <1>3, WriteTransactionType
<1>5. rec \in ReconciliationRecord
  BY <1>1, <1>2, UpsertReconciliationType
<1>6. newR \in ReconciliationRecord
  BY <1>2, <1>5, WriteReconciliationType
<1>7. None \notin Transaction /\ None \notin ReconciliationRecord
  BY NoneAssumption DEF Transaction, ReconciliationRecord
<1>8. /\ transactions' = [transactions EXCEPT ![t] = newT]
      /\ reconciliation' = [reconciliation EXCEPT ![t] = newR]
      /\ payment_events' = Append(payment_events, p)
  BY DEF Commit
<1>9. merchants' \in [MerchantId -> MerchantName \cup {None}]
  BY <1>1 DEF Commit, Column, TypeInv, TypeOK
<1> HIDE DEF row, rec, newT, newR
<1> QED
  BY <1>1, <1>4, <1>6, <1>7, <1>8, <1>9, AppendEvent DEF TypeInv, TypeOK

LEMMA TypeInvInit == Init => TypeInv
BY NoneAssumption, SessionAssumption
DEF Init, TypeInv, TypeOK, Nobody, ServesAPayload, HoldsStoredRows, PC, Outcome

\* One step of any session, a request that arrives, and a crash.
LEMMA TypeInvStep == TypeInv /\ [Next]_vars => TypeInv'
<1> SUFFICES ASSUME TypeInv, [Next]_vars
             PROVE  TypeInv'
  OBVIOUS
<1> USE DEF TypeInv
<1>1. ASSUME NEW s \in Session, NEW p \in Inbox[s], Receive(s, p)
      PROVE  TypeInv'
  <2>1. p \in PaymentEvent
    BY <1>1, SessionAssumption
  <2> QED
    BY <1>1, <2>1 DEF Receive, Goto, TypeOK, PC, tables, answers, ServesAPayload,
                      HoldsStoredRows
<1>2. ASSUME NEW s \in Session, GetMerchant(s)
      PROVE  TypeInv'
  <2>1. payload[s].merchant_id \in MerchantId
    BY <1>2 DEF GetMerchant, ServesAPayload, PaymentEvent
  <2> QED
    BY <1>2, <2>1 DEF GetMerchant, Goto, TypeOK, PC, tables, answers, ServesAPayload,
                      HoldsStoredRows
<1>3. ASSUME NEW s \in Session, GetTransaction(s)
      PROVE  TypeInv'
  <2>1. payload[s].transaction_id \in TransactionId
    BY <1>3 DEF GetTransaction, ServesAPayload, PaymentEvent
  <2> QED
    BY <1>3, <2>1 DEF GetTransaction, Goto, TypeOK, PC, tables, answers, ServesAPayload,
                      HoldsStoredRows
<1>4. ASSUME NEW s \in Session, LoadReconciliation(s)
      PROVE  TypeInv'
  <2>1. payload[s].transaction_id \in TransactionId
    BY <1>4 DEF LoadReconciliation, ServesAPayload, PaymentEvent
  <2> QED
    BY <1>4, <2>1 DEF LoadReconciliation, Goto, TypeOK, PC, tables, answers,
                      ServesAPayload, HoldsStoredRows
<1>5. ASSUME NEW s \in Session, Flush(s)
      PROVE  TypeInv'
  BY <1>5 DEF Flush, Goto, TypeOK, PC, tables, answers, ServesAPayload, HoldsStoredRows
<1>6. ASSUME NEW s \in Session, FlushRejected(s) \/ Raise(s)
      PROVE  TypeInv'
  BY <1>6 DEF FlushRejected, Raise, Finish, Goto, TypeOK, PC, Outcome, tables, answers,
              ServesAPayload, HoldsStoredRows
<1>7. ASSUME NEW s \in Session, SelectReconciliation(s)
      PROVE  TypeInv'
  <2>1. payload[s].transaction_id \in TransactionId
    BY <1>7 DEF SelectReconciliation, ServesAPayload, PaymentEvent
  <2> QED
    BY <1>7, <2>1 DEF SelectReconciliation, Goto, TypeOK, PC, tables, answers,
                      ServesAPayload, HoldsStoredRows
<1>8. ASSUME NEW s \in Session, Commit(s)
      PROVE  TypeInv'
  <2>1. TypeOK' /\ ServesAPayload'
    BY <1>8, CommitWritesRows DEF Commit, Finish, Goto, TypeOK, PC, Outcome, answers,
                                  ServesAPayload
  <2>2. \A t \in TransactionId : /\ transactions[t] # None => transactions'[t] # None
                                 /\ reconciliation[t] # None => reconciliation'[t] # None
    BY <1>8, CommitWritesRows
  <2>3. \A r \in Session : transaction[r] # None \/ recon[r] # None
                              => payload[r].transaction_id \in TransactionId
    BY DEF HoldsStoredRows, ServesAPayload, PaymentEvent
  <2>4. HoldsStoredRows'
    BY <1>8, <2>2, <2>3 DEF Commit, Finish, Goto, HoldsStoredRows, TypeOK
  <2> QED
    BY <2>1, <2>4
<1>9. ASSUME NEW s \in Session, Respond(s)
      PROVE  TypeInv'
  <2>1. payload[s] \in PaymentEvent /\ payload[s].event_id \in EventId
    BY <1>9 DEF Respond, ServesAPayload, PaymentEvent
  <2>2. acknowledged' \in [EventId -> Nat] /\ refused' \subseteq PaymentEvent
    BY <1>9, <2>1 DEF Respond, TypeOK
  <2> QED
    BY <1>9, <2>2 DEF Respond, Goto, TypeOK, PC, tables, ServesAPayload, HoldsStoredRows
<1>10. CASE Crash
  BY <1>10 DEF Crash, Nobody, TypeOK, PC, tables, answers, ServesAPayload, HoldsStoredRows
<1>11. CASE UNCHANGED vars
  BY <1>11 DEF vars, tables, locals, answers, TypeOK, ServesAPayload, HoldsStoredRows
<1> QED
  BY <1>1, <1>2, <1>3, <1>4, <1>5, <1>6, <1>7, <1>8, <1>9, <1>10, <1>11 DEF Next, Step

\* Every interleaving of sessions, errors and crashes keeps the tables and the
\* sessions' variables within their types.
THEOREM SessionTypeCorrect == Spec => []TypeOK
<1>1. TypeInv => TypeOK
  BY DEF TypeInv
<1> QED
  BY <1>1, TypeInvInit, TypeInvStep, PTL DEF Spec

-----------------------------------------------------------------------------
(* The write lock.                                                          *)

LockInv == TypeInv /\ LockIsHeldToWrite

LEMMA LockInvInit == Init => LockInv
BY TypeInvInit, SessionAssumption DEF Init, LockInv, LockIsHeldToWrite

LEMMA LockInvStep == LockInv /\ [Next]_vars => LockInv'
<1> SUFFICES ASSUME LockInv, [Next]_vars
             PROVE  LockIsHeldToWrite'
  BY TypeInvStep DEF LockInv
<1> USE SessionAssumption DEF LockInv, LockIsHeldToWrite, TypeInv, TypeOK
<1>1. ASSUME NEW s \in Session, NEW p \in Inbox[s], Receive(s, p)
      PROVE  LockIsHeldToWrite'
  BY <1>1 DEF Receive, Goto
<1>2. ASSUME NEW s \in Session,
             GetMerchant(s) \/ GetTransaction(s) \/ LoadReconciliation(s)
      PROVE  LockIsHeldToWrite'
  BY <1>2 DEF GetMerchant, GetTransaction, LoadReconciliation, Goto
<1>3. ASSUME NEW s \in Session, Flush(s)
      PROVE  LockIsHeldToWrite'
  BY <1>3 DEF Flush, Goto
<1>4. ASSUME NEW s \in Session, FlushRejected(s) \/ Raise(s)
      PROVE  LockIsHeldToWrite'
  BY <1>4 DEF FlushRejected, Raise, Finish, Goto
<1>5. ASSUME NEW s \in Session, SelectReconciliation(s)
      PROVE  LockIsHeldToWrite'
  BY <1>5 DEF SelectReconciliation, Goto
<1>6. ASSUME NEW s \in Session, Commit(s)
      PROVE  LockIsHeldToWrite'
  BY <1>6 DEF Commit, Finish, Goto
<1>7. ASSUME NEW s \in Session, Respond(s)
      PROVE  LockIsHeldToWrite'
  BY <1>7 DEF Respond, Goto
<1>8. CASE Crash
  BY <1>8 DEF Crash
<1>9. CASE UNCHANGED vars
  BY <1>9 DEF vars, locals
<1> QED
  BY <1>1, <1>2, <1>3, <1>4, <1>5, <1>6, <1>7, <1>8, <1>9 DEF Next, Step

\* Two sessions are never between their first flush and their commit at once, and the
\* lock is held by nobody else.
THEOREM WritersHoldTheLock == Spec => []LockIsHeldToWrite
<1>1. LockInv => LockIsHeldToWrite
  BY DEF LockInv
<1> QED
  BY <1>1, LockInvInit, LockInvStep, PTL DEF Spec

-----------------------------------------------------------------------------
(* The log and the answers.                                                 *)

\* A commit appends its event, which it alone can be logging, and takes no position
\* from any other.
LEMMA CommitExtendsLog ==
    ASSUME TypeInv, NEW s \in Session, Commit(s)
    PROVE  /\ \A i \in DOMAIN payment_events :
                  i \in DOMAIN payment_events' /\ payment_events'[i] = payment_events[i]
           /\ \E i \in DOMAIN payment_events' : payment_events'[i] = payload[s]
           /\ Logged' = Logged \cup {payload[s].event_id}
           /\ \A p \in PaymentEvent : Contract!Related(p) => Contract!Related(p)'
<1> DEFINE p == payload[s]
           n == Len(payment_events) + 1
<1>1. payment_events \in Seq(PaymentEvent) /\ p \in PaymentEvent
  BY DEF TypeInv, TypeOK, ServesAPayload, Commit
<1>2. payment_events' = Append(payment_events, p)
  BY DEF Commit
<1>3. /\ DOMAIN payment_events' = DOMAIN payment_events \cup {n}
      /\ \A i \in DOMAIN payment_events : payment_events'[i] = payment_events[i]
      /\ payment_events'[n] = p
  BY <1>1, <1>2, AppendEvent
<1>4. Logged' = Logged \cup {p.event_id}
  <2>1. ASSUME NEW e \in Logged'
        PROVE  e \in Logged \cup {p.event_id}
    BY <1>3, <2>1 DEF Logged
  <2>2. ASSUME NEW e \in Logged \cup {p.event_id}
        PROVE  e \in Logged'
    BY <1>3, <2>2 DEF Logged
  <2> QED
    BY <2>1, <2>2
<1> QED
  BY <1>3, <1>4 DEF Contract!Related

\* A step that touches no table and sends no answer.
LEMMA QuietKeepsAnswers ==
    ASSUME LogBacksAnswers, UNCHANGED <<tables, outcome, answers>>,
           \A r \in Session : pc'[r] = "respond" => pc[r] = "respond" /\ payload'[r] = payload[r]
    PROVE  LogBacksAnswers'
BY DEF tables, answers, LogBacksAnswers, AcceptanceIsBacked, RefusalIsBacked, RowsHaveEvents,
       AcceptedOnceAndLogged, Answering, Logged, Contract!Related

\* A session that ends with an error promises nothing.
LEMMA ErrorKeepsAnswers ==
    ASSUME TypeInv, LogBacksAnswers, NEW s \in Session, Finish(s, "error"),
           UNCHANGED <<tables, payload, answers>>
    PROVE  LogBacksAnswers'
<1>1. /\ outcome'[s] = "error"
      /\ \A r \in Session \ {s} : pc'[r] = pc[r] /\ outcome'[r] = outcome[r]
  BY DEF Finish, Goto, TypeInv, TypeOK
<1> QED
  BY <1>1
  DEF tables, answers, LogBacksAnswers, AcceptanceIsBacked, RefusalIsBacked, RowsHaveEvents,
      AcceptedOnceAndLogged, Answering, Logged, Contract!Related

\* A row that an INSERT meets was brought by an event of the log, for rows have events.
LEMMA CollisionIsRelated ==
    ASSUME RowsHaveEvents, NEW p \in PaymentEvent,
           \/ p.event_id \in Logged
           \/ merchants[p.merchant_id] # None
           \/ transactions[p.transaction_id] # None
    PROVE  Contract!Related(p)
<1>1. p.merchant_id \in MerchantId /\ p.transaction_id \in TransactionId
  BY DEF PaymentEvent
<1>2. CASE p.event_id \in Logged
  BY <1>2 DEF Logged, Contract!Related
<1>3. CASE merchants[p.merchant_id] # None
  BY <1>1, <1>3 DEF RowsHaveEvents, Contract!Related
<1>4. CASE transactions[p.transaction_id] # None
  BY <1>1, <1>4 DEF RowsHaveEvents, Contract!Related
<1> QED
  BY <1>2, <1>3, <1>4

LEMMA RefusalKeepsAnswers ==
    ASSUME TypeInv, LogBacksAnswers, NEW s \in Session, Finish(s, "duplicate"),
           UNCHANGED <<tables, payload, answers>>, Contract!Related(payload[s])
    PROVE  LogBacksAnswers'
<1>1. /\ outcome'[s] = "duplicate"
      /\ \A r \in Session \ {s} : pc'[r] = pc[r] /\ outcome'[r] = outcome[r]
  BY DEF Finish, Goto, TypeInv, TypeOK
<1> QED
  BY <1>1
  DEF tables, answers, LogBacksAnswers, AcceptanceIsBacked, RefusalIsBacked, RowsHaveEvents,
      AcceptedOnceAndLogged, Answering, Logged, Contract!Related

\* The commit of an event that is not logged yet.
LEMMA CommitKeepsAnswers ==
    ASSUME TypeInv, LogBacksAnswers, NEW s \in Session, Commit(s),
           payload[s].event_id \notin Logged
    PROVE  LogBacksAnswers'
<1> USE DEF LogBacksAnswers
<1> DEFINE p == payload[s]
<1>1. p \in PaymentEvent /\ p.event_id \in EventId
  BY DEF Commit, TypeInv, ServesAPayload, PaymentEvent
<1>2. /\ UNCHANGED <<payload, answers>>
      /\ outcome'[s] = "accepted"
      /\ \A r \in Session \ {s} : pc'[r] = pc[r] /\ outcome'[r] = outcome[r]
  BY DEF Commit, Finish, Goto, TypeInv, TypeOK
<1>3. /\ \A i \in DOMAIN payment_events :
            i \in DOMAIN payment_events' /\ payment_events'[i] = payment_events[i]
      /\ \E i \in DOMAIN payment_events' : payment_events'[i] = p
      /\ Logged' = Logged \cup {p.event_id}
      /\ \A q \in PaymentEvent : Contract!Related(q) => Contract!Related(q)'
  BY CommitExtendsLog
<1>4. AcceptedOnceAndLogged'
  BY <1>2, <1>3 DEF AcceptedOnceAndLogged, answers
<1>5. AcceptanceIsBacked'
  <2>1. acknowledged[p.event_id] = 0
    BY <1>1 DEF AcceptedOnceAndLogged, TypeInv, TypeOK
  <2>2. ASSUME NEW r \in Session \ {s}, Answering(r, "accepted")
        PROVE  payload[r].event_id # p.event_id
    BY <2>2 DEF AcceptanceIsBacked, Logged
  <2>3. UNCHANGED <<acknowledged, payload>>
        /\ \A r \in Session \ {s} : Answering(r, "accepted")' => Answering(r, "accepted")
    BY <1>2 DEF Answering, answers
  <2>4. ASSUME NEW r \in Session \ {s}, Answering(r, "accepted")
        PROVE  /\ \E i \in DOMAIN payment_events' : payment_events'[i] = payload[r]
               /\ acknowledged[payload[r].event_id] = 0
               /\ \A q \in Session \ {r, s} : Answering(q, "accepted")
                     => payload[q].event_id # payload[r].event_id
    BY <1>3, <2>4 DEF AcceptanceIsBacked
  <2> QED
    BY <1>3, <2>1, <2>2, <2>3, <2>4 DEF AcceptanceIsBacked
<1>6. RefusalIsBacked'
  <2>1. \A r \in Session : Answering(r, "duplicate")' => Answering(r, "duplicate")
    BY <1>2 DEF Answering
  <2>2. \A r \in Session : Answering(r, "duplicate") => payload[r] \in PaymentEvent
    BY DEF Answering, TypeInv, ServesAPayload
  <2>3. ASSUME NEW r \in Session, Answering(r, "duplicate")
        PROVE  Contract!Related(payload[r])'
    <3>1. Contract!Related(payload[r]) /\ payload[r] \in PaymentEvent
      BY <2>2, <2>3 DEF RefusalIsBacked
    <3> QED
      BY <1>2, <1>3, <3>1 DEF Contract!Related
  <2> QED
    BY <2>1, <2>3 DEF RefusalIsBacked
<1>7. RowsHaveEvents'
  <2>1. \A m \in MerchantId \ {p.merchant_id} : merchants'[m] = merchants[m]
    BY DEF Commit, TypeInv, TypeOK
  <2>2. \A t \in TransactionId \ {p.transaction_id} : transactions'[t] = transactions[t]
    BY CommitWritesRows
  <2> QED
    BY <1>3, <2>1, <2>2 DEF RowsHaveEvents
<1> QED
  BY <1>4, <1>5, <1>6, <1>7

\* An answer leaves: an acceptance is counted, and was of an event not counted before.
LEMMA RespondKeepsAnswers ==
    ASSUME TypeInv, LogBacksAnswers, NEW s \in Session, Respond(s)
    PROVE  LogBacksAnswers'
<1> USE DEF LogBacksAnswers
<1> DEFINE p == payload[s]
<1>1. p \in PaymentEvent /\ p.event_id \in EventId /\ pc[s] = "respond"
  BY DEF Respond, TypeInv, ServesAPayload, PaymentEvent
<1>2. /\ UNCHANGED tables
      /\ pc'[s] = "idle"
      /\ \A r \in Session \ {s} : /\ pc'[r] = pc[r] /\ outcome'[r] = outcome[r]
                                  /\ payload'[r] = payload[r]
  BY DEF Respond, Goto, TypeInv, TypeOK
<1>3. RowsHaveEvents'
  BY <1>2 DEF RowsHaveEvents, tables
<1>4. RefusalIsBacked'
  BY <1>2 DEF RefusalIsBacked, Answering, Contract!Related, tables
<1>5. CASE outcome[s] = "accepted"
  <2>1. /\ acknowledged[p.event_id] = 0 /\ p.event_id \in Logged
        /\ \A r \in Session \ {s} : Answering(r, "accepted")
                                      => payload[r].event_id # p.event_id
    BY <1>1, <1>5 DEF AcceptanceIsBacked, Answering, Logged
  <2>2. acknowledged' = [acknowledged EXCEPT ![p.event_id] = 1]
    BY <1>5, <2>1 DEF Respond
  <2>3. AcceptedOnceAndLogged'
    BY <1>1, <1>2, <2>1, <2>2 DEF AcceptedOnceAndLogged, Logged, tables, TypeInv, TypeOK
  <2>4. ASSUME NEW r \in Session \ {s}, Answering(r, "accepted")
        PROVE  acknowledged'[payload[r].event_id] = 0
    <3>1. payload[r].event_id \in EventId
      BY <2>4 DEF Answering, TypeInv, ServesAPayload, PaymentEvent
    <3> QED
      BY <2>1, <2>2, <2>4, <3>1 DEF AcceptanceIsBacked, TypeInv, TypeOK
  <2>5. AcceptanceIsBacked'
    BY <1>2, <2>4 DEF AcceptanceIsBacked, Answering, tables
  <2> QED
    BY <1>3, <1>4, <2>3, <2>5
<1>6. CASE outcome[s] # "accepted"
  <2>1. acknowledged' = acknowledged
    BY <1>6 DEF Respond
  <2> QED
    BY <1>2, <1>3, <1>4, <2>1
    DEF AcceptedOnceAndLogged, AcceptanceIsBacked, Answering, Logged, tables
<1> QED
  BY <1>5, <1>6

LEMMA CrashKeepsAnswers ==
    ASSUME LogBacksAnswers, Crash
    PROVE  LogBacksAnswers'
BY DEF Crash, tables, answers, LogBacksAnswers, AcceptanceIsBacked, RefusalIsBacked,
       RowsHaveEvents, AcceptedOnceAndLogged, Answering, Logged, Contract!Related

LEMMA LogBacksAnswersInit == Init => LogBacksAnswers
BY DEF Init, LogBacksAnswers, AcceptanceIsBacked, RefusalIsBacked, RowsHaveEvents,
       AcceptedOnceAndLogged, Answering, Nobody, Logged

LEMMA AnswersBackedInit == Init => AnswersAreBacked
BY LogBacksAnswersInit, SessionAssumption
DEF Init, AnswersAreBacked, LogBacksAnswers, LockIsHeldToWrite, ServesAPayload, HolderIsNew,
    Nobody, Logged

\* Under the lock of SQLite the event of a commit is new, because it was when the lock was
\* taken.
LEMMA AnswersBackedStep == TypeInv /\ AnswersAreBacked /\ [Next]_vars => AnswersAreBacked'
<1> SUFFICES ASSUME TypeInv, AnswersAreBacked, [Next]_vars
             PROVE  LogBacksAnswers' /\ HolderIsNew'
  BY LockInvStep, TypeInvStep DEF LockInv, TypeInv, AnswersAreBacked, LogBacksAnswers
<1>1. LogBacksAnswers /\ LockIsHeldToWrite /\ HolderIsNew
  BY DEF AnswersAreBacked, LogBacksAnswers
<1>2. ASSUME NEW s \in Session,
             \/ \E p \in Inbox[s] : Receive(s, p)
             \/ GetMerchant(s) \/ GetTransaction(s) \/ LoadReconciliation(s)
             \/ SelectReconciliation(s)
      PROVE  LogBacksAnswers' /\ HolderIsNew'
  <2>1. UNCHANGED <<tables, lock, outcome, answers>>
    BY <1>2 DEF Receive, GetMerchant, GetTransaction, LoadReconciliation,
                SelectReconciliation
  <2>2. \A r \in Session : /\ lock = r => payload'[r] = payload[r]
                           /\ pc'[r] = "respond" => pc[r] = "respond"
                                                    /\ payload'[r] = payload[r]
    BY <1>1, <1>2 DEF Receive, GetMerchant, GetTransaction, LoadReconciliation,
                SelectReconciliation, Goto, LockIsHeldToWrite, TypeInv, TypeOK
  <2>3. HolderIsNew'
    BY <1>1, <2>1, <2>2 DEF HolderIsNew, Logged, tables
  <2> QED
    BY <1>1, <2>1, <2>2, <2>3, QuietKeepsAnswers
<1>3. ASSUME NEW s \in Session, Flush(s)
      PROVE  LogBacksAnswers' /\ HolderIsNew'
  <2>1. /\ UNCHANGED <<tables, payload, outcome, answers>>
        /\ lock' = s /\ payload[s].event_id \notin Logged
        /\ \A r \in Session : pc'[r] = "respond" => pc[r] = "respond"
    BY <1>3 DEF Flush, UniqueViolation, Goto, TypeInv, TypeOK
  <2> QED
    BY <1>1, <2>1, QuietKeepsAnswers DEF HolderIsNew, Logged, tables
<1>4. ASSUME NEW s \in Session, FlushRejected(s)
      PROVE  LogBacksAnswers' /\ HolderIsNew'
  <2>1. /\ UNCHANGED <<tables, payload, answers>> /\ Finish(s, "duplicate")
        /\ lock' = None
    BY <1>4 DEF FlushRejected, Finish
  <2>2. Contract!Related(payload[s])
    BY <1>1, <1>4, CollisionIsRelated
    DEF FlushRejected, UniqueViolation, TypeInv, ServesAPayload, LogBacksAnswers
  <2> QED
    BY <1>1, <2>1, <2>2, RefusalKeepsAnswers, SessionAssumption DEF HolderIsNew
<1>5. ASSUME NEW s \in Session, Raise(s)
      PROVE  LogBacksAnswers' /\ HolderIsNew'
  <2>1. /\ UNCHANGED <<tables, payload, answers>> /\ Finish(s, "error")
        /\ lock' \in {lock, None}
    BY <1>5 DEF Raise, Finish
  <2> QED
    BY <1>1, <2>1, ErrorKeepsAnswers, SessionAssumption DEF HolderIsNew, Logged, tables
<1>6. ASSUME NEW s \in Session, Commit(s)
      PROVE  LogBacksAnswers' /\ HolderIsNew'
  <2>1. lock = s /\ payload[s].event_id \notin Logged
    BY <1>1, <1>6 DEF Commit, LockIsHeldToWrite, HolderIsNew
  <2>2. lock' = None
    BY <1>6, <2>1 DEF Commit, Finish
  <2> QED
    BY <1>1, <1>6, <2>1, <2>2, CommitKeepsAnswers, SessionAssumption DEF HolderIsNew
<1>7. ASSUME NEW s \in Session, Respond(s)
      PROVE  LogBacksAnswers' /\ HolderIsNew'
  <2>1. /\ UNCHANGED <<tables, lock>> /\ lock # s
        /\ \A r \in Session \ {s} : payload'[r] = payload[r]
    BY <1>1, <1>7 DEF Respond, LockIsHeldToWrite, TypeInv, TypeOK
  <2> QED
    BY <1>1, <1>7, <2>1, RespondKeepsAnswers DEF HolderIsNew, Logged, tables
<1>8. CASE Crash
  BY <1>1, <1>8, CrashKeepsAnswers, SessionAssumption DEF Crash, HolderIsNew
<1>9. CASE UNCHANGED vars
  BY <1>1, <1>9, QuietKeepsAnswers DEF vars, tables, locals, HolderIsNew, Logged
<1> QED
  BY <1>2, <1>3, <1>4, <1>5, <1>6, <1>7, <1>8, <1>9 DEF Next, Step

AnswersInv == TypeInv /\ AnswersAreBacked

LEMMA AnswersInvAlways == Spec => []AnswersInv
<1>1. Init => AnswersInv
  BY TypeInvInit, AnswersBackedInit DEF AnswersInv
<1>2. AnswersInv /\ [Next]_vars => AnswersInv'
  BY TypeInvStep, AnswersBackedStep DEF AnswersInv
<1> QED
  BY <1>1, <1>2, PTL DEF Spec

\* However many requests run at once, fail or die with the process, every answer on
\* its way is one the log justifies.
THEOREM AnswersStayBacked == Spec => []AnswersAreBacked
<1>1. AnswersInv => AnswersAreBacked
  BY DEF AnswersInv
<1> QED
  BY <1>1, AnswersInvAlways, PTL

\* A client that was told "accepted" finds its event in the log, and is told so at
\* most once for an event_id.
THEOREM AcceptedEventsStayLogged == Spec => []AcceptedOnceAndLogged
<1>1. AnswersInv => AcceptedOnceAndLogged
  BY DEF AnswersInv, AnswersAreBacked, LogBacksAnswers
<1> QED
  BY <1>1, AnswersInvAlways, PTL

-----------------------------------------------------------------------------
(* The contract: every step of the service is one of IngestContract or none. *)

LEMMA ContractInitially == Init => Contract!ContractInit
BY DEF Init, Contract!ContractInit

\* A step on no table and no answer is none of the contract's.
LEMMA ContractSeesNothing ==
    ASSUME UNCHANGED <<tables, answers>>
    PROVE  UNCHANGED Contract!contract_vars
BY DEF tables, answers, Contract!contract_vars

LEMMA CommitIsLogged ==
    ASSUME TypeInv, NEW s \in Session, Commit(s), payload[s].event_id \notin Logged
    PROVE  Contract!ContractNext
<1>1. payload[s] \in PaymentEvent
  BY DEF Commit, TypeInv, ServesAPayload
<1>2. Contract!Log(payload[s])
  BY <1>1 DEF Commit, answers, Logged, Contract!Log, Contract!InLog
<1> QED
  BY <1>1, <1>2 DEF Contract!ContractNext, Contract!PaymentEvent, PaymentEvent,
                    Contract!EventType, EventType

LEMMA RespondAnswers ==
    ASSUME TypeInv, LogBacksAnswers, NEW s \in Session, Respond(s)
    PROVE  Contract!ContractNext \/ UNCHANGED Contract!contract_vars
<1>1. payload[s] \in PaymentEvent
  BY DEF Respond, TypeInv, ServesAPayload
<1>2. CASE outcome[s] = "accepted"
  <2>1. /\ acknowledged[payload[s].event_id] = 0
        /\ \E i \in DOMAIN payment_events : payment_events[i] = payload[s]
    BY <1>2 DEF Respond, LogBacksAnswers, AcceptanceIsBacked, Answering
  <2>2. Contract!Acknowledge(payload[s])
    BY <1>2, <2>1 DEF Respond, tables, Contract!Acknowledge
  <2> QED
    BY <1>1, <2>2 DEF Contract!ContractNext, Contract!PaymentEvent, PaymentEvent,
                      Contract!EventType, EventType
<1>3. CASE outcome[s] = "duplicate"
  <2>1. Contract!Related(payload[s])
    BY <1>3 DEF Respond, LogBacksAnswers, RefusalIsBacked, Answering
  <2>2. Contract!Refuse(payload[s])
    BY <1>3, <2>1 DEF Respond, tables, Contract!Refuse
  <2> QED
    BY <1>1, <2>2 DEF Contract!ContractNext, Contract!PaymentEvent, PaymentEvent,
                      Contract!EventType, EventType
<1>4. CASE outcome[s] \notin {"accepted", "duplicate"}
  BY <1>4 DEF Respond, tables, Contract!contract_vars
<1> QED
  BY <1>2, <1>3, <1>4

LEMMA ContractStep ==
    AnswersInv /\ [Next]_vars => [Contract!ContractNext]_(Contract!contract_vars)
<1> SUFFICES ASSUME AnswersInv, [Next]_vars
             PROVE  Contract!ContractNext \/ UNCHANGED Contract!contract_vars
  OBVIOUS
<1>1. TypeInv /\ LogBacksAnswers /\ LockIsHeldToWrite /\ HolderIsNew
  BY DEF AnswersInv, AnswersAreBacked, LogBacksAnswers
<1>2. ASSUME NEW s \in Session,
             \/ \E p \in Inbox[s] : Receive(s, p)
             \/ GetMerchant(s) \/ GetTransaction(s) \/ LoadReconciliation(s)
             \/ Flush(s) \/ FlushRejected(s) \/ SelectReconciliation(s) \/ Raise(s)
      PROVE  UNCHANGED Contract!contract_vars
  BY <1>2, ContractSeesNothing
  DEF Receive, GetMerchant, GetTransaction, LoadReconciliation, Flush, FlushRejected,
      SelectReconciliation, Raise
<1>3. ASSUME NEW s \in Session, Commit(s)
      PROVE  Contract!ContractNext
  BY <1>1, <1>3, CommitIsLogged DEF Commit, LockIsHeldToWrite, HolderIsNew
<1>4. ASSUME NEW s \in Session, Respond(s)
      PROVE  Contract!ContractNext \/ UNCHANGED Contract!contract_vars
  BY <1>1, <1>4, RespondAnswers
<1>5. CASE Crash
  BY <1>5, ContractSeesNothing DEF Crash
<1>6. CASE UNCHANGED vars
  BY <1>6, ContractSeesNothing DEF vars
<1> QED
  BY <1>2, <1>3, <1>4, <1>5, <1>6 DEF Next, Step

\* What clients may rely on holds for every interleaving, error and crash: the service
\* implements its contract.
THEOREM ContractIsImplemented == Spec => ImplementsContract
<1> QED
  BY ContractInitially, ContractStep, AnswersInvAlways, PTL
  DEF Spec, ImplementsContract, Contract!ContractSpec

-----------------------------------------------------------------------------
(* What the stored rows say of the log, and that no interleaving of         *)
(* sessions makes them say more.  The lemmas do not mention the write lock: *)
(* they hold of every step that loads rows and of every commit that is      *)
(* fresh, and whatever keeps commits fresh may use them.  First, the        *)
(* invariant.                                                               *)

\* A session that has not looked, or has finished, holds no merchant; one that found
\* the merchant finds it stored as long as it runs.
HoldsStoredMerchant ==
    \A s \in Session :
        /\ pc[s] \in {"idle", "get_merchant", "respond"} => merchant[s] = None
        /\ merchant[s] # None => merchants[payload[s].merchant_id] # None

\* The log of t has an event that gives this status.
StatusLogged(t, status) ==
    \E i \in Positions(t) : EVENT_TO_STATUS[payment_events[i].event_type] = status

\* The columns a session computes from, however old the rows it loaded are by now, are
\* backed by the log as stored ones are.
LoadedRowsAreBacked ==
    \A s \in Session :
        LET t == payload[s].transaction_id
        IN  /\ transaction[s] # None => StatusLogged(t, transaction[s].current_status)
            /\ recon[s] # None =>
                  /\ recon[s].settlement_status = "settled" => StatusLogged(t, "settled")
                  /\ recon[s].settled_at # None => recon[s].settled_at \in Logged

TablesInv ==
    /\ RowsComplete /\ StatusHasEvent /\ SettlementHasEvent /\ FlagHasEvidence
    /\ HoldsStoredMerchant /\ LoadedRowsAreBacked

\* The event that session s is about to commit is not logged, and if the session found
\* no transaction there is still none.
FreshCommit(s) ==
    /\ payload[s].event_id \notin Logged
    /\ transaction[s] = None => transactions[payload[s].transaction_id] = None

\* After a step, a row variable of session s is the row it was, or the one that is stored
\* under the key of the request it serves, or none.
KeptOrLoaded(s, row, stored, new) ==
    new = None \/ (pc[s] # "idle" /\ payload'[s] = payload[s] /\ new \in {row, stored})

\* A step on no table after which a session holds no row but one it held or one that is
\* stored.
LoadsRows ==
    /\ UNCHANGED tables
    /\ \A s \in Session :
          LET p == payload[s]
          IN  /\ pc'[s] \in {"idle", "get_merchant", "respond"} => merchant'[s] = None
              /\ KeptOrLoaded(s, merchant[s], merchants[p.merchant_id], merchant'[s])
              /\ KeptOrLoaded(s, transaction[s], transactions[p.transaction_id], transaction'[s])
              /\ KeptOrLoaded(s, recon[s], reconciliation[p.transaction_id], recon'[s])

-----------------------------------------------------------------------------
(* Steps that load rows.                                                    *)

\* The key of a session that serves a request.
LEMMA KeysOfPayload ==
    ASSUME NEW p \in PaymentEvent
    PROVE  /\ p.event_id \in EventId /\ p.event_type \in EventType
           /\ p.transaction_id \in TransactionId
           /\ p.merchant_id \in MerchantId /\ p.merchant_name \in MerchantName
BY DEF PaymentEvent

\* What stored rows say of the log, loaded ones may say too.
LEMMA StoredRowsAreBacked ==
    ASSUME TablesInv, TypeInv, NEW t \in TransactionId
    PROVE  /\ transactions[t] # None => StatusLogged(t, transactions[t].current_status)
           /\ reconciliation[t] # None =>
                 /\ reconciliation[t].settlement_status = "settled"
                       => StatusLogged(t, "settled")
                 /\ reconciliation[t].settled_at # None
                       => reconciliation[t].settled_at \in Logged
<1>1. transactions[t] # None => StatusLogged(t, transactions[t].current_status)
  BY DEF TablesInv, StatusHasEvent, StatusLogged
<1>2. ASSUME reconciliation[t] # None, reconciliation[t].settled_at # None
      PROVE  StatusLogged(t, "settled") /\ reconciliation[t].settled_at \in Logged
  <2>1. PICK j \in Positions(t) : /\ payment_events[j].event_type = "settled"
                                  /\ payment_events[j].event_id = reconciliation[t].settled_at
    BY <1>2 DEF TablesInv, SettlementHasEvent
  <2>2. EVENT_TO_STATUS["settled"] = "settled"
    BY DEF EVENT_TO_STATUS
  <2> QED
    BY <2>1, <2>2 DEF StatusLogged, Logged, Positions
<1> QED
  BY <1>1, <1>2 DEF TablesInv, SettlementHasEvent

\* What is stored stays, and what a session has loaded was stored: nothing new is said.
LEMMA LoadsRowsKeepsTables ==
    ASSUME TypeInv, TablesInv, LoadsRows
    PROVE  TablesInv'
<1>1. UNCHANGED <<merchants, transactions, payment_events, reconciliation>>
  BY DEF LoadsRows, tables
<1>2. /\ \A t \in TransactionId : Positions(t)' = Positions(t)
      /\ Logged' = Logged
      /\ \A t, status : StatusLogged(t, status)' <=> StatusLogged(t, status)
  BY <1>1 DEF Positions, Logged, StatusLogged
<1>3. RowsComplete' /\ StatusHasEvent' /\ SettlementHasEvent' /\ FlagHasEvidence'
  BY <1>1 DEF TablesInv, RowsComplete, StatusHasEvent, SettlementHasEvent,
                    FlagHasEvidence, Evidence, Positions
<1>4. HoldsStoredMerchant'
  BY <1>1 DEF TablesInv, HoldsStoredMerchant, LoadsRows, KeptOrLoaded
<1>5. LoadedRowsAreBacked'
  <2> SUFFICES ASSUME NEW s \in Session
               PROVE  LET t == payload'[s].transaction_id
                      IN  /\ transaction'[s] # None
                                => StatusLogged(t, transaction'[s].current_status)
                          /\ recon'[s] # None =>
                                /\ recon'[s].settlement_status = "settled"
                                      => StatusLogged(t, "settled")
                                /\ recon'[s].settled_at # None => recon'[s].settled_at \in Logged
    BY <1>2 DEF LoadedRowsAreBacked
  <2> DEFINE t == payload[s].transaction_id
  <2>1. CASE transaction'[s] = None /\ recon'[s] = None
    BY <2>1
  <2>2. CASE transaction'[s] # None \/ recon'[s] # None
    <3>1. payload'[s] = payload[s] /\ payload[s] \in PaymentEvent /\ t \in TransactionId
      BY <2>2, KeysOfPayload DEF LoadsRows, KeptOrLoaded, TypeInv, ServesAPayload
    <3>2. /\ transaction'[s] \in {None, transaction[s], transactions[t]}
          /\ recon'[s] \in {None, recon[s], reconciliation[t]}
      BY DEF LoadsRows, KeptOrLoaded
    <3>3. /\ transaction[s] # None => StatusLogged(t, transaction[s].current_status)
          /\ recon[s] # None =>
                /\ recon[s].settlement_status = "settled" => StatusLogged(t, "settled")
                /\ recon[s].settled_at # None => recon[s].settled_at \in Logged
      BY DEF TablesInv, LoadedRowsAreBacked
    <3> HIDE DEF t
    <3>4. /\ transactions[t] # None => StatusLogged(t, transactions[t].current_status)
          /\ reconciliation[t] # None =>
                /\ reconciliation[t].settlement_status = "settled"
                      => StatusLogged(t, "settled")
                /\ reconciliation[t].settled_at # None
                      => reconciliation[t].settled_at \in Logged
      BY <3>1, StoredRowsAreBacked
    <3>5. t = payload'[s].transaction_id
      BY <3>1 DEF t
    <3>6. transaction'[s] # None => StatusLogged(t, transaction'[s].current_status)
      BY <3>2, <3>3, <3>4
    <3>7. recon'[s] # None =>
                /\ recon'[s].settlement_status = "settled" => StatusLogged(t, "settled")
                /\ recon'[s].settled_at # None => recon'[s].settled_at \in Logged
      BY <3>2, <3>3, <3>4
    <3> QED
      BY <3>5, <3>6, <3>7
  <2> QED
    BY <2>1, <2>2
<1> QED
  BY <1>3, <1>4, <1>5 DEF TablesInv

\* The statements that read, the first flush, an answer and a request load rows or drop
\* them.
LEMMA ReadsLoadRows ==
    ASSUME TypeInv, HoldsStoredMerchant, NEW s \in Session,
           \/ \E p \in Inbox[s] : Receive(s, p)
           \/ GetMerchant(s) \/ GetTransaction(s) \/ LoadReconciliation(s)
           \/ Flush(s) \/ SelectReconciliation(s) \/ Respond(s)
    PROVE  LoadsRows
<1> USE DEF TypeInv, TypeOK, HoldsStoredRows, HoldsStoredMerchant, LoadsRows, KeptOrLoaded,
            Goto
<1>1. CASE \E p \in Inbox[s] : Receive(s, p)
  BY <1>1 DEF Receive
<1>2. CASE GetMerchant(s)
  BY <1>2 DEF GetMerchant
<1>3. CASE GetTransaction(s)
  BY <1>3 DEF GetTransaction
<1>4. CASE LoadReconciliation(s)
  BY <1>4 DEF LoadReconciliation
<1>5. CASE Flush(s)
  BY <1>5 DEF Flush
<1>6. CASE SelectReconciliation(s)
  BY <1>6 DEF SelectReconciliation
<1>7. CASE Respond(s)
  BY <1>7 DEF Respond
<1> QED
  BY <1>1, <1>2, <1>3, <1>4, <1>5, <1>6, <1>7

\* A session that ends without a commit drops its rows.
LEMMA EndDropsRows ==
    ASSUME TypeInv, HoldsStoredMerchant, NEW s \in Session, NEW o,
           Finish(s, o), UNCHANGED <<tables, payload>>
    PROVE  LoadsRows
BY DEF TypeInv, TypeOK, HoldsStoredRows, HoldsStoredMerchant, LoadsRows, KeptOrLoaded,
       Finish, Goto

LEMMA CrashDropsRows ==
    ASSUME Crash
    PROVE  LoadsRows
BY DEF Crash, Nobody, LoadsRows, KeptOrLoaded

LEMMA StutterLoadsRows ==
    ASSUME TypeInv, HoldsStoredMerchant, UNCHANGED <<tables, locals>>
    PROVE  LoadsRows
BY DEF TypeInv, HoldsStoredRows, HoldsStoredMerchant, LoadsRows, KeptOrLoaded, locals

-----------------------------------------------------------------------------
(* The commit.                                                              *)

\* A commit adds one position to the log, the last, to those of its transaction.
LEMMA CommitAddsPosition ==
    ASSUME TypeInv, NEW s \in Session, NEW p \in PaymentEvent, payload[s] = p, Commit(s)
    PROVE  LET n == Len(payment_events) + 1
           IN  /\ payment_events'[n] = p
               /\ \A t \in TransactionId : \A i \in Positions(t) :
                     i < n /\ i \in Nat /\ payment_events'[i] = payment_events[i]
               /\ Positions(p.transaction_id)' = Positions(p.transaction_id) \cup {n}
               /\ \A t \in TransactionId \ {p.transaction_id} : Positions(t)' = Positions(t)
               /\ Logged' = Logged \cup {p.event_id}
               /\ \A t \in TransactionId : \A status : StatusLogged(t, status)
                     => StatusLogged(t, status)'
               /\ StatusLogged(p.transaction_id, EVENT_TO_STATUS[p.event_type])'
<1> DEFINE n == Len(payment_events) + 1
<1>1. payment_events \in Seq(PaymentEvent) /\ p.transaction_id \in TransactionId
  BY KeysOfPayload DEF TypeInv, TypeOK
<1>2. payment_events' = Append(payment_events, p)
  BY DEF Commit
<1>3. /\ DOMAIN payment_events' = DOMAIN payment_events \cup {n}
      /\ \A i \in DOMAIN payment_events : payment_events'[i] = payment_events[i]
      /\ payment_events'[n] = p
      /\ DOMAIN payment_events = 1..Len(payment_events)
      /\ Len(payment_events) \in Nat
  BY <1>1, <1>2, AppendEvent
<1> HIDE DEF n
<1>4. \A t \in TransactionId : \A i \in Positions(t) :
         i < n /\ i \in Nat /\ payment_events'[i] = payment_events[i]
  BY <1>3 DEF Positions, n
<1>5. \A t \in TransactionId :
         Positions(t)' = {i \in DOMAIN payment_events \cup {n} :
                             payment_events'[i].transaction_id = t}
  BY <1>3 DEF Positions
<1>6. Positions(p.transaction_id)' = Positions(p.transaction_id) \cup {n}
  BY <1>1, <1>3, <1>5 DEF Positions
<1>7. \A t \in TransactionId \ {p.transaction_id} : Positions(t)' = Positions(t)
  BY <1>3, <1>5 DEF Positions
<1>8. Logged' = Logged \cup {p.event_id}
  BY CommitExtendsLog
<1>9. \A t \in TransactionId : Positions(t) \subseteq Positions(t)'
  BY <1>6, <1>7
<1>10. \A t \in TransactionId : \A status : StatusLogged(t, status) => StatusLogged(t, status)'
  BY <1>4, <1>9 DEF StatusLogged
<1>11. StatusLogged(p.transaction_id, EVENT_TO_STATUS[p.event_type])'
  BY <1>3, <1>6 DEF StatusLogged
<1> QED
  BY <1>3, <1>4, <1>6, <1>7, <1>8, <1>10, <1>11 DEF n

\* A commit leaves no merchant out, whatever name the session had loaded.
LEMMA CommitStoresMerchant ==
    ASSUME TypeInv, HoldsStoredMerchant, NEW s \in Session, NEW p \in PaymentEvent,
           payload[s] = p, Commit(s)
    PROVE  /\ merchants'[p.merchant_id] # None
           /\ \A m \in MerchantId : merchants[m] # None => merchants'[m] # None
<1>1. p.merchant_id \in MerchantId /\ p.merchant_name # None
  BY KeysOfPayload, NoneAssumption
<1>2. merchant[s] # None => merchants[p.merchant_id] # None
  BY DEF HoldsStoredMerchant
<1>3. merchants' = [merchants EXCEPT ![p.merchant_id] =
                       Column(@, merchant[s], p.merchant_name)]
  BY DEF Commit
<1> QED
  BY <1>1, <1>2, <1>3 DEF Column, TypeInv, TypeOK

LEMMA CommitKeepsRowsComplete ==
    ASSUME TypeInv, TablesInv, NEW s \in Session, NEW p \in PaymentEvent,
           payload[s] = p, Commit(s)
    PROVE  RowsComplete'
<1> DEFINE n == Len(payment_events) + 1
           t0 == p.transaction_id
<1>1. t0 \in TransactionId
  BY KeysOfPayload
<1>2. /\ payment_events \in Seq(PaymentEvent)
      /\ payment_events' = Append(payment_events, p)
  BY DEF TypeInv, TypeOK, Commit
<1>3. ASSUME NEW i \in DOMAIN payment_events'
      PROVE  merchants'[payment_events'[i].merchant_id] # None
  <2>1. /\ merchants'[p.merchant_id] # None
        /\ \A m \in MerchantId : merchants[m] # None => merchants'[m] # None
    BY CommitStoresMerchant DEF TablesInv
  <2>2. CASE i = n
    BY <1>2, <2>1, <2>2
  <2>3. CASE i # n
    <3>1. i \in DOMAIN payment_events /\ payment_events'[i] = payment_events[i]
      BY <1>2, <1>3, <2>3
    <3>2. payment_events[i].merchant_id \in MerchantId
      BY <1>2, <3>1, KeysOfPayload
    <3>3. merchants[payment_events[i].merchant_id] # None
      BY <3>1 DEF TablesInv, RowsComplete
    <3> QED
      BY <2>1, <3>1, <3>2, <3>3
  <2> QED
    BY <2>2, <2>3
<1>4. ASSUME NEW t \in TransactionId
      PROVE  /\ (transactions'[t] # None) <=> (Positions(t)' # {})
             /\ (reconciliation'[t] # None) <=> (Positions(t)' # {})
  <2>1. CASE t = t0
    BY <2>1, CommitWritesRows, CommitAddsPosition
  <2>2. CASE t # t0
    <3>1. /\ transactions'[t] = transactions[t] /\ reconciliation'[t] = reconciliation[t]
          /\ Positions(t)' = Positions(t)
      BY <1>1, <2>2, CommitWritesRows, CommitAddsPosition
    <3> QED
      BY <3>1 DEF TablesInv, RowsComplete
  <2> QED
    BY <2>1, <2>2
<1> QED
  BY <1>3, <1>4 DEF RowsComplete

\* The status rule gives a status of the event or of the row.
LEMMA UpsertTransactionStatus ==
    ASSUME NEW row \in Transaction \cup {None}, NEW p \in PaymentEvent
    PROVE  LET new == UpsertTransaction(row, p)
               status == EVENT_TO_STATUS[p.event_type]
           IN  /\ new.current_status = status \/ (row # None /\ new.current_status = row.current_status)
               /\ row = None => new = [merchant_id |-> p.merchant_id, current_status |-> status]
<1>1. CASE row = None
  BY <1>1 DEF UpsertTransaction
<1>2. CASE row # None
  BY <1>2 DEF UpsertTransaction, Transaction
<1> QED
  BY <1>1, <1>2

LEMMA CommitKeepsStatus ==
    ASSUME TypeInv, TablesInv, NEW s \in Session, NEW p \in PaymentEvent,
           payload[s] = p, Commit(s), FreshCommit(s)
    PROVE  StatusHasEvent'
<1> SUFFICES ASSUME NEW t \in TransactionId, transactions'[t] # None
             PROVE  /\ StatusLogged(t, transactions[t].current_status)'
                    /\ \E i \in Positions(t)' :
                          /\ \A j \in Positions(t)' : i <= j
                          /\ transactions'[t].merchant_id = payment_events'[i].merchant_id
  BY DEF StatusHasEvent, StatusLogged
<1> DEFINE n == Len(payment_events) + 1
           t0 == p.transaction_id
           row == UpsertTransaction(transaction[s], p)
<1>1. t0 \in TransactionId
  BY KeysOfPayload
<1>2. CASE t # t0
  <2>1. transactions'[t] = transactions[t] /\ Positions(t)' = Positions(t)
        /\ \A i \in Positions(t) : payment_events'[i] = payment_events[i]
    BY <1>1, <1>2, CommitWritesRows, CommitAddsPosition
  <2>2. StatusLogged(t, transactions[t].current_status)
    BY <2>1 DEF TablesInv, StatusHasEvent, StatusLogged
  <2>3. StatusLogged(t, transactions[t].current_status)'
    BY <2>1, <2>2 DEF StatusLogged
  <2> QED
    BY <2>1, <2>3 DEF TablesInv, StatusHasEvent
<1>3. CASE t = t0
  <2>1. /\ transaction[s] \in Transaction \cup {None}
        /\ transactions[t] \in Transaction \cup {None}
        /\ transaction[s] # None => transactions[t] # None
        /\ transaction[s] = None => transactions[t] = None
    BY <1>3 DEF TypeInv, TypeOK, HoldsStoredRows, FreshCommit
  <2>2. transactions'[t] = WriteTransaction(transactions[t], transaction[s], row)
    BY <1>1, <1>3 DEF Commit, TypeInv, TypeOK
  <2>3. /\ payment_events'[n] = p
        /\ \A i \in Positions(t) : i <= n /\ i \in Nat /\ payment_events'[i] = payment_events[i]
        /\ Positions(t)' = Positions(t) \cup {n}
        /\ \A status : StatusLogged(t, status) => StatusLogged(t, status)'
        /\ StatusLogged(t, EVENT_TO_STATUS[p.event_type])'
    BY <1>1, <1>3, CommitAddsPosition
  <2>4. n \in Nat
    BY DEF TypeInv, TypeOK
  <2>5. CASE transaction[s] = None
    <3>1. Positions(t) = {}
      BY <2>1, <2>5 DEF TablesInv, RowsComplete
    <3>2. transactions'[t] = [merchant_id |-> p.merchant_id,
                              current_status |-> EVENT_TO_STATUS[p.event_type]]
      BY <2>1, <2>2, <2>5, UpsertTransactionStatus DEF WriteTransaction
    <3> QED
      BY <2>3, <2>4, <3>1, <3>2
  <2>6. CASE transaction[s] # None
    <3>1. transactions[t] # None /\ transactions[t] \in Transaction
      BY <2>1, <2>6
    <3>2. /\ transactions'[t].merchant_id = transactions[t].merchant_id
          /\ transactions'[t].current_status = Column(transactions[t].current_status,
                                        transaction[s].current_status, row.current_status)
      BY <2>2, <2>6, <3>1 DEF WriteTransaction, Transaction
    <3>3. transactions'[t].current_status \in {transactions[t].current_status,
                transaction[s].current_status, EVENT_TO_STATUS[p.event_type]}
      BY <2>1, <3>2, UpsertTransactionStatus DEF Column
    <3>4. /\ StatusLogged(t, transactions[t].current_status)
          /\ StatusLogged(t, transaction[s].current_status)
      BY <1>3, <2>6, <3>1 DEF TablesInv, StatusHasEvent, LoadedRowsAreBacked, StatusLogged
    <3>5. StatusLogged(t, transactions[t].current_status)'
      <4>1. ASSUME NEW status \in {transactions[t].current_status, transaction[s].current_status,
                                   EVENT_TO_STATUS[p.event_type]}
            PROVE  StatusLogged(t, status)'
        BY <2>3, <3>4, <4>1
      <4> QED
        BY <3>3, <4>1 DEF StatusLogged
    <3>6. PICK i \in Positions(t) : /\ \A j \in Positions(t) : i <= j
                                    /\ transactions[t].merchant_id = payment_events[i].merchant_id
      BY <3>1 DEF TablesInv, StatusHasEvent
    <3> QED
      BY <2>3, <2>4, <3>2, <3>5, <3>6
  <2> QED
    BY <2>5, <2>6
<1> QED
  BY <1>2, <1>3

-----------------------------------------------------------------------------
(* The commit: the reconciliation row.                                      *)

\* The conflict that the session finds between its event and the rows it has loaded.
ConflictFound(s) ==
    LET p == payload[s]
        current == UpsertTransaction(transaction[s], p).current_status
    IN  Conflict(StatusBefore(transaction[s], current), current, recon[s].settlement_status, p)

\* A session that loaded no reconciliation row writes the one a first event makes;
\* otherwise each column is the stored one or one the rules have just computed.
LEMMA CommitWritesColumns ==
    ASSUME TypeInv, NEW s \in Session, NEW p \in PaymentEvent, payload[s] = p, Commit(s)
    PROVE  LET t == p.transaction_id
               stored == reconciliation[t]
               new == reconciliation'[t]
               reason == ConflictFound(s)
               settles == p.event_type = "settled" /\ reason = None
           IN  /\ recon[s] = None => new = NewReconciliation(p)
               /\ recon[s] # None =>
                     /\ stored # None
                     /\ new.settlement_status \in {stored.settlement_status, "not_applicable"}
                          \/ settles
                     /\ new.settled_at = IF settles
                                         THEN Column(stored.settled_at, recon[s].settled_at,
                                                     p.event_id)
                                         ELSE stored.settled_at
                     /\ new.discrepancy_flag \in {stored.discrepancy_flag, reason # None}
                     /\ new.discrepancy_reason \in {stored.discrepancy_reason, reason}
<1> DEFINE t == p.transaction_id
           stored == reconciliation[t]
           new == reconciliation'[t]
           reason == ConflictFound(s)
           rec == UpsertReconciliation(recon[s], transaction[s], p)
<1>1. t \in TransactionId
  BY KeysOfPayload
<1>2. new = WriteReconciliation(stored, recon[s], rec)
  BY <1>1 DEF Commit, TypeInv, TypeOK
<1>3. CASE recon[s] = None
  BY <1>2, <1>3 DEF WriteReconciliation, UpsertReconciliation
<1>4. CASE recon[s] # None
  <2>1. stored # None
    BY <1>4 DEF TypeInv, HoldsStoredRows
  <2>2. rec = UpdateReconciliation(recon[s],
                  StatusBefore(transaction[s], UpsertTransaction(transaction[s], p).current_status),
                  UpsertTransaction(transaction[s], p).current_status, p)
    BY <1>4 DEF UpsertReconciliation
  <2>3. /\ rec.settlement_status = SettlementAfter(recon[s].settlement_status, reason, p)
        /\ rec.discrepancy_flag = (reason # None)
        /\ rec.discrepancy_reason = reason
        /\ rec.settled_at = IF p.event_type = "settled" /\ reason = None
                            THEN p.event_id ELSE recon[s].settled_at
    BY <2>2 DEF UpdateReconciliation, ConflictFound
  <2> HIDE DEF rec, reason
  <2>4. /\ new.settlement_status = Column(stored.settlement_status,
                                          recon[s].settlement_status, rec.settlement_status)
        /\ new.discrepancy_flag = Column(stored.discrepancy_flag,
                                         recon[s].discrepancy_flag, rec.discrepancy_flag)
        /\ new.discrepancy_reason = Column(stored.discrepancy_reason,
                                           recon[s].discrepancy_reason, rec.discrepancy_reason)
        /\ new.settled_at = Column(stored.settled_at, recon[s].settled_at, rec.settled_at)
    BY <1>2, <1>4 DEF WriteReconciliation
  <2> QED
    BY <1>4, <2>1, <2>3, <2>4 DEF Column, SettlementAfter, reason
<1> QED
  BY <1>3, <1>4

LEMMA CommitKeepsSettlement ==
    ASSUME TypeInv, TablesInv, NEW s \in Session, NEW p \in PaymentEvent,
           payload[s] = p, Commit(s), FreshCommit(s)
    PROVE  SettlementHasEvent'
<1> SUFFICES ASSUME NEW t \in TransactionId, reconciliation'[t] # None
             PROVE  /\ reconciliation'[t].settlement_status = "settled"
                          => reconciliation'[t].settled_at # None
                    /\ reconciliation'[t].settled_at # None =>
                          \E i, j \in Positions(t)' :
                              /\ i < j
                              /\ payment_events'[j].event_type = "settled"
                              /\ payment_events'[j].event_id = reconciliation'[t].settled_at
  BY DEF SettlementHasEvent
<1> DEFINE n == Len(payment_events) + 1
           t0 == p.transaction_id
<1>1. t0 \in TransactionId /\ p.event_id # None
  BY KeysOfPayload, NoneAssumption
<1>2. /\ payment_events'[n] = p
      /\ \A i \in Positions(t) : i < n /\ payment_events'[i] = payment_events[i]
      /\ Positions(t0)' = Positions(t0) \cup {n}
      /\ t # t0 => Positions(t)' = Positions(t)
  BY <1>1, CommitAddsPosition
\* What is stored is backed by events that are still there.
<1>3. reconciliation[t] # None =>
         /\ reconciliation[t].settlement_status = "settled" => reconciliation[t].settled_at # None
         /\ reconciliation[t].settled_at # None =>
               \E i, j \in Positions(t)' :
                   /\ i < j
                   /\ payment_events'[j].event_type = "settled"
                   /\ payment_events'[j].event_id = reconciliation[t].settled_at
  BY <1>1, <1>2 DEF TablesInv, SettlementHasEvent
<1>4. CASE t # t0
  <2>1. reconciliation'[t] = reconciliation[t]
    BY <1>4, CommitWritesRows
  <2> QED
    BY <1>3, <2>1
<1>5. CASE t = t0 /\ recon[s] = None
  <2>1. reconciliation'[t] = NewReconciliation(p)
    BY <1>5, CommitWritesColumns
  <2> QED
    BY <2>1 DEF NewReconciliation, InitialSettlement
<1>6. CASE t = t0 /\ recon[s] # None
  <2> DEFINE stored == reconciliation[t]
             new == reconciliation'[t]
             settles == p.event_type = "settled" /\ ConflictFound(s) = None
  <2>1. /\ stored # None
        /\ new.settlement_status \in {stored.settlement_status, "not_applicable"} \/ settles
        /\ new.settled_at = IF settles
                            THEN Column(stored.settled_at, recon[s].settled_at, p.event_id)
                            ELSE stored.settled_at
    BY <1>6, CommitWritesColumns
  <2>2. CASE settles
    <3>1. recon[s].settled_at # p.event_id
      BY <1>1, <1>6 DEF TablesInv, LoadedRowsAreBacked, FreshCommit
    <3>2. new.settled_at = p.event_id
      BY <2>1, <2>2, <3>1 DEF Column
    <3>3. PICK i \in Positions(t) : TRUE
      BY <2>1 DEF TablesInv, RowsComplete
    <3> QED
      BY <1>1, <1>2, <1>6, <2>2, <3>2, <3>3
  <2>3. CASE ~settles
    BY <1>3, <2>1, <2>3
  <2> QED
    BY <2>2, <2>3
<1> QED
  BY <1>4, <1>5, <1>6

\* A conflict that a session finds is with an event that is in the log, whatever was
\* committed since it looked.
LEMMA ConflictFoundIsEvident ==
    ASSUME TypeInv, TablesInv, NEW s \in Session, NEW p \in PaymentEvent,
           payload[s] = p, Commit(s), recon[s] # None,
           NEW reason, ConflictFound(s) = reason, reason # None
    PROVE  reason \in Conflicts /\ Evidence(p.transaction_id, reason)'
<1> DEFINE n == Len(payment_events) + 1
           t == p.transaction_id
           row == transaction[s]
           status == EVENT_TO_STATUS[p.event_type]
           current == UpsertTransaction(row, p).current_status
           previous == StatusBefore(row, current)
           settlement == recon[s].settlement_status
<1>1. t \in TransactionId /\ p.event_type \in EventType
  BY KeysOfPayload
<1>2. /\ payment_events'[n] = p
      /\ \A i \in Positions(t) : i < n /\ payment_events'[i] = payment_events[i]
      /\ Positions(t)' = Positions(t) \cup {n}
  BY <1>1, CommitAddsPosition
<1>3. /\ row \in Transaction \cup {None}
      /\ row # None => StatusLogged(t, row.current_status)
      /\ settlement = "settled" => StatusLogged(t, "settled")
  BY DEF TypeInv, TypeOK, TablesInv, LoadedRowsAreBacked
<1>4. /\ current = status \/ (row # None /\ current = row.current_status)
      /\ row = None => current = status
  BY <1>3, UpsertTransactionStatus
<1>5. previous = IF row = None THEN current ELSE row.current_status
  BY DEF StatusBefore
<1>6. ConflictFound(s) = Conflict(previous, current, settlement, p)
  BY DEF ConflictFound
\* An event of the log with that status, and the event of the session after it.
<1>7. ASSUME NEW earlier \in EventType, StatusLogged(t, EVENT_TO_STATUS[earlier]),
             ConflictingTypes(reason) = <<earlier, p.event_type>>
      PROVE  Evidence(t, reason)'
  <2>1. PICK i \in Positions(t) :
           EVENT_TO_STATUS[payment_events[i].event_type] = EVENT_TO_STATUS[earlier]
    BY <1>7 DEF StatusLogged
  <2>2. payment_events[i].event_type \in EventType
    BY KeysOfPayload DEF TypeInv, TypeOK, Positions
  <2>3. payment_events[i].event_type = earlier
    BY <1>7, <2>1, <2>2 DEF EventType, EVENT_TO_STATUS
  <2> QED
    BY <1>2, <1>7, <2>3 DEF Evidence
<1> HIDE DEF t, row, status, current, previous, settlement
<1>8. CASE p.event_type = "settled" /\ previous = "failed"
  <2>1. reason = "settled_after_failed"
    BY <1>6, <1>8 DEF Conflict
  <2>2. StatusLogged(t, "failed")
    BY <1>3, <1>4, <1>5, <1>8 DEF status, EVENT_TO_STATUS
  <2> QED
    BY <1>7, <1>8, <2>1, <2>2 DEF t, ConflictingTypes, Conflicts, EVENT_TO_STATUS, EventType
<1>9. CASE p.event_type = "payment_failed" /\ settlement = "settled"
  <2>1. reason = "failed_after_settled"
    BY <1>6, <1>9 DEF Conflict
  <2> QED
    BY <1>3, <1>7, <1>9, <2>1
       DEF t, ConflictingTypes, Conflicts, EVENT_TO_STATUS, EventType
<1>10. CASE p.event_type = "payment_processed" /\ current = "settled"
  <2>1. reason = "processed_after_settled"
    BY <1>6, <1>10 DEF Conflict
  <2>2. StatusLogged(t, "settled")
    BY <1>3, <1>4, <1>10 DEF status, EVENT_TO_STATUS
  <2> QED
    BY <1>7, <1>10, <2>1, <2>2 DEF t, ConflictingTypes, Conflicts, EVENT_TO_STATUS, EventType
<1> QED
  BY <1>6, <1>8, <1>9, <1>10 DEF Conflict

LEMMA CommitKeepsFlag ==
    ASSUME TypeInv, TablesInv, NEW s \in Session, NEW p \in PaymentEvent,
           payload[s] = p, Commit(s)
    PROVE  FlagHasEvidence'
<1> SUFFICES ASSUME NEW t \in TransactionId, reconciliation'[t] # None
             PROVE  /\ reconciliation'[t].discrepancy_flag
                          => \E reason \in Conflicts : Evidence(t, reason)'
                    /\ reconciliation'[t].discrepancy_reason # None =>
                          /\ reconciliation'[t].discrepancy_reason \in Conflicts
                          /\ Evidence(t, reconciliation[t].discrepancy_reason)'
  BY DEF FlagHasEvidence
<1> DEFINE t0 == p.transaction_id
<1>1. t0 \in TransactionId
  BY KeysOfPayload
<1>2. /\ \A i \in Positions(t) : payment_events'[i] = payment_events[i]
      /\ Positions(t) \subseteq Positions(t)'
  BY <1>1, CommitAddsPosition
<1>3. \A reason : Evidence(t, reason) => Evidence(t, reason)'
  BY <1>2 DEF Evidence
<1>4. reconciliation[t] # None =>
         /\ reconciliation[t].discrepancy_flag => \E reason \in Conflicts : Evidence(t, reason)
         /\ reconciliation[t].discrepancy_reason # None =>
               /\ reconciliation[t].discrepancy_reason \in Conflicts
               /\ Evidence(t, reconciliation[t].discrepancy_reason)
  BY DEF TablesInv, FlagHasEvidence
<1>5. ASSUME reconciliation'[t].discrepancy_reason # None
                => \E reason \in Conflicts : /\ reconciliation'[t].discrepancy_reason = reason
                                             /\ Evidence(t, reason)'
      PROVE  reconciliation'[t].discrepancy_reason # None =>
                          /\ reconciliation'[t].discrepancy_reason \in Conflicts
                          /\ Evidence(t, reconciliation[t].discrepancy_reason)'
  BY <1>5 DEF Evidence
<1>6. CASE t # t0
  <2>1. reconciliation'[t] = reconciliation[t]
    BY <1>6, CommitWritesRows
  <2> QED
    BY <1>3, <1>4, <1>5, <2>1
<1>7. CASE t = t0 /\ recon[s] = None
  <2>1. reconciliation'[t] = NewReconciliation(p)
    BY <1>7, CommitWritesColumns
  <2> QED
    BY <2>1 DEF NewReconciliation
<1>8. CASE t = t0 /\ recon[s] # None
  <2> DEFINE stored == reconciliation[t]
             new == reconciliation'[t]
  <2>1. PICK found : found = ConflictFound(s)
    OBVIOUS
  <2>2. /\ stored # None
        /\ new.discrepancy_flag \in {stored.discrepancy_flag, found # None}
        /\ new.discrepancy_reason \in {stored.discrepancy_reason, found}
    BY <1>8, <2>1, CommitWritesColumns
  <2>3. found # None => found \in Conflicts /\ Evidence(t, found)'
    BY <1>8, <2>1, ConflictFoundIsEvident
  <2>4. new.discrepancy_flag => \E reason \in Conflicts : Evidence(t, reason)'
    BY <1>3, <1>4, <2>2, <2>3
  <2>5. new.discrepancy_reason # None
           => \E reason \in Conflicts : new.discrepancy_reason = reason /\ Evidence(t, reason)'
    BY <1>3, <1>4, <2>2, <2>3
  <2> QED
    BY <1>5, <2>4, <2>5
<1> QED
  BY <1>6, <1>7, <1>8

\* Rows that other sessions hold are backed by events that are still in the log; the
\* session that commits drops its own.
LEMMA CommitKeepsLoaded ==
    ASSUME TypeInv, TablesInv, NEW s \in Session, NEW p \in PaymentEvent,
           payload[s] = p, Commit(s)
    PROVE  HoldsStoredMerchant' /\ LoadedRowsAreBacked'
<1>1. /\ payload' = payload
      /\ pc'[s] = "respond" /\ merchant'[s] = None /\ transaction'[s] = None /\ recon'[s] = None
      /\ \A r \in Session \ {s} : /\ pc'[r] = pc[r] /\ merchant'[r] = merchant[r]
                                  /\ transaction'[r] = transaction[r] /\ recon'[r] = recon[r]
  BY DEF Commit, Finish, Goto, TypeInv, TypeOK
<1>2. \A r \in Session : pc[r] # "idle" => /\ payload[r].merchant_id \in MerchantId
                                          /\ payload[r].transaction_id \in TransactionId
  BY KeysOfPayload DEF TypeInv, ServesAPayload
<1>3. HoldsStoredMerchant'
  <2>1. \A m \in MerchantId : merchants[m] # None => merchants'[m] # None
    BY CommitStoresMerchant DEF TablesInv
  <2> QED
    BY <1>1, <1>2, <2>1 DEF TablesInv, HoldsStoredMerchant
<1>4. LoadedRowsAreBacked'
  <2>1. /\ \A t \in TransactionId : \A status : StatusLogged(t, status) => StatusLogged(t, status)'
        /\ Logged \subseteq Logged'
    BY CommitAddsPosition
  <2>2. ASSUME NEW r \in Session \ {s}, NEW t \in TransactionId,
               NEW row, NEW rec, t = payload[r].transaction_id, row = transaction[r], rec = recon[r]
        PROVE  /\ row # None => StatusLogged(t, row.current_status)'
               /\ rec # None => /\ rec.settlement_status = "settled"
                                       => StatusLogged(t, "settled")'
                                /\ rec.settled_at # None => rec.settled_at \in Logged'
    BY <2>1, <2>2 DEF TablesInv, LoadedRowsAreBacked
  <2>3. \A r \in Session : transaction[r] # None \/ recon[r] # None
                              => payload[r].transaction_id \in TransactionId
    BY <1>2 DEF TypeInv, HoldsStoredRows
  <2> QED
    BY <1>1, <2>2, <2>3 DEF LoadedRowsAreBacked, StatusLogged
<1> QED
  BY <1>3, <1>4

\* A fresh commit keeps every part of the invariant.
LEMMA CommitKeepsTables ==
    ASSUME TypeInv, TablesInv, NEW s \in Session, Commit(s), FreshCommit(s)
    PROVE  TablesInv'
<1>1. PICK p \in PaymentEvent : payload[s] = p
  BY DEF Commit, TypeInv, ServesAPayload
<1> QED
  BY <1>1, CommitKeepsRowsComplete, CommitKeepsStatus, CommitKeepsSettlement,
     CommitKeepsFlag, CommitKeepsLoaded
  DEF TablesInv

-----------------------------------------------------------------------------
(* SQLite: the write lock keeps commits fresh.                              *)

\* No transaction appears that the session which holds the lock did not find.
HolderFoundAll ==
    \A s \in Session : lock = s /\ transaction[s] = None
                          => transactions[payload[s].transaction_id] = None

IngestInv == AnswersInv /\ TablesInv /\ HolderFoundAll

LEMMA IngestInvInit == Init => IngestInv
<1> SUFFICES ASSUME Init PROVE TablesInv /\ HolderFoundAll
  BY TypeInvInit, AnswersBackedInit DEF IngestInv, AnswersInv
<1>1. \A t \in TransactionId : Positions(t) = {}
  BY DEF Init, Positions
<1> QED
  BY <1>1, SessionAssumption
  DEF Init, Nobody, TablesInv, RowsComplete, StatusHasEvent, SettlementHasEvent,
      FlagHasEvidence, HoldsStoredMerchant, LoadedRowsAreBacked, HolderFoundAll

LEMMA IngestInvStep == IngestInv /\ [Next]_vars => IngestInv'
<1> SUFFICES ASSUME IngestInv, [Next]_vars
             PROVE  TablesInv' /\ HolderFoundAll'
  BY TypeInvStep, AnswersBackedStep DEF IngestInv, AnswersInv
<1>1. TypeInv /\ AnswersAreBacked /\ TablesInv /\ HoldsStoredMerchant /\ HolderFoundAll
  BY DEF IngestInv, AnswersInv, TablesInv
<1>2. ASSUME NEW s \in Session,
             \/ \E p \in Inbox[s] : Receive(s, p)
             \/ GetMerchant(s) \/ GetTransaction(s) \/ LoadReconciliation(s)
             \/ SelectReconciliation(s) \/ Respond(s)
      PROVE  TablesInv' /\ HolderFoundAll'
  <2>1. TablesInv'
    BY <1>1, <1>2, ReadsLoadRows, LoadsRowsKeepsTables
  <2>2. lock' = lock /\ transactions' = transactions
    BY <1>2 DEF Receive, GetMerchant, GetTransaction, LoadReconciliation,
                SelectReconciliation, Respond, tables
  <2>3. \A r \in Session : lock = r => transaction'[r] = transaction[r] /\ payload'[r] = payload[r]
    BY <1>1, <1>2
    DEF Receive, GetMerchant, GetTransaction, LoadReconciliation, SelectReconciliation,
        Respond, AnswersAreBacked, LockIsHeldToWrite, TypeInv, TypeOK
  <2> QED
    BY <1>1, <2>1, <2>2, <2>3 DEF HolderFoundAll
<1>3. ASSUME NEW s \in Session, Flush(s)
      PROVE  TablesInv' /\ HolderFoundAll'
  <2>1. TablesInv'
    BY <1>1, <1>3, ReadsLoadRows, LoadsRowsKeepsTables
  <2> QED
    BY <1>3, <2>1 DEF Flush, UniqueViolation, HolderFoundAll, tables
<1>4. ASSUME NEW s \in Session, FlushRejected(s) \/ Raise(s)
      PROVE  TablesInv' /\ HolderFoundAll'
  <2>1. UNCHANGED <<tables, payload>> /\ \E o : Finish(s, o)
    BY <1>4 DEF FlushRejected, Raise
  <2>2. TablesInv'
    BY <1>1, <2>1, EndDropsRows, LoadsRowsKeepsTables
  <2>3. \A r \in Session : lock' = r => lock = r /\ r # s
    BY <1>4, SessionAssumption DEF FlushRejected, Raise, Finish
  <2> QED
    BY <1>1, <2>1, <2>2, <2>3 DEF HolderFoundAll, Finish, tables, TypeInv, TypeOK
<1>5. ASSUME NEW s \in Session, Commit(s)
      PROVE  TablesInv' /\ HolderFoundAll'
  <2>1. lock = s
    BY <1>1, <1>5 DEF Commit, AnswersAreBacked, LockIsHeldToWrite
  <2>2. FreshCommit(s)
    BY <1>1, <2>1 DEF FreshCommit, AnswersAreBacked, HolderIsNew, HolderFoundAll
  <2>3. lock' = None
    BY <1>5, <2>1 DEF Commit, Finish
  <2> QED
    BY <1>1, <1>5, <2>2, <2>3, CommitKeepsTables, SessionAssumption DEF HolderFoundAll
<1>6. CASE Crash
  BY <1>1, <1>6, CrashDropsRows, LoadsRowsKeepsTables, SessionAssumption
  DEF Crash, HolderFoundAll
<1>7. CASE UNCHANGED vars
  BY <1>1, <1>7, StutterLoadsRows, LoadsRowsKeepsTables
  DEF vars, tables, locals, HolderFoundAll
<1> QED
  BY <1>2, <1>3, <1>4, <1>5, <1>6, <1>7 DEF Next, Step

LEMMA IngestInvAlways == Spec => []IngestInv
BY IngestInvInit, IngestInvStep, PTL DEF Spec

\* However many requests run at once on SQLite, fail or die with the process, the tables
\* agree on what exists, and say of a transaction only what its log bears out.
THEOREM TablesStayBacked ==
    Spec => [](RowsComplete /\ StatusHasEvent /\ SettlementHasEvent /\ FlagHasEvidence)
<1>1. IngestInv => RowsComplete /\ StatusHasEvent /\ SettlementHasEvent /\ FlagHasEvidence
  BY DEF IngestInv, TablesInv
<1> QED
  BY <1>1, IngestInvAlways, PTL

-----------------------------------------------------------------------------
(* Requests in progress at once that are always about different merchants   *)
(* and different transactions: what a session has read is then still stored *)
(* when it commits, and each accepted event takes effect at once.           *)

\* A session serves a request of its own inbox, and each row that it has looked for is
\* the one that is stored.
ReadsAreCurrent(s) ==
    LET p == payload[s]
    IN  pc[s] # "idle" =>
          /\ p \in Inbox[s]
          /\ pc[s] \notin {"get_merchant", "respond"} => merchant[s] = merchants[p.merchant_id]
          /\ pc[s] \notin {"get_merchant", "get_transaction", "respond"}
                => transaction[s] = transactions[p.transaction_id]
          /\ pc[s] \in {"flush", "select_reconciliation", "commit"}
                => recon[s] = reconciliation[p.transaction_id]

ShardInv == IngestInv /\ \A s \in Session : ReadsAreCurrent(s)

\* A session that another one's step leaves alone has still read what is stored, if its
\* rows are.
LEMMA OthersStayCurrent ==
    ASSUME NEW s \in Session, ReadsAreCurrent(s), TypeInv,
           pc'[s] = pc[s], payload'[s] = payload[s], merchant'[s] = merchant[s],
           transaction'[s] = transaction[s], recon'[s] = recon[s],
           pc[s] # "idle" =>
              /\ merchants'[payload[s].merchant_id] = merchants[payload[s].merchant_id]
              /\ transactions'[payload[s].transaction_id]
                    = transactions[payload[s].transaction_id]
              /\ reconciliation'[payload[s].transaction_id]
                    = reconciliation[payload[s].transaction_id]
    PROVE  ReadsAreCurrent(s)'
BY DEF ReadsAreCurrent

\* A step of session s other than its commit: it reads what is stored, and no other one
\* notices.
LEMMA QuietStepsReadCurrent ==
    ASSUME TypeInv, TablesInv, \A r \in Session : ReadsAreCurrent(r), NEW s \in Session,
           \/ \E p \in Inbox[s] : Receive(s, p)
           \/ GetMerchant(s) \/ GetTransaction(s) \/ LoadReconciliation(s) \/ Flush(s)
           \/ SelectReconciliation(s) \/ FlushRejected(s) \/ Raise(s) \/ Respond(s),
           NEW r \in Session
    PROVE  ReadsAreCurrent(r)'
<1>1. UNCHANGED <<merchants, transactions, reconciliation>>
  BY DEF Receive, GetMerchant, GetTransaction, LoadReconciliation, Flush,
         SelectReconciliation, FlushRejected, Raise, Respond, tables
<1>2. CASE r # s
  <2>1. /\ pc'[r] = pc[r] /\ payload'[r] = payload[r] /\ merchant'[r] = merchant[r]
        /\ transaction'[r] = transaction[r] /\ recon'[r] = recon[r]
    BY <1>2
    DEF Receive, GetMerchant, GetTransaction, LoadReconciliation, Flush,
        SelectReconciliation, FlushRejected, Raise, Respond, Finish, Goto, TypeInv, TypeOK
  <2> QED
    BY <1>1, <2>1, OthersStayCurrent
<1>3. CASE r = s
  <2>1. CASE \E p \in Inbox[s] : Receive(s, p)
    BY <1>1, <1>3, <2>1 DEF Receive, Goto, TypeInv, TypeOK, ReadsAreCurrent
  <2>2. CASE GetMerchant(s)
    BY <1>1, <1>3, <2>2 DEF GetMerchant, Goto, TypeInv, TypeOK, ReadsAreCurrent
  \* A transaction that is not there has no reconciliation row to load.
  <2>3. CASE GetTransaction(s)
    <3>1. PICK p \in PaymentEvent : payload[s] = p
      BY <2>3 DEF GetTransaction, TypeInv, ServesAPayload
    <3>2. p.transaction_id \in TransactionId /\ recon[s] = None
      BY <2>3, KeysOfPayload DEF GetTransaction, TypeInv, HoldsStoredRows
    <3>3. transactions[p.transaction_id] = None => reconciliation[p.transaction_id] = None
      BY <3>2 DEF TablesInv, RowsComplete
    <3>4. /\ pc[s] = "get_transaction" /\ payload'[s] = p /\ merchant'[s] = merchant[s]
          /\ transaction'[s] = transactions[p.transaction_id] /\ recon'[s] = None
          /\ pc'[s] = IF transactions[p.transaction_id] = None
                      THEN "flush" ELSE "load_reconciliation"
      BY <2>3, <3>1, <3>2 DEF GetTransaction, Goto, TypeInv, TypeOK
    <3> QED
      BY <1>1, <1>3, <3>1, <3>3, <3>4 DEF ReadsAreCurrent
  <2>4. CASE LoadReconciliation(s)
    BY <1>1, <1>3, <2>4
    DEF LoadReconciliation, Goto, TypeInv, TypeOK, ReadsAreCurrent
  <2>5. CASE Flush(s)
    BY <1>1, <1>3, <2>5 DEF Flush, Goto, TypeInv, TypeOK, ReadsAreCurrent
  <2>6. CASE SelectReconciliation(s)
    BY <1>1, <1>3, <2>6
    DEF SelectReconciliation, Goto, TypeInv, TypeOK, ReadsAreCurrent
  <2>7. CASE FlushRejected(s) \/ Raise(s)
    BY <1>3, <2>7
    DEF FlushRejected, Raise, Finish, Goto, TypeInv, TypeOK, ReadsAreCurrent
  <2>8. CASE Respond(s)
    BY <1>3, <2>8 DEF Respond, Goto, TypeInv, TypeOK, ReadsAreCurrent
  <2> QED
    BY <2>1, <2>2, <2>3, <2>4, <2>5, <2>6, <2>7, <2>8
<1> QED
  BY <1>2, <1>3

\* A commit changes no row that another session has read: they are about others.
LEMMA CommitLeavesReadsCurrent ==
    ASSUME InboxesAreDisjoint, TypeInv, \A r \in Session : ReadsAreCurrent(r),
           NEW s \in Session, Commit(s), NEW r \in Session
    PROVE  ReadsAreCurrent(r)'
<1>1. /\ payload[s] \in Inbox[s] /\ payload' = payload /\ pc'[s] = "respond"
      /\ \A m \in MerchantId \ {payload[s].merchant_id} : merchants'[m] = merchants[m]
  BY DEF Commit, Finish, Goto, ReadsAreCurrent, TypeInv, TypeOK
<1>2. CASE r = s
  BY <1>1, <1>2 DEF ReadsAreCurrent
<1>3. CASE r # s
  <2>1. /\ pc'[r] = pc[r] /\ merchant'[r] = merchant[r]
        /\ transaction'[r] = transaction[r] /\ recon'[r] = recon[r]
    BY <1>3 DEF Commit, Finish, Goto, TypeInv, TypeOK
  <2>2. ASSUME pc[r] # "idle"
        PROVE  /\ merchants'[payload[r].merchant_id] = merchants[payload[r].merchant_id]
               /\ transactions'[payload[r].transaction_id]
                     = transactions[payload[r].transaction_id]
               /\ reconciliation'[payload[r].transaction_id]
                     = reconciliation[payload[r].transaction_id]
    <3>1. payload[r] \in Inbox[r] /\ payload[r] \in PaymentEvent
      BY <2>2 DEF ReadsAreCurrent, TypeInv, ServesAPayload
    <3>2. /\ payload[r].merchant_id \in MerchantId \ {payload[s].merchant_id}
          /\ payload[r].transaction_id \in TransactionId \ {payload[s].transaction_id}
      BY <1>1, <1>3, <3>1, KeysOfPayload DEF InboxesAreDisjoint
    <3> QED
      BY <1>1, <3>2, CommitWritesRows
  <2> QED
    BY <1>1, <2>1, <2>2, OthersStayCurrent
<1> QED
  BY <1>2, <1>3

LEMMA ShardInvStep ==
    ASSUME InboxesAreDisjoint, ShardInv, [Next]_vars
    PROVE  ShardInv'
<1>1. IngestInv' /\ TypeInv /\ TablesInv
  BY IngestInvStep DEF ShardInv, IngestInv, AnswersInv
<1>2. \A s \in Session : ReadsAreCurrent(s)
  BY DEF ShardInv
<1>3. ASSUME Next, ~Crash, NEW r \in Session
      PROVE  ReadsAreCurrent(r)'
  BY <1>1, <1>2, <1>3, QuietStepsReadCurrent, CommitLeavesReadsCurrent DEF Next, Step
<1>4. ASSUME Crash, NEW r \in Session
      PROVE  ReadsAreCurrent(r)'
  BY <1>4 DEF Crash, ReadsAreCurrent
<1>5. ASSUME UNCHANGED vars, NEW r \in Session
      PROVE  ReadsAreCurrent(r)'
  BY <1>1, <1>2, <1>5, OthersStayCurrent DEF vars, tables, locals
<1> QED
  BY <1>1, <1>3, <1>4, <1>5 DEF ShardInv

LEMMA ShardInvAlways == InboxesAreDisjoint /\ Spec => []ShardInv
<1> SUFFICES ASSUME InboxesAreDisjoint PROVE Spec => []ShardInv
  OBVIOUS
<1>1. Init => ShardInv
  BY IngestInvInit DEF Init, ShardInv, ReadsAreCurrent
<1>2. ShardInv /\ [Next]_vars => ShardInv'
  BY ShardInvStep
<1> QED
  BY <1>1, <1>2, PTL DEF Spec

-----------------------------------------------------------------------------
(* The refinement: a commit is an Ingest, every other step is none.         *)

\* The rules of the instance are the rules.
LEMMA SameRules ==
    ASSUME NEW recon_row, NEW row, NEW p
    PROVE  /\ AtomicLedger!UpsertTransaction(row, p) = UpsertTransaction(row, p)
           /\ AtomicLedger!UpsertReconciliation(recon_row, row, p)
                 = UpsertReconciliation(recon_row, row, p)
<1>1. AtomicLedger!UpsertTransaction(row, p) = UpsertTransaction(row, p)
  BY DEF AtomicLedger!UpsertTransaction, UpsertTransaction, AtomicLedger!should_advance,
         should_advance, AtomicLedger!STATUS_RANK, STATUS_RANK, AtomicLedger!EVENT_TO_STATUS,
         EVENT_TO_STATUS
<1>2. AtomicLedger!NewReconciliation(p) = NewReconciliation(p)
  BY DEF AtomicLedger!NewReconciliation, NewReconciliation, AtomicLedger!InitialSettlement,
         InitialSettlement, AtomicLedger!EVENT_TO_STATUS, EVENT_TO_STATUS
<1>3. \A previous, current :
         AtomicLedger!UpdateReconciliation(recon_row, previous, current, p)
            = UpdateReconciliation(recon_row, previous, current, p)
  BY DEF AtomicLedger!UpdateReconciliation, UpdateReconciliation, AtomicLedger!Conflict,
         Conflict, AtomicLedger!SettlementAfter, SettlementAfter
<1> QED
  BY <1>1, <1>2, <1>3
  DEF AtomicLedger!UpsertReconciliation, UpsertReconciliation, AtomicLedger!StatusBefore,
      StatusBefore

\* A column-wise update of the row that is stored gives the row that was assigned.
LEMMA WritesAreWhole ==
    ASSUME NEW row \in Transaction \cup {None}, NEW rec \in ReconciliationRecord \cup {None},
           NEW p \in PaymentEvent
    PROVE  /\ WriteTransaction(row, row, UpsertTransaction(row, p)) = UpsertTransaction(row, p)
           /\ WriteReconciliation(rec, rec, UpsertReconciliation(rec, row, p))
                 = UpsertReconciliation(rec, row, p)
<1>1. WriteTransaction(row, row, UpsertTransaction(row, p)) = UpsertTransaction(row, p)
  BY DEF WriteTransaction, Column, UpsertTransaction, Transaction
<1>2. ASSUME NEW new \in ReconciliationRecord
      PROVE  WriteReconciliation(rec, rec, new) = new
  BY DEF WriteReconciliation, Column, ReconciliationRecord
<1> QED
  BY <1>1, <1>2, UpsertReconciliationType

LEMMA CommitIsIngest ==
    ASSUME TypeInv, NEW s \in Session, ReadsAreCurrent(s), payload[s].event_id \notin Logged,
           Commit(s)
    PROVE  AtomicLedger!Next
<1>1. PICK p \in PaymentEvent : payload[s] = p
  BY DEF Commit, TypeInv, ServesAPayload
<1>2. p \in AnyPayload
  BY <1>1 DEF Commit, ReadsAreCurrent, AnyPayload
<1> DEFINE m == p.merchant_id
           t == p.transaction_id
<1>3. /\ merchant[s] = merchants[m] /\ transaction[s] = transactions[t]
      /\ recon[s] = reconciliation[t]
      /\ transactions[t] \in Transaction \cup {None}
      /\ reconciliation[t] \in ReconciliationRecord \cup {None}
  BY <1>1, KeysOfPayload DEF Commit, ReadsAreCurrent, TypeInv, TypeOK
<1>4. /\ merchants' = [merchants EXCEPT ![m] = p.merchant_name]
      /\ transactions' = [transactions EXCEPT ![t] = UpsertTransaction(transactions[t], p)]
      /\ payment_events' = Append(payment_events, p)
      /\ reconciliation' = [reconciliation EXCEPT ![t] =
               UpsertReconciliation(reconciliation[t], transactions[t], p)]
  <2>1. /\ WriteTransaction(transactions[t], transaction[s],
                            UpsertTransaction(transaction[s], p))
             = UpsertTransaction(transactions[t], p)
        /\ WriteReconciliation(reconciliation[t], recon[s],
                               UpsertReconciliation(recon[s], transaction[s], p))
             = UpsertReconciliation(reconciliation[t], transactions[t], p)
    BY <1>3, WritesAreWhole
  <2> QED
    BY <1>1, <1>3, <2>1 DEF Commit, Column
<1>5. AtomicLedger!Ingest(p)
  BY <1>1, <1>4, SameRules DEF AtomicLedger!Ingest, AtomicLedger!Logged, Logged
<1> QED
  BY <1>2, <1>5 DEF AtomicLedger!Next

\* While no two requests in progress share a merchant or a transaction, nobody can tell
\* the service from one that ingests each accepted event in one step.
THEOREM ShardedIngestionIsAtomic == InboxesAreDisjoint /\ Spec => ImplementsLedger
<1> SUFFICES ASSUME InboxesAreDisjoint PROVE Spec => ImplementsLedger
  OBVIOUS
<1>1. Init => AtomicLedger!Init
  BY DEF Init, AtomicLedger!Init
<1>2. ShardInv /\ [Next]_vars => [AtomicLedger!Next]_(AtomicLedger!vars)
  <2> SUFFICES ASSUME ShardInv, [Next]_vars
               PROVE  AtomicLedger!Next \/ UNCHANGED tables
    BY DEF AtomicLedger!vars, tables
  <2>1. ASSUME NEW s \in Session,
               \/ \E p \in Inbox[s] : Receive(s, p)
               \/ GetMerchant(s) \/ GetTransaction(s) \/ LoadReconciliation(s) \/ Flush(s)
               \/ SelectReconciliation(s) \/ FlushRejected(s) \/ Raise(s) \/ Respond(s)
        PROVE  UNCHANGED tables
    BY <2>1 DEF Receive, GetMerchant, GetTransaction, LoadReconciliation, Flush,
                SelectReconciliation, FlushRejected, Raise, Respond
  <2>2. CASE Crash \/ UNCHANGED vars
    BY <2>2 DEF Crash, vars, tables
  <2>3. ASSUME NEW s \in Session, Commit(s)
        PROVE  AtomicLedger!Next
    <3>1. TypeInv /\ ReadsAreCurrent(s) /\ payload[s].event_id \notin Logged
      BY <2>3 DEF ShardInv, IngestInv, AnswersInv, AnswersAreBacked, LockIsHeldToWrite,
                  HolderIsNew, Commit
    <3> QED
      BY <2>3, <3>1, CommitIsIngest
  <2> QED
    BY <2>1, <2>2, <2>3 DEF Next, Step
<1> QED
  BY <1>1, <1>2, ShardInvAlways, PTL DEF Spec, ImplementsLedger, AtomicLedger!Spec
=============================================================================
