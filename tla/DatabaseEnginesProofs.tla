------------------------ MODULE DatabaseEnginesProofs ------------------------
(* Proofs about DatabaseEngines, on both databases: on SQLite a step is one *)
(* of EventIngestion, on PostgreSQL the row locks do what the write lock    *)
(* does there.                                                              *)
EXTENDS DatabaseEngines, EventIngestionProofs

-----------------------------------------------------------------------------
(* The invariant.                                                           *)

Writing == {"flush", "select_reconciliation", "commit"}

FirstFlush == {"merchants", "transactions", "payment_events"}

\* The place of a table among those a request writes.
Place == [merchants |-> 1, transactions |-> 2, payment_events |-> 3,
          reconciliation_records |-> 4]

\* The statement that writes the table is still to be executed.
Pending(s, table) == Changes(s, table) /\ holder[RowOf(s, table)] # s

\* What is true of the row locks of session s.  It holds rows while it writes, its own
\* rows, and the reconciliation row only in the second flush.
HoldsOwnRows(s) ==
    \A r \in Row : holder[r] = s =>
        /\ pc[s] \in Writing
        /\ r = RowOf(s, r[1])
        /\ r[1] = "reconciliation_records" => pc[s] = "commit"

\* After the first flush it holds every row that it changes there.
FlushIsSent(s) ==
    pc[s] \in {"select_reconciliation", "commit"} => \A table \in FirstFlush : ~Pending(s, table)

\* In the first flush it holds no row behind one that it has still to write.
HoldsInOrder(s) ==
    pc[s] = "flush" =>
        \A held, table \in FirstFlush :
            (holder[RowOf(s, held)] = s /\ Pending(s, table)) => Place[held] < Place[table]

\* What it has inserted nobody has committed meanwhile.
InsertsAreNew(s) ==
    pc[s] \in Writing =>
        /\ holder[RowOf(s, "payment_events")] = s => payload[s].event_id \notin Logged
        /\ (holder[RowOf(s, "transactions")] = s /\ transaction[s] = None)
              => transactions[payload[s].transaction_id] = None

RowLocks(s) == HoldsOwnRows(s) /\ FlushIsSent(s) /\ HoldsInOrder(s) /\ InsertsAreNew(s)

PostgresInv ==
    /\ EnginesTypeOK /\ TypeInv /\ LogBacksAnswers /\ TablesInv /\ SecondFlushSucceeds
    /\ \A s \in Session : RowLocks(s)

SqliteInv == EnginesTypeOK /\ IngestInv /\ SecondFlushSucceeds

EnginesInv == IF Postgres THEN PostgresInv ELSE SqliteInv

-----------------------------------------------------------------------------
(* Statements and rows.                                                     *)

LEMMA RowsOfSession ==
    ASSUME TypeInv, NEW s \in Session, pc[s] # "idle"
    PROVE  \A table \in Written : RowOf(s, table) \in Row /\ RowOf(s, table)[1] = table
<1>1. payload[s] \in PaymentEvent
  BY DEF TypeInv, ServesAPayload
<1>2. PICK p \in PaymentEvent : payload[s] = p
  BY <1>1
<1>3. /\ RowOf(s, "merchants") = <<"merchants", p.merchant_id>>
      /\ RowOf(s, "transactions") = <<"transactions", p.transaction_id>>
      /\ RowOf(s, "payment_events") = <<"payment_events", p.event_id>>
      /\ RowOf(s, "reconciliation_records") = <<"reconciliation_records", p.transaction_id>>
  BY <1>2 DEF RowOf
<1> QED
  BY <1>3, KeysOfPayload DEF Written, Row

\* Every row is of a table that a session writes.
LEMMA TableOfRow ==
    ASSUME NEW r \in Row
    PROVE  r[1] \in Written
BY DEF Row, Written

\* A session executes the first of its statements that is pending.
LEMMA FirstPending ==
    ASSUME NEW s \in Session, NEW table \in Written, AtWrite(s, table)
    PROVE  /\ Postgres /\ Pending(s, table)
           /\ \/ /\ pc[s] = "flush" /\ table \in FirstFlush
                 /\ \A other \in FirstFlush : Pending(s, other) => Place[table] <= Place[other]
              \/ pc[s] = "commit" /\ table = "reconciliation_records"
<1>1. Postgres /\ pc[s] \in {"flush", "commit"}
  BY DEF AtWrite
<1>2. PICK i \in Unsent(s) : FlushOrder(s)[i] = table /\ \A j \in Unsent(s) : i <= j
  BY DEF AtWrite
<1>3. Pending(s, table)
  BY <1>2 DEF Unsent, Pending
<1>4. CASE pc[s] = "commit"
  BY <1>1, <1>2, <1>3, <1>4 DEF Unsent, FlushOrder
<1>5. CASE pc[s] = "flush"
  <2>1. FlushOrder(s) = <<"merchants", "transactions", "payment_events">>
    BY <1>5 DEF FlushOrder
  <2>2. i \in 1..3 /\ i = Place[table] /\ table \in FirstFlush
    BY <1>2, <2>1 DEF Unsent, Place, FirstFlush
  <2>3. ASSUME NEW other \in FirstFlush, Pending(s, other)
        PROVE  Place[other] \in Unsent(s)
    <3>1. Place[other] \in DOMAIN FlushOrder(s) /\ FlushOrder(s)[Place[other]] = other
      BY <2>1, <2>3 DEF Place, FirstFlush
    <3> QED
      BY <2>3, <3>1 DEF Unsent, Pending
  <2> QED
    BY <1>1, <1>2, <1>3, <1>5, <2>2, <2>3
<1> QED
  BY <1>1, <1>4, <1>5

\* What WriteRow asks of the statements that are left.
LEMMA LastPending ==
    ASSUME NEW s \in Session, pc[s] = "flush", NEW table \in FirstFlush
    PROVE  (\A i \in Unsent(s) : FlushOrder(s)[i] = table)
              <=> (\A other \in FirstFlush : Pending(s, other) => other = table)
<1>1. FlushOrder(s) = <<"merchants", "transactions", "payment_events">>
  BY DEF FlushOrder
<1>2. \A other \in FirstFlush :
         /\ Place[other] \in DOMAIN FlushOrder(s) /\ FlushOrder(s)[Place[other]] = other
         /\ Pending(s, other) => Place[other] \in Unsent(s)
  BY <1>1 DEF Place, FirstFlush, Unsent, Pending
<1>3. \A i \in Unsent(s) : FlushOrder(s)[i] \in FirstFlush /\ Pending(s, FlushOrder(s)[i])
  BY <1>1 DEF FirstFlush, Unsent, Pending
<1> QED
  BY <1>2, <1>3

-----------------------------------------------------------------------------
(* The locks of one session.                                                *)

\* A session that holds no row after a step that leaves it before its second flush.
LEMMA HoldsNothing ==
    ASSUME TypeInv', NEW s \in Session, \A r \in Row : holder'[r] # s,
           pc'[s] \notin {"select_reconciliation", "commit"}
    PROVE  RowLocks(s)'
<1>1. pc'[s] \in Writing => \A table \in Written : RowOf(s, table)' \in Row
  <2>1. SUFFICES ASSUME NEW p \in PaymentEvent, payload'[s] = p
                 PROVE  \A table \in Written : RowOf(s, table)' \in Row
    BY DEF TypeInv, ServesAPayload, Writing
  <2>2. /\ RowOf(s, "merchants")' = <<"merchants", p.merchant_id>>
        /\ RowOf(s, "transactions")' = <<"transactions", p.transaction_id>>
        /\ RowOf(s, "payment_events")' = <<"payment_events", p.event_id>>
        /\ RowOf(s, "reconciliation_records")' = <<"reconciliation_records", p.transaction_id>>
    BY <2>1 DEF RowOf
  <2> QED
    BY <2>2, KeysOfPayload DEF Written, Row
<1> QED
  BY <1>1 DEF RowLocks, HoldsOwnRows, FlushIsSent, HoldsInOrder, InsertsAreNew, FirstFlush,
              Written, Writing

\* A session that another one's step leaves alone keeps its locks in order, unless what
\* it has inserted is committed by the other.
LEMMA OthersKeepLocks ==
    ASSUME TypeInv, NEW s \in Session, RowLocks(s),
           pc'[s] = pc[s], payload'[s] = payload[s], merchant'[s] = merchant[s],
           transaction'[s] = transaction[s],
           \A r \in Row : holder'[r] = s <=> holder[r] = s,
           pc[s] \in Writing => InsertsAreNew(s)'
    PROVE  RowLocks(s)'
<1>1. /\ \A table \in Written : RowOf(s, table)' = RowOf(s, table)
      /\ \A table \in FirstFlush : Changes(s, table)' <=> Changes(s, table)
  BY DEF RowOf, Changes, FirstFlush
<1>2. pc[s] \in Writing => \A table \in FirstFlush :
         /\ RowOf(s, table) \in Row
         /\ holder'[RowOf(s, table)] = s <=> holder[RowOf(s, table)] = s
         /\ Pending(s, table)' <=> Pending(s, table)
  <2>1. FirstFlush \subseteq Written
    BY DEF FirstFlush, Written
  <2>2. pc[s] \in Writing => \A table \in FirstFlush : RowOf(s, table) \in Row
    BY <2>1, RowsOfSession DEF Writing
  <2> QED
    BY <1>1, <2>1, <2>2 DEF Pending
<1>3. HoldsOwnRows(s)'
  BY <1>1, TableOfRow DEF RowLocks, HoldsOwnRows
<1>4. FlushIsSent(s)'
  BY <1>2 DEF RowLocks, FlushIsSent, Writing
<1>5. HoldsInOrder(s)'
  BY <1>1, <1>2 DEF RowLocks, HoldsInOrder, Writing, FirstFlush, Written
<1>6. InsertsAreNew(s)'
  BY DEF InsertsAreNew
<1> QED
  BY <1>3, <1>4, <1>5, <1>6 DEF RowLocks

-----------------------------------------------------------------------------
(* PostgreSQL: the steps that write no row.                                 *)

\* The second flush of every session that is not at the step stays safe while no
\* reconciliation row is stored.
LEMMA SecondFlushStays ==
    ASSUME SecondFlushSucceeds, UNCHANGED tables,
           \A r \in Session : pc'[r] = "commit"
              => pc[r] = "commit" /\ recon'[r] = recon[r] /\ payload'[r] = payload[r]
    PROVE  SecondFlushSucceeds'
BY DEF SecondFlushSucceeds, tables

\* A step that stores nothing takes nothing from what a session knows to be new.
LEMMA InsertsStayNew ==
    ASSUME NEW s \in Session, RowLocks(s), UNCHANGED <<transactions, payment_events>>,
           pc'[s] = pc[s], payload'[s] = payload[s], transaction'[s] = transaction[s],
           pc[s] \in Writing => \A table \in Written :
              holder'[RowOf(s, table)] = s <=> holder[RowOf(s, table)] = s
    PROVE  InsertsAreNew(s)'
<1>1. \A table \in Written : RowOf(s, table)' = RowOf(s, table)
  BY DEF RowOf
<1> QED
  BY <1>1 DEF RowLocks, InsertsAreNew, Logged, Written

\* A request, a read outside the flushes, and an answer.
LEMMA ReadKeepsPostgres ==
    ASSUME Postgres, PostgresInv, NEW s \in Session,
           \/ \E p \in Inbox[s] : Receive(s, p)
           \/ GetMerchant(s) \/ GetTransaction(s) \/ LoadReconciliation(s) \/ Respond(s),
           UNCHANGED engine_vars
    PROVE  PostgresInv'
<1> USE DEF PostgresInv
<1>1. /\ UNCHANGED <<tables, lock, holder, database>>
      /\ \A r \in Session \ {s} :
            /\ pc'[r] = pc[r] /\ payload'[r] = payload[r] /\ merchant'[r] = merchant[r]
            /\ transaction'[r] = transaction[r] /\ recon'[r] = recon[r]
      /\ pc[s] \notin Writing /\ pc'[s] \notin {"select_reconciliation", "commit"}
  BY DEF Receive, GetMerchant, GetTransaction, LoadReconciliation, Respond, Goto, engine_vars,
         TypeInv, TypeOK, Writing
<1>2. TypeInv'
  BY TypeInvStep DEF Next, Step
<1>3. EnginesTypeOK'
  BY <1>1, <1>2 DEF EnginesTypeOK, TypeInv
<1>4. LogBacksAnswers'
  <2>1. CASE Respond(s)
    BY <2>1, RespondKeepsAnswers
  <2>2. CASE ~Respond(s)
    <3>1. /\ UNCHANGED <<outcome, answers>>
          /\ \A r \in Session : pc'[r] = "respond"
                => pc[r] = "respond" /\ payload'[r] = payload[r]
      BY <2>2 DEF Receive, GetMerchant, GetTransaction, LoadReconciliation, Goto, TypeInv, TypeOK
    <3> QED
      BY <1>1, <3>1, QuietKeepsAnswers
  <2> QED
    BY <2>1, <2>2
<1>5. TablesInv'
  BY ReadsLoadRows, LoadsRowsKeepsTables DEF TablesInv
<1>6. SecondFlushSucceeds'
  BY <1>1, SecondFlushStays
<1>7. ASSUME NEW r \in Session
      PROVE  RowLocks(r)'
  <2>1. CASE r = s
    <3>1. \A row \in Row : holder'[row] # s
      BY <1>1 DEF RowLocks, HoldsOwnRows
    <3> QED
      BY <1>1, <1>2, <2>1, <3>1, HoldsNothing
  <2>2. CASE r # s
    BY <1>1, <2>2, OthersKeepLocks, InsertsStayNew DEF tables
  <2> QED
    BY <2>1, <2>2
<1> QED
  BY <1>2, <1>3, <1>4, <1>5, <1>6, <1>7

\* The read between the flushes: the session goes on to the second one with the rows that
\* it holds.
LEMMA SelectKeepsPostgres ==
    ASSUME Postgres, PostgresInv, NEW s \in Session, SelectReconciliation(s),
           UNCHANGED engine_vars
    PROVE  PostgresInv'
<1> USE DEF PostgresInv
<1>1. /\ UNCHANGED <<tables, lock, holder, database, payload, merchant, transaction, outcome,
                     answers>>
      /\ pc[s] = "select_reconciliation" /\ pc'[s] = "commit"
      /\ recon'[s] = IF recon[s] = None THEN reconciliation[payload[s].transaction_id]
                                        ELSE recon[s]
      /\ \A r \in Session \ {s} : pc'[r] = pc[r] /\ recon'[r] = recon[r]
  BY DEF SelectReconciliation, Goto, engine_vars, TypeInv, TypeOK
<1>2. TypeInv'
  BY TypeInvStep DEF Next, Step
<1>3. EnginesTypeOK'
  BY <1>1, <1>2 DEF EnginesTypeOK, TypeInv
<1>4. LogBacksAnswers'
  BY <1>1, QuietKeepsAnswers
<1>5. TablesInv'
  BY ReadsLoadRows, LoadsRowsKeepsTables DEF TablesInv
<1>6. SecondFlushSucceeds'
  BY <1>1 DEF SecondFlushSucceeds, tables
<1>7. ASSUME NEW r \in Session
      PROVE  RowLocks(r)'
  <2>1. CASE r = s
    <3>1. /\ \A table : RowOf(s, table)' = RowOf(s, table)
          /\ \A table \in FirstFlush : Changes(s, table)' <=> Changes(s, table)
      BY <1>1 DEF RowOf, Changes, FirstFlush
    <3>2. RowLocks(s)
      OBVIOUS
    <3> QED
      BY <1>1, <2>1, <3>1, <3>2
      DEF RowLocks, HoldsOwnRows, FlushIsSent, HoldsInOrder, InsertsAreNew, Pending, Writing,
          Logged, tables
  <2>2. CASE r # s
    BY <1>1, <2>2, OthersKeepLocks, InsertsStayNew DEF tables
  <2> QED
    BY <2>1, <2>2
<1> QED
  BY <1>2, <1>3, <1>4, <1>5, <1>6, <1>7

-----------------------------------------------------------------------------
(* PostgreSQL: the steps that write rows, and those that release them.      *)

\* A statement of a flush: it waited for whoever held the row, and met no row that is
\* committed.
LEMMA WriteKeepsPostgres ==
    ASSUME Postgres, PostgresInv, NEW s \in Session, NEW table \in Written, WriteRow(s, table)
    PROVE  PostgresInv'
<1> USE DEF PostgresInv
<1>1. /\ UNCHANGED <<tables, lock, payload, merchant, transaction, recon, outcome, answers,
                     database>>
      /\ AtWrite(s, table) /\ holder[RowOf(s, table)] = None /\ ~Collides(s, table)
      /\ holder' = [holder EXCEPT ![RowOf(s, table)] = s]
  BY DEF WriteRow, RowIsFree
<1>2. /\ Pending(s, table)
      /\ \/ /\ pc[s] = "flush" /\ table \in FirstFlush
            /\ \A other \in FirstFlush : Pending(s, other) => Place[table] <= Place[other]
         \/ pc[s] = "commit" /\ table = "reconciliation_records"
  BY <1>1, FirstPending
<1>3. /\ \A other \in Written : RowOf(s, other) \in Row /\ RowOf(s, other)[1] = other
      /\ \A other \in Written : RowOf(s, other)' = RowOf(s, other)
      /\ \A other \in FirstFlush : Changes(s, other)' <=> Changes(s, other)
  <2>1. pc[s] # "idle"
    BY <1>2
  <2> QED
    BY <1>1, <2>1, RowsOfSession DEF RowOf, Changes, FirstFlush
<1>4. \/ pc[s] = "commit" /\ pc' = pc
      \/ /\ pc[s] = "flush" /\ table \in FirstFlush
         /\ \/ pc' = pc
            \/ /\ pc' = [pc EXCEPT ![s] = "select_reconciliation"]
               /\ \A other \in FirstFlush : Pending(s, other) => other = table
  BY <1>2, LastPending DEF WriteRow, Goto
<1>5. TypeInv'
  BY <1>1, <1>4 DEF TypeInv, TypeOK, PC, ServesAPayload, HoldsStoredRows, tables, answers
<1>6. holder' \in [Row -> Session \cup {None}]
  BY <1>1, <1>3 DEF EnginesTypeOK
<1>7. EnginesTypeOK'
  BY <1>1, <1>5, <1>6 DEF EnginesTypeOK, TypeInv
<1>8. \A r \in Session : pc'[r] = pc[r] \/ (pc[r] = "flush" /\ pc'[r] = "select_reconciliation")
  BY <1>4 DEF TypeInv, TypeOK
<1>9. LogBacksAnswers'
  <2>1. \A r \in Session : pc'[r] = "respond" => pc[r] = "respond" /\ payload'[r] = payload[r]
    BY <1>1, <1>8
  <2> QED
    BY <1>1, <2>1, QuietKeepsAnswers
<1>10. TablesInv'
  <2>1. LoadsRows
    BY <1>1, <1>8
    DEF LoadsRows, KeptOrLoaded, TypeInv, HoldsStoredRows, TablesInv, HoldsStoredMerchant
  <2> QED
    BY <2>1, LoadsRowsKeepsTables
<1>11. SecondFlushSucceeds'
  BY <1>1, <1>8, SecondFlushStays
<1>12. ASSUME NEW r \in Session \ {s}
       PROVE  RowLocks(r)'
  <2>1. pc'[r] = pc[r]
    BY <1>4 DEF TypeInv, TypeOK
  <2>2. \A row \in Row : holder'[row] = r <=> holder[row] = r
    BY <1>1, <1>3, SessionAssumption DEF EnginesTypeOK
  <2>3. pc[r] \in Writing => \A other \in Written : RowOf(r, other) \in Row
    BY RowsOfSession DEF Writing
  <2> QED
    BY <1>1, <2>1, <2>2, <2>3, OthersKeepLocks, InsertsStayNew DEF tables
<1>13. RowLocks(s)'
  <2>1. RowLocks(s)
    OBVIOUS
  <2>2. \A other \in Written :
           holder'[RowOf(s, other)] = IF other = table THEN s ELSE holder[RowOf(s, other)]
    BY <1>1, <1>3 DEF EnginesTypeOK
  <2>3. \A other \in FirstFlush : Pending(s, other)' <=> Pending(s, other) /\ other # table
    <3>1. FirstFlush \subseteq Written
      BY DEF FirstFlush, Written
    <3> QED
      BY <1>3, <2>2, <3>1 DEF Pending
  <2>4. pc[s] \in Writing /\ pc'[s] \in Writing
    BY <1>4 DEF TypeInv, TypeOK, Writing
  <2>5. HoldsOwnRows(s)'
    <3> SUFFICES ASSUME NEW r \in Row, holder'[r] = s
                 PROVE  /\ r = RowOf(s, r[1])
                        /\ r[1] = "reconciliation_records" => pc'[s] = "commit"
      BY <1>3, <2>4, TableOfRow DEF HoldsOwnRows
    <3>1. CASE r = RowOf(s, table)
      BY <1>3, <1>4, <2>4, <3>1, <1>2 DEF FirstFlush
    <3>2. CASE r # RowOf(s, table)
      <4>1. holder[r] = s
        BY <1>1, <3>2 DEF EnginesTypeOK
      <4> QED
        BY <1>4, <2>1, <4>1 DEF RowLocks, HoldsOwnRows
    <3> QED
      BY <3>1, <3>2
  <2>6. FlushIsSent(s)'
    BY <1>4, <2>1, <2>3 DEF RowLocks, FlushIsSent, TypeInv, TypeOK
  <2>7. HoldsInOrder(s)'
    <3> SUFFICES ASSUME pc'[s] = "flush", NEW held \in FirstFlush, NEW other \in FirstFlush,
                        holder'[RowOf(s, held)] = s, Pending(s, other)'
                 PROVE  Place[held] < Place[other]
      BY <1>3 DEF HoldsInOrder, FirstFlush, Written
    <3>1. pc[s] = "flush" /\ Pending(s, other) /\ other # table
      BY <1>4, <2>3 DEF TypeInv, TypeOK
    <3>2. table \in FirstFlush /\ Place[table] <= Place[other]
      BY <1>2, <3>1
    <3>3. CASE held = table
      BY <3>1, <3>2, <3>3 DEF FirstFlush, Place
    <3>4. CASE held # table
      <4>1. holder[RowOf(s, held)] = s
        BY <2>2, <3>4 DEF FirstFlush, Written
      <4> QED
        BY <2>1, <3>1, <4>1 DEF RowLocks, HoldsInOrder
    <3> QED
      BY <3>3, <3>4
  <2>8. InsertsAreNew(s)'
    <3>1. /\ table = "payment_events" => payload[s].event_id \notin Logged
          /\ table = "transactions" /\ transaction[s] = None
                => transactions[payload[s].transaction_id] = None
      BY <1>1 DEF Collides
    <3> QED
      BY <1>1, <1>3, <2>1, <2>2, <2>4, <3>1
      DEF RowLocks, InsertsAreNew, Written, Logged, tables
  <2> QED
    BY <2>5, <2>6, <2>7, <2>8 DEF RowLocks
<1> QED
  BY <1>5, <1>7, <1>9, <1>10, <1>11, <1>12, <1>13

\* The end of a transaction releases the rows of its session and no others.
LEMMA ReleaseFreesRows ==
    ASSUME EnginesTypeOK, NEW s \in Session, ReleaseRows(s)
    PROVE  /\ holder' \in [Row -> Session \cup {None}]
           /\ \A row \in Row : holder'[row] # s
           /\ \A r \in Session \ {s} : \A row \in Row : holder'[row] = r <=> holder[row] = r
BY SessionAssumption DEF EnginesTypeOK, ReleaseRows

\* A unique violation, and any other statement that fails.
LEMMA FailureKeepsPostgres ==
    ASSUME Postgres, PostgresInv, NEW s \in Session, NEW o \in {"duplicate", "error"},
           pc[s] \notin {"idle", "respond"},
           Finish(s, o), ReleaseRows(s), UNCHANGED <<tables, payload, answers>>,
           o = "duplicate" => Contract!Related(payload[s])
    PROVE  PostgresInv'
<1> USE DEF PostgresInv
<1>1. /\ pc'[s] = "respond"
      /\ \A r \in Session \ {s} :
            /\ pc'[r] = pc[r] /\ merchant'[r] = merchant[r]
            /\ transaction'[r] = transaction[r] /\ recon'[r] = recon[r]
      /\ database' = database
  BY DEF Finish, Goto, ReleaseRows, TypeInv, TypeOK
<1>2. TypeInv'
  BY DEF Finish, Goto, TypeInv, TypeOK, PC, Outcome, tables, answers, ServesAPayload,
         HoldsStoredRows
<1>3. lock' = None
  BY DEF Finish, EnginesTypeOK, Postgres
<1>4. EnginesTypeOK'
  BY <1>1, <1>2, <1>3, ReleaseFreesRows DEF EnginesTypeOK, TypeInv
<1>5. LogBacksAnswers'
  BY RefusalKeepsAnswers, ErrorKeepsAnswers
<1>6. TablesInv'
  BY EndDropsRows, LoadsRowsKeepsTables DEF TablesInv
<1>7. SecondFlushSucceeds'
  BY <1>1, SecondFlushStays
<1>8. ASSUME NEW r \in Session
      PROVE  RowLocks(r)'
  <2>1. CASE r = s
    BY <1>1, <1>2, <2>1, ReleaseFreesRows, HoldsNothing
  <2>2. CASE r # s
    <3>1. pc[r] \in Writing => \A other \in Written : RowOf(r, other) \in Row
      BY RowsOfSession DEF Writing
    <3> QED
      BY <1>1, <2>2, <3>1, ReleaseFreesRows, OthersKeepLocks, InsertsStayNew DEF tables
  <2> QED
    BY <2>1, <2>2
<1> QED
  BY <1>2, <1>4, <1>5, <1>6, <1>7, <1>8

\* A session that found no transaction has inserted it by the second flush.
LEMMA NewRowsAreHeld ==
    ASSUME PostgresInv, NEW s \in Session, pc[s] = "commit"
    PROVE  /\ holder[RowOf(s, "payment_events")] = s
           /\ transaction[s] = None => holder[RowOf(s, "transactions")] = s
<1>1. payload[s] \in PaymentEvent
  BY DEF PostgresInv, TypeInv, ServesAPayload
<1>2. Changes(s, "payment_events")
  BY DEF Changes
<1>3. transaction[s] = None => Changes(s, "transactions")
  <2>1. UpsertTransaction(None, payload[s]) \in Transaction
    BY <1>1, UpsertTransactionType
  <2>2. UpsertTransaction(None, payload[s]) # None
    BY <2>1, NoneAssumption DEF Transaction
  <2> QED
    BY <2>2 DEF Changes
<1>4. RowLocks(s)
  BY DEF PostgresInv
<1> QED
  BY <1>2, <1>3, <1>4 DEF RowLocks, FlushIsSent, FirstFlush, Pending

\* What a session has inserted no other session can have committed since.
LEMMA CommitIsFresh ==
    ASSUME PostgresInv, NEW s \in Session, pc[s] = "commit"
    PROVE  FreshCommit(s)
<1>1. RowLocks(s)
  BY DEF PostgresInv
<1> QED
  BY <1>1, NewRowsAreHeld DEF FreshCommit, RowLocks, InsertsAreNew, Writing

\* Two sessions in the second flush are not about the same new event or the same new
\* transaction.
LEMMA NewRowsDiffer ==
    ASSUME PostgresInv, NEW s \in Session, NEW r \in Session \ {s}, pc[s] = "commit",
           pc[r] \in Writing
    PROVE  /\ holder[RowOf(r, "payment_events")] = r
                 => payload[r].event_id # payload[s].event_id
           /\ (transaction[s] = None /\ holder[RowOf(r, "transactions")] = r)
                 => payload[r].transaction_id # payload[s].transaction_id
<1>1. /\ holder[RowOf(s, "payment_events")] = s
      /\ transaction[s] = None => holder[RowOf(s, "transactions")] = s
  BY NewRowsAreHeld
<1>2. /\ payload[r].event_id = payload[s].event_id
            => RowOf(r, "payment_events") = RowOf(s, "payment_events")
      /\ payload[r].transaction_id = payload[s].transaction_id
            => RowOf(r, "transactions") = RowOf(s, "transactions")
  BY DEF RowOf
<1> QED
  BY <1>1, <1>2

LEMMA CommitKeepsPostgres ==
    ASSUME Postgres, PostgresInv, NEW s \in Session, CommitRows(s)
    PROVE  PostgresInv'
<1> USE DEF PostgresInv
<1>1. Commit(s) /\ ReleaseRows(s) /\ pc[s] = "commit"
  BY DEF CommitRows
<1>2. PICK p \in PaymentEvent : payload[s] = p
  BY <1>1 DEF TypeInv, ServesAPayload
<1>3. p.transaction_id \in TransactionId
  BY KeysOfPayload
<1>4. /\ pc'[s] = "respond" /\ payload' = payload
      /\ \A r \in Session \ {s} :
            /\ pc'[r] = pc[r] /\ merchant'[r] = merchant[r]
            /\ transaction'[r] = transaction[r] /\ recon'[r] = recon[r]
      /\ database' = database
  BY <1>1 DEF Commit, Finish, Goto, ReleaseRows, TypeInv, TypeOK
<1>5. FreshCommit(s)
  BY <1>1, CommitIsFresh
<1>6. TypeInv'
  BY <1>1, TypeInvStep DEF Next, Step
<1>7. EnginesTypeOK'
  <2>1. lock' = None
    BY <1>1 DEF Commit, Finish, EnginesTypeOK, Postgres
  <2> QED
    BY <1>1, <1>4, <1>6, <2>1, ReleaseFreesRows DEF EnginesTypeOK, TypeInv
<1>8. LogBacksAnswers'
  BY <1>1, <1>5, CommitKeepsAnswers DEF FreshCommit
<1>9. TablesInv'
  BY <1>1, <1>5, CommitKeepsTables
<1>10. /\ \A t \in TransactionId \ {p.transaction_id} :
             transactions'[t] = transactions[t] /\ reconciliation'[t] = reconciliation[t]
       /\ Logged' = Logged \cup {p.event_id}
  BY <1>1, <1>2, CommitWritesRows, CommitExtendsLog
<1>11. SecondFlushSucceeds'
  <2> SUFFICES ASSUME NEW r \in Session, pc'[r] = "commit", recon'[r] = None
               PROVE  reconciliation'[payload[r].transaction_id] = None
    BY <1>4 DEF SecondFlushSucceeds
  <2>1. r # s /\ pc[r] = "commit" /\ recon[r] = None
    BY <1>4
  <2>2. PICK q \in PaymentEvent : payload[r] = q
    BY <2>1 DEF TypeInv, ServesAPayload
  <2>3. q.transaction_id \in TransactionId
    BY KeysOfPayload
  <2>4. reconciliation[q.transaction_id] = None /\ transactions[q.transaction_id] = None
    BY <2>1, <2>2, <2>3 DEF SecondFlushSucceeds, TablesInv, RowsComplete
  <2>5. q.transaction_id # p.transaction_id
    <3>1. SUFFICES ASSUME q.transaction_id = p.transaction_id
                   PROVE  FALSE
      OBVIOUS
    <3>2. transaction[s] = None /\ transaction[r] = None
      BY <1>2, <2>2, <2>4, <3>1 DEF TypeInv, HoldsStoredRows
    <3> QED
      BY <1>1, <1>2, <2>1, <2>2, <3>1, <3>2, NewRowsAreHeld, NewRowsDiffer DEF Writing
  <2> QED
    BY <1>10, <2>2, <2>3, <2>4, <2>5
<1>12. ASSUME NEW r \in Session
       PROVE  RowLocks(r)'
  <2>1. CASE r = s
    BY <1>1, <1>4, <1>6, <2>1, ReleaseFreesRows, HoldsNothing
  <2>2. CASE r # s
    <3>1. /\ RowLocks(r)
          /\ \A row \in Row : holder'[row] = r <=> holder[row] = r
      BY <1>1, <2>2, ReleaseFreesRows
    <3>2. ASSUME pc[r] \in Writing
          PROVE  InsertsAreNew(r)'
      <4>1. PICK q \in PaymentEvent : payload[r] = q
        BY <3>2 DEF TypeInv, ServesAPayload, Writing
      <4>2. /\ q.transaction_id \in TransactionId
            /\ \A other \in Written : RowOf(r, other) \in Row
            /\ \A other \in Written : RowOf(r, other)' = RowOf(r, other)
        BY <1>4, <3>2, KeysOfPayload, RowsOfSession DEF RowOf, Writing
      <4>3. holder'[RowOf(r, "payment_events")'] = r => q.event_id \notin Logged'
        BY <1>1, <1>2, <1>10, <2>2, <3>1, <3>2, <4>1, <4>2, NewRowsDiffer
        DEF RowLocks, InsertsAreNew, Written
      <4>4. ASSUME holder'[RowOf(r, "transactions")'] = r, transaction[r] = None
            PROVE  transactions'[q.transaction_id] = None
        <5>1. holder[RowOf(r, "transactions")] = r /\ transactions[q.transaction_id] = None
          BY <3>1, <3>2, <4>1, <4>2, <4>4 DEF RowLocks, InsertsAreNew, Written
        <5>2. q.transaction_id = p.transaction_id => transaction[s] = None
          BY <1>2, <5>1 DEF TypeInv, HoldsStoredRows
        <5>3. q.transaction_id # p.transaction_id
          BY <1>1, <1>2, <2>2, <3>2, <4>1, <5>1, <5>2, NewRowsDiffer
        <5> QED
          BY <1>10, <4>2, <5>1, <5>3
      <4> QED
        BY <1>4, <2>2, <4>1, <4>3, <4>4 DEF InsertsAreNew
    <3> QED
      BY <1>4, <2>2, <3>1, <3>2, OthersKeepLocks
  <2> QED
    BY <2>1, <2>2
<1> QED
  BY <1>6, <1>7, <1>8, <1>9, <1>11, <1>12

\* The server dies; the database gives every lock back.
LEMMA CrashKeepsPostgres ==
    ASSUME Postgres, PostgresInv, CrashAll
    PROVE  PostgresInv'
<1> USE DEF PostgresInv
<1>1. Crash /\ holder' = [r \in Row |-> None] /\ database' = database
  BY DEF CrashAll
<1>2. TypeInv'
  BY <1>1, TypeInvStep DEF Next
<1>3. EnginesTypeOK'
  BY <1>1, <1>2 DEF EnginesTypeOK, TypeInv, Crash
<1>4. LogBacksAnswers' /\ TablesInv'
  BY <1>1, CrashKeepsAnswers, CrashDropsRows, LoadsRowsKeepsTables
<1>5. SecondFlushSucceeds'
  BY <1>1 DEF Crash, SecondFlushSucceeds
<1>6. ASSUME NEW r \in Session
      PROVE  RowLocks(r)'
  BY <1>1, <1>2, SessionAssumption, HoldsNothing DEF Crash
<1> QED
  BY <1>2, <1>3, <1>4, <1>5, <1>6

LEMMA PostgresInvStep ==
    ASSUME Postgres, PostgresInv, [EnginesNext]_all_vars
    PROVE  PostgresInv'
<1>1. ASSUME NEW s \in Session, ReceiveAny(s)
      PROVE  PostgresInv'
  BY <1>1, ReadKeepsPostgres DEF ReceiveAny
<1>2. ASSUME NEW s \in Session, Connect(s)
      PROVE  PostgresInv'
  BY <1>2, ReadKeepsPostgres DEF Connect
<1>3. ASSUME NEW s \in Session, ReadOrRespond(s)
      PROVE  PostgresInv'
  BY <1>3, ReadKeepsPostgres, SelectKeepsPostgres DEF ReadOrRespond
<1>4. ASSUME NEW s \in Session, NEW table \in Written, WriteRow(s, table)
      PROVE  PostgresInv'
  BY <1>4, WriteKeepsPostgres
<1>5. ASSUME NEW s \in Session, NEW table \in Written, WriteRejected(s, table)
      PROVE  PostgresInv'
  <2>1. pc[s] \in {"flush", "commit"} /\ payload[s] \in PaymentEvent /\ RowsHaveEvents
    BY <1>5 DEF WriteRejected, AtWrite, PostgresInv, TypeInv, ServesAPayload, LogBacksAnswers
  <2>2. ASSUME pc[s] = "flush"
        PROVE  Contract!Related(payload[s])
    <3>1. table \in FirstFlush /\ Collides(s, table)
      BY <1>5, <2>2, FirstPending DEF WriteRejected
    <3>2. \/ payload[s].event_id \in Logged
          \/ merchants[payload[s].merchant_id] # None
          \/ transactions[payload[s].transaction_id] # None
      BY <3>1 DEF FirstFlush, Collides
    <3> QED
      BY <2>1, <3>2, CollisionIsRelated
  <2>3. CASE pc[s] = "flush"
    BY <1>5, <2>2, <2>3, FailureKeepsPostgres DEF WriteRejected
  <2>4. CASE pc[s] = "commit"
    BY <1>5, <2>4, FailureKeepsPostgres DEF WriteRejected
  <2> QED
    BY <2>1, <2>3, <2>4
<1>6. ASSUME NEW s \in Session, CommitRows(s)
      PROVE  PostgresInv'
  BY <1>6, CommitKeepsPostgres
<1>7. ASSUME NEW s \in Session, RaiseRows(s)
      PROVE  PostgresInv'
  BY <1>7, FailureKeepsPostgres DEF RaiseRows, Raise
<1>8. CASE CrashAll
  BY <1>8, CrashKeepsPostgres
<1>9. CASE UNCHANGED all_vars
  <2>1. UNCHANGED vars /\ UNCHANGED engine_vars
    BY <1>9 DEF all_vars
  <2>2. UNCHANGED <<tables, lock, locals, answers, pc, payload, merchant, transaction, recon,
                    outcome, holder, database>>
    BY <2>1 DEF vars, locals, engine_vars
  <2>3. TypeInv /\ LogBacksAnswers /\ TablesInv
    BY DEF PostgresInv
  <2>4. TypeInv'
    BY <2>1, <2>3, TypeInvStep
  <2>5. LogBacksAnswers' /\ TablesInv'
    BY <2>2, <2>3, QuietKeepsAnswers, StutterLoadsRows, LoadsRowsKeepsTables DEF TablesInv
  <2>6. SecondFlushSucceeds'
    BY <2>2, SecondFlushStays DEF PostgresInv
  <2>7. EnginesTypeOK'
    BY <2>2, <2>4 DEF PostgresInv, EnginesTypeOK, TypeInv
  <2>8. \A r \in Session : RowLocks(r)'
    BY <2>2, <2>3, OthersKeepLocks, InsertsStayNew DEF PostgresInv, tables
  <2> QED
    BY <2>4, <2>5, <2>6, <2>7, <2>8 DEF PostgresInv
<1> QED
  BY <1>1, <1>2, <1>3, <1>4, <1>5, <1>6, <1>7, <1>8, <1>9
  DEF EnginesNext, PostgresStep, SqliteStep, WriteStatement

-----------------------------------------------------------------------------
(* SQLite, and both.                                                        *)

\* The write lock does for the second flush what the row locks do on PostgreSQL.
LEMMA SqliteInvStep ==
    ASSUME ~Postgres, SqliteInv, [EnginesNext]_all_vars
    PROVE  SqliteInv'
<1> USE DEF SqliteInv
<1>1. [Next]_vars /\ database' = database /\ holder' \in [Row -> Session \cup {None}]
  <2>1. ASSUME NEW s \in Session, ReceiveAny(s) \/ SqliteStep(s)
        PROVE  Next /\ UNCHANGED engine_vars
    BY <2>1 DEF ReceiveAny, SqliteStep, Next
  <2>2. ASSUME NEW s \in Session
        PROVE  ~PostgresStep(s)
    BY DEF PostgresStep, Connect, ReadOrRespond, WriteStatement, WriteRow, WriteRejected,
           AtWrite, CommitRows, RaiseRows
  <2>3. CASE CrashAll
    BY <2>3 DEF CrashAll, Next
  <2>4. CASE UNCHANGED all_vars
    BY <2>4 DEF all_vars, engine_vars, EnginesTypeOK
  <2> QED
    BY <2>1, <2>2, <2>3, <2>4 DEF EnginesNext, engine_vars, EnginesTypeOK
<1>2. IngestInv'
  BY <1>1, IngestInvStep
<1>3. EnginesTypeOK'
  BY <1>1, <1>2 DEF EnginesTypeOK, IngestInv, AnswersInv, TypeInv, Postgres
<1>4. SecondFlushSucceeds'
  <2> SUFFICES ASSUME NEW s \in Session, pc'[s] = "commit", recon'[s] = None
               PROVE  reconciliation'[payload'[s].transaction_id] = None
    BY DEF SecondFlushSucceeds
  <2>1. TypeInv /\ LockIsHeldToWrite /\ TypeInv' /\ LockIsHeldToWrite'
    BY <1>2 DEF IngestInv, AnswersInv, AnswersAreBacked
  <2>2. lock' = s
    BY <2>1 DEF LockIsHeldToWrite
  <2>3. ASSUME NEW r \in Session, Step(r)
        PROVE  reconciliation'[payload'[s].transaction_id] = None
    <3>1. CASE SelectReconciliation(r)
      BY <2>1, <3>1
      DEF SelectReconciliation, Goto, SecondFlushSucceeds, tables, TypeInv, TypeOK
    <3>2. CASE Commit(r)
      BY <2>1, <2>2, <3>2, SessionAssumption DEF Commit, Finish, LockIsHeldToWrite
    <3>3. CASE ~SelectReconciliation(r) /\ ~Commit(r)
      <4>1. pc[s] = "commit" /\ recon[s] = None /\ payload'[s] = payload[s]
            /\ reconciliation' = reconciliation
        BY <2>1, <2>3, <3>3
        DEF Step, GetMerchant, GetTransaction, LoadReconciliation, Flush, FlushRejected, Raise,
            Respond, Finish, Goto, tables, TypeInv, TypeOK
      <4> QED
        BY <4>1 DEF SecondFlushSucceeds
    <3> QED
      BY <3>1, <3>2, <3>3
  <2>4. CASE \E r \in Session : \E p \in Inbox[r] : Receive(r, p)
    BY <2>1, <2>4 DEF Receive, Goto, SecondFlushSucceeds, tables, TypeInv, TypeOK
  <2>5. CASE Crash
    BY <2>5 DEF Crash
  <2>6. CASE UNCHANGED vars
    BY <2>6 DEF vars, locals, tables, SecondFlushSucceeds
  <2> QED
    BY <1>1, <2>3, <2>4, <2>5, <2>6 DEF Next
<1> QED
  BY <1>2, <1>3, <1>4

LEMMA EnginesInvInit == EnginesInit => EnginesInv
<1> SUFFICES ASSUME EnginesInit PROVE EnginesInv
  OBVIOUS
<1>1. Init /\ IngestInv
  BY IngestInvInit DEF EnginesInit
<1>2. TypeInv /\ LogBacksAnswers /\ TablesInv
  BY <1>1 DEF IngestInv, AnswersInv, AnswersAreBacked, LogBacksAnswers
<1>3. EnginesTypeOK /\ SecondFlushSucceeds
  BY <1>1, <1>2 DEF EnginesInit, EnginesTypeOK, TypeInv, Init, SecondFlushSucceeds
<1>4. \A s \in Session : RowLocks(s)
  BY <1>1, SessionAssumption
  DEF EnginesInit, Init, RowLocks, HoldsOwnRows, FlushIsSent, HoldsInOrder, InsertsAreNew,
      Writing
<1> QED
  BY <1>1, <1>2, <1>3, <1>4 DEF EnginesInv, PostgresInv, SqliteInv

LEMMA DatabaseStays ==
    ASSUME [EnginesNext]_all_vars
    PROVE  database' = database
BY DEF EnginesNext, ReceiveAny, SqliteStep, PostgresStep, Connect, ReadOrRespond,
       WriteStatement, WriteRow, WriteRejected, CommitRows, RaiseRows, ReleaseRows, CrashAll,
       all_vars, engine_vars

LEMMA EnginesInvStep == EnginesInv /\ [EnginesNext]_all_vars => EnginesInv'
<1> SUFFICES ASSUME EnginesInv, [EnginesNext]_all_vars PROVE EnginesInv'
  OBVIOUS
<1>1. Postgres' <=> Postgres
  BY DatabaseStays DEF Postgres
<1> QED
  BY <1>1, PostgresInvStep, SqliteInvStep DEF EnginesInv

LEMMA EnginesInvAlways == EnginesSpec => []EnginesInv
BY EnginesInvInit, EnginesInvStep, PTL DEF EnginesSpec

\* Both databases: the variables keep their types, and PostgreSQL never uses the write
\* lock.
THEOREM EnginesTypeCorrect == EnginesSpec => []EnginesTypeOK
<1>1. EnginesInv => EnginesTypeOK
  BY DEF EnginesInv, PostgresInv, SqliteInv
<1> QED
  BY <1>1, EnginesInvAlways, PTL

\* The second flush, which stands in no try, never meets a reconciliation row that its
\* session did not find: on SQLite because of the write lock, on PostgreSQL because who
\* inserts the reconciliation row has inserted the transaction.
THEOREM SecondFlushIsSafe == EnginesSpec => []SecondFlushSucceeds
<1>1. EnginesInv => SecondFlushSucceeds
  BY DEF EnginesInv, PostgresInv, SqliteInv
<1> QED
  BY <1>1, EnginesInvAlways, PTL

\* On either database every answer on its way to a client is one that the log justifies.
THEOREM AnswersStayBackedOnBoth == EnginesSpec => []EveryAnswerIsBacked
<1>1. EnginesInv => EveryAnswerIsBacked
  BY DEF EnginesInv, PostgresInv, SqliteInv, EveryAnswerIsBacked, IngestInv, AnswersInv
<1> QED
  BY <1>1, EnginesInvAlways, PTL

\* An event is acknowledged at most once and only when it is logged, on both databases.
THEOREM AcceptedStayLoggedOnBoth == EnginesSpec => []AcceptedOnceAndLogged
<1>1. EnginesInv => AcceptedOnceAndLogged
  BY DEF EnginesInv, PostgresInv, SqliteInv, LogBacksAnswers, IngestInv, AnswersInv,
         AnswersAreBacked
<1> QED
  BY <1>1, EnginesInvAlways, PTL

LEMMA TablesOnBoth == EnginesInv => TablesInv
BY DEF EnginesInv, PostgresInv, SqliteInv, IngestInv

\* The four tables agree on what exists, on both databases.
THEOREM RowsStayComplete == EnginesSpec => []RowsComplete
<1>1. EnginesInv => RowsComplete
  BY TablesOnBoth DEF TablesInv
<1> QED
  BY <1>1, EnginesInvAlways, PTL

\* No interleaving stores a status out of thin air, nor a merchant that is not the first
\* event's.
THEOREM StatusStaysLogged == EnginesSpec => []StatusHasEvent
<1>1. EnginesInv => StatusHasEvent
  BY TablesOnBoth DEF TablesInv
<1> QED
  BY <1>1, EnginesInvAlways, PTL

\* A stored settlement is that of a settled event of its transaction, not the first one.
THEOREM SettlementStaysLogged == EnginesSpec => []SettlementHasEvent
<1>1. EnginesInv => SettlementHasEvent
  BY TablesOnBoth DEF TablesInv
<1> QED
  BY <1>1, EnginesInvAlways, PTL

\* No false alarm, whatever a session had read when it computed the flag.
THEOREM FlagStaysEvident == EnginesSpec => []FlagHasEvidence
<1>1. EnginesInv => FlagHasEvidence
  BY TablesOnBoth DEF TablesInv
<1> QED
  BY <1>1, EnginesInvAlways, PTL

-----------------------------------------------------------------------------
(* Waiting.                                                                 *)

\* Who waits for a session that waits as well is at an earlier statement.
LEMMA WaitersAreBehind ==
    ASSUME EnginesInv, NEW s \in Session, NEW r \in Session, WaitsFor(s, r),
           NEW table \in Written, AtWrite(r, table)
    PROVE  \E first \in Written : AtWrite(s, first) /\ Place[first] < Place[table]
<1>1. PICK first \in Written : AtWrite(s, first) /\ holder[RowOf(s, first)] = r
  BY DEF WaitsFor
<1>2. Postgres /\ pc[s] \in {"flush", "commit"}
  BY <1>1 DEF AtWrite
<1>3. TypeInv /\ RowLocks(r)
  BY <1>2 DEF EnginesInv, PostgresInv
<1>4. RowOf(s, first) \in Row /\ RowOf(s, first)[1] = first
  BY <1>2, <1>3, RowsOfSession
<1>5. /\ holder[RowOf(r, first)] = r
      /\ first = "reconciliation_records" => pc[r] = "commit"
  BY <1>1, <1>3, <1>4 DEF RowLocks, HoldsOwnRows
<1>6. /\ Pending(r, table)
      /\ \/ pc[r] = "flush" /\ table \in FirstFlush
         \/ pc[r] = "commit" /\ table = "reconciliation_records"
  BY FirstPending
<1>7. first # table
  BY <1>5, <1>6 DEF Pending
<1>8. CASE pc[r] = "flush"
  <2>1. first \in FirstFlush /\ table \in FirstFlush
    BY <1>5, <1>6, <1>8 DEF Written, FirstFlush
  <2> QED
    BY <1>1, <1>3, <1>5, <1>6, <1>8, <2>1 DEF RowLocks, HoldsInOrder
<1>9. CASE pc[r] = "commit"
  BY <1>1, <1>6, <1>7, <1>9 DEF Written, Place
<1> QED
  BY <1>6, <1>8, <1>9

\* Whichever rows two events share, no sessions wait for one another in a circle: a
\* circle would have to go back in the order of the tables.
THEOREM NobodyWaitsForever == EnginesSpec => []NoDeadlock
<1>1. EnginesInv => NoDeadlock
  <2> SUFFICES ASSUME EnginesInv, NEW waiting \in (SUBSET Session) \ {{}},
                      \A s \in waiting : \E r \in waiting : WaitsFor(s, r)
               PROVE  FALSE
    BY DEF NoDeadlock
  <2> DEFINE Within(n) == \A s \in waiting : \E table \in Written :
                             AtWrite(s, table) /\ Place[table] <= n
  <2>1. \A table \in Written : Place[table] \in 1..4
    BY DEF Written, Place
  <2>2. Within(4)
    BY <2>1 DEF WaitsFor
  <2>3. ASSUME NEW n \in 1..4, Within(n)
        PROVE  Within(n - 1)
    <3> SUFFICES ASSUME NEW s \in waiting
                 PROVE  \E first \in Written : AtWrite(s, first) /\ Place[first] <= n - 1
      OBVIOUS
    <3>1. PICK r \in waiting : WaitsFor(s, r)
      OBVIOUS
    <3>2. PICK table \in Written : AtWrite(r, table) /\ Place[table] <= n
      BY <2>3
    <3>3. PICK first \in Written : AtWrite(s, first) /\ Place[first] < Place[table]
      BY <3>1, <3>2, WaitersAreBehind
    <3> QED
      BY <2>1, <3>2, <3>3
  <2>4. Within(0)
    <3> HIDE DEF Within
    <3>1. Within(3) /\ Within(2) /\ Within(1)
      BY <2>2, <2>3
    <3> QED
      BY <2>3, <3>1
  <2>5. PICK s \in waiting : TRUE
    OBVIOUS
  <2>6. PICK table \in Written : Place[table] <= 0
    BY <2>4, <2>5
  <2> QED
    BY <2>1, <2>6
<1> QED
  BY <1>1, EnginesInvAlways, PTL

-----------------------------------------------------------------------------
(* The contract.                                                            *)

\* The steps of both databases are steps of the contract, or none.
LEMMA EnginesContractStep ==
    EnginesInv /\ [EnginesNext]_all_vars => [Contract!ContractNext]_(Contract!contract_vars)
<1> SUFFICES ASSUME EnginesInv, [EnginesNext]_all_vars
             PROVE  Contract!ContractNext \/ UNCHANGED Contract!contract_vars
  OBVIOUS
<1>1. TypeInv /\ LogBacksAnswers
  BY DEF EnginesInv, PostgresInv, SqliteInv, IngestInv, AnswersInv, AnswersAreBacked,
         LogBacksAnswers
<1>2. ASSUME NEW s \in Session, SqliteStep(s)
      PROVE  Contract!ContractNext \/ UNCHANGED Contract!contract_vars
  BY <1>2, ContractStep DEF SqliteStep, EnginesInv, SqliteInv, IngestInv, Next
<1>3. ASSUME NEW s \in Session, Respond(s)
      PROVE  Contract!ContractNext \/ UNCHANGED Contract!contract_vars
  BY <1>1, <1>3, RespondAnswers
<1>4. ASSUME NEW s \in Session, CommitRows(s)
      PROVE  Contract!ContractNext
  BY <1>1, <1>4, CommitIsFresh, CommitIsLogged DEF CommitRows, EnginesInv, FreshCommit
<1>5. ASSUME NEW s \in Session,
             \/ ReceiveAny(s) \/ Connect(s) \/ GetTransaction(s) \/ LoadReconciliation(s)
             \/ SelectReconciliation(s) \/ WriteStatement(s) \/ RaiseRows(s)
      PROVE  UNCHANGED <<tables, answers>>
  BY <1>5
  DEF ReceiveAny, Receive, Connect, GetMerchant, GetTransaction, LoadReconciliation,
      SelectReconciliation, WriteStatement, WriteRow, WriteRejected, RaiseRows, Raise
<1>6. CASE CrashAll \/ UNCHANGED all_vars
  BY <1>6, ContractSeesNothing DEF CrashAll, Crash, all_vars, vars
<1> QED
  BY <1>2, <1>3, <1>4, <1>5, <1>6, ContractSeesNothing
  DEF EnginesNext, PostgresStep, ReadOrRespond

\* Both databases keep what clients may rely on: every answer, to every interleaving,
\* error and crash, is one that the contract allows.
THEOREM ContractOnBothDatabases == EnginesSpec => ImplementsContract
<1>1. EnginesInit => Contract!ContractInit
  BY ContractInitially DEF EnginesInit
<1> QED
  BY <1>1, EnginesContractStep, EnginesInvAlways, PTL
  DEF EnginesSpec, ImplementsContract, Contract!ContractSpec

-----------------------------------------------------------------------------
(* Requests that never meet: on both databases each accepted event takes    *)
(* effect at once.                                                          *)

EnginesShardInv == EnginesInv /\ \A s \in Session : ReadsAreCurrent(s)

\* A write shows nothing to other sessions, and neither does a transaction that ends
\* without a commit.
LEMMA WritesReadCurrent ==
    ASSUME TypeInv, \A r \in Session : ReadsAreCurrent(r), NEW s \in Session,
           WriteStatement(s), NEW r \in Session
    PROVE  ReadsAreCurrent(r)'
<1>1. PICK table \in Written : WriteRow(s, table) \/ WriteRejected(s, table)
  BY DEF WriteStatement
<1>2. /\ UNCHANGED <<merchants, transactions, reconciliation>> /\ payload' = payload
      /\ \A q \in Session \ {s} :
            /\ pc'[q] = pc[q] /\ merchant'[q] = merchant[q]
            /\ transaction'[q] = transaction[q] /\ recon'[q] = recon[q]
  BY <1>1 DEF WriteRow, WriteRejected, Finish, Goto, tables, TypeInv, TypeOK
<1>3. CASE r # s
  BY <1>2, <1>3, OthersStayCurrent
<1>4. CASE r = s /\ WriteRow(s, table)
  <2>1. UNCHANGED <<merchant, transaction, recon>>
    BY <1>4 DEF WriteRow
  <2>2. pc'[s] = pc[s] \/ (pc[s] = "flush" /\ pc'[s] = "select_reconciliation")
    BY <1>4 DEF WriteRow, Goto, TypeInv, TypeOK
  <2>3. CASE pc'[s] = pc[s]
    BY <1>2, <1>4, <2>1, <2>3, OthersStayCurrent
  <2>4. CASE pc[s] = "flush" /\ pc'[s] = "select_reconciliation"
    BY <1>2, <1>4, <2>1, <2>4 DEF ReadsAreCurrent
  <2> QED
    BY <2>2, <2>3, <2>4
<1>5. CASE r = s /\ WriteRejected(s, table)
  <2>1. pc[s] # "idle" /\ pc'[s] = "respond"
    BY <1>5 DEF WriteRejected, AtWrite, Finish, Goto, TypeInv, TypeOK
  <2> QED
    BY <1>2, <1>5, <2>1 DEF ReadsAreCurrent
<1> QED
  BY <1>1, <1>3, <1>4, <1>5

LEMMA EnginesShardInvStep ==
    ASSUME InboxesAreDisjoint, EnginesShardInv, [EnginesNext]_all_vars
    PROVE  EnginesShardInv'
<1>1. EnginesInv' /\ TypeInv /\ TablesInv /\ \A s \in Session : ReadsAreCurrent(s)
  BY EnginesInvStep, TablesOnBoth
  DEF EnginesShardInv, EnginesInv, PostgresInv, SqliteInv, IngestInv, AnswersInv
<1>2. ASSUME NEW s \in Session, ReceiveAny(s) \/ Connect(s) \/ ReadOrRespond(s) \/ RaiseRows(s),
             NEW r \in Session
      PROVE  ReadsAreCurrent(r)'
  BY <1>1, <1>2, QuietStepsReadCurrent DEF ReceiveAny, Connect, ReadOrRespond, RaiseRows
<1>3. ASSUME NEW s \in Session, WriteStatement(s), NEW r \in Session
      PROVE  ReadsAreCurrent(r)'
  BY <1>1, <1>3, WritesReadCurrent
<1>4. ASSUME NEW s \in Session, SqliteStep(s) \/ CommitRows(s), NEW r \in Session
      PROVE  ReadsAreCurrent(r)'
  BY <1>1, <1>4, QuietStepsReadCurrent, CommitLeavesReadsCurrent
  DEF SqliteStep, Step, CommitRows
<1>5. ASSUME CrashAll, NEW r \in Session
      PROVE  ReadsAreCurrent(r)'
  BY <1>5 DEF CrashAll, Crash, ReadsAreCurrent
<1>6. ASSUME UNCHANGED all_vars, NEW r \in Session
      PROVE  ReadsAreCurrent(r)'
  BY <1>1, <1>6, OthersStayCurrent DEF all_vars, vars, tables, locals
<1> QED
  BY <1>1, <1>2, <1>3, <1>4, <1>5, <1>6 DEF EnginesNext, PostgresStep, EnginesShardInv

\* The event of a commit is new, by the write lock or by the lock of its row.
LEMMA CommittedEventIsNew ==
    ASSUME EnginesInv, NEW s \in Session, Commit(s), CommitRows(s) \/ SqliteStep(s)
    PROVE  payload[s].event_id \notin Logged
<1>1. CASE CommitRows(s)
  BY <1>1, CommitIsFresh DEF CommitRows, EnginesInv, FreshCommit
<1>2. CASE SqliteStep(s)
  BY <1>2 DEF SqliteStep, EnginesInv, SqliteInv, IngestInv, AnswersInv, AnswersAreBacked,
              LockIsHeldToWrite, HolderIsNew, Commit
<1> QED
  BY <1>1, <1>2

\* A commit is an Ingest of the ledger, every other step is none.
LEMMA EnginesLedgerStep ==
    ASSUME EnginesShardInv, [EnginesNext]_all_vars
    PROVE  AtomicLedger!Next \/ UNCHANGED tables
<1>1. EnginesInv /\ TypeInv /\ \A s \in Session : ReadsAreCurrent(s)
  BY DEF EnginesShardInv, EnginesInv, PostgresInv, SqliteInv, IngestInv, AnswersInv
<1>2. ASSUME NEW s \in Session, Commit(s), CommitRows(s) \/ SqliteStep(s)
      PROVE  AtomicLedger!Next
  BY <1>1, <1>2, CommittedEventIsNew, CommitIsIngest
<1>3. ASSUME NEW s \in Session, SqliteStep(s), ~Commit(s)
      PROVE  UNCHANGED tables
  BY <1>3 DEF SqliteStep, Step, GetMerchant, GetTransaction, LoadReconciliation, Flush,
              SelectReconciliation, FlushRejected, Raise, Respond
<1>4. ASSUME NEW s \in Session,
             \/ ReceiveAny(s) \/ Connect(s) \/ ReadOrRespond(s)
             \/ WriteStatement(s) \/ RaiseRows(s)
      PROVE  UNCHANGED tables
  BY <1>4
  DEF ReceiveAny, Receive, Connect, GetMerchant, ReadOrRespond, GetTransaction,
      LoadReconciliation, SelectReconciliation, Respond, WriteStatement, WriteRow,
      WriteRejected, RaiseRows, Raise
<1>5. CASE CrashAll \/ UNCHANGED all_vars
  BY <1>5 DEF CrashAll, Crash, all_vars, vars, tables
<1>6. ASSUME NEW s \in Session, CommitRows(s)
      PROVE  Commit(s)
  BY <1>6 DEF CommitRows
<1> QED
  BY <1>2, <1>3, <1>4, <1>5, <1>6 DEF EnginesNext, PostgresStep

\* While no two requests in progress share a merchant or a transaction, the service on
\* either database, its row locks and pool included, cannot be told from one that
\* ingests each accepted event in one step.
THEOREM ShardedEnginesAreAtomic == InboxesAreDisjoint /\ EnginesSpec => ImplementsLedger
<1> SUFFICES ASSUME InboxesAreDisjoint PROVE EnginesSpec => ImplementsLedger
  OBVIOUS
<1>1. EnginesInit => EnginesShardInv /\ AtomicLedger!Init
  BY EnginesInvInit DEF EnginesInit, Init, AtomicLedger!Init, EnginesShardInv, ReadsAreCurrent
<1>2. EnginesShardInv /\ [EnginesNext]_all_vars => EnginesShardInv'
  BY EnginesShardInvStep
<1>3. EnginesShardInv /\ [EnginesNext]_all_vars => [AtomicLedger!Next]_(AtomicLedger!vars)
  BY EnginesLedgerStep DEF AtomicLedger!vars, tables
<1> QED
  BY <1>1, <1>2, <1>3, PTL DEF EnginesSpec, ImplementsLedger, AtomicLedger!Spec
=============================================================================
