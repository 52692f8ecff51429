--------------------------- MODULE DatabaseEngines ---------------------------
(***************************************************************************)
(* The service on the database that DATABASE_URL names.  On SQLite it is   *)
(* EventIngestion as it stands.  On PostgreSQL the handler and its reads   *)
(* are the same, but there is no lock on the database: each INSERT and     *)
(* UPDATE locks its own row until the transaction ends, a statement that   *)
(* meets a row another session has written waits for that session, and a   *)
(* UNIQUE constraint is checked statement by statement, against the rows   *)
(* committed by then (READ COMMITTED, the driver's default).  Sessions     *)
(* take a connection from a pool of fixed size at their first statement.   *)
(*                                                                         *)
(* payment_events is in the order of the commits.  Nothing of the service  *)
(* but its commits makes the rows a session has written visible, so Commit *)
(* is EventIngestion's: a row is written once per session, and nobody else *)
(* can have changed it in between.                                         *)
(***************************************************************************)
EXTENDS EventIngestion

CONSTANT Database          \* the databases: dialect and connections, 0 for no limit

ASSUME DatabaseAssumption ==
    /\ Database \subseteq [dialect : {"sqlite", "postgresql"}, connections : Nat]
    /\ \A d \in Database : d.dialect = "sqlite" => d.connections = 0

VARIABLES
    database,              \* what DATABASE_URL names
    holder                 \* the session that has written a row and not ended, or None

engine_vars == <<database, holder>>
all_vars == <<vars, engine_vars>>

Row == ({"merchants"} \X MerchantId)
       \cup ({"transactions", "reconciliation_records"} \X TransactionId)
       \cup ({"payment_events"} \X EventId)

EnginesTypeOK ==
    /\ TypeOK
    /\ database \in Database
    /\ holder \in [Row -> Session \cup {None}]
    /\ database.dialect = "postgresql" => lock = None

EnginesInit ==
    /\ Init
    /\ database \in Database
    /\ holder = [r \in Row |-> None]

-----------------------------------------------------------------------------
(* The statements of a session on PostgreSQL.                              *)

Postgres == database.dialect = "postgresql"

\* The row of that table that session s is about.
RowOf(s, table) ==
    LET p == payload[s]
    IN  CASE table = "merchants" -> <<table, p.merchant_id>>
          [] table \in {"transactions", "reconciliation_records"} -> <<table, p.transaction_id>>
          [] table = "payment_events" -> <<table, p.event_id>>

\* The session has a new row for the table, or a row with a changed column.
Changes(s, table) ==
    LET p == payload[s]
    IN  CASE table = "merchants" -> merchant[s] # p.merchant_name
          [] table = "transactions" -> transaction[s] # UpsertTransaction(transaction[s], p)
          [] table = "payment_events" -> TRUE
          [] table = "reconciliation_records" ->
                recon[s] # UpsertReconciliation(recon[s], transaction[s], p)

\* The statement is an INSERT and a row with its key is committed.
Collides(s, table) ==
    LET p == payload[s]
    IN  CASE table = "merchants" -> merchant[s] = None /\ merchants[p.merchant_id] # None
          [] table = "transactions" ->
                transaction[s] = None /\ transactions[p.transaction_id] # None
          [] table = "payment_events" -> p.event_id \in Logged
          [] table = "reconciliation_records" ->
                recon[s] = None /\ reconciliation[p.transaction_id] # None

\* Mutant: a settlement locks its reconciliation row before anything else.
SettlementLocksFirst(s) ==
    IF pc[s] = "commit" THEN <<"reconciliation_records">>
    ELSE IF payload[s].event_type = "settled"
    THEN <<"reconciliation_records", "merchants", "transactions", "payment_events">>
    ELSE <<"merchants", "transactions", "payment_events">>

\* The tables that the flush session s is in writes, parents first.
FlushOrder(s) ==
    IF pc[s] = "commit" THEN <<"reconciliation_records">>
                        ELSE <<"merchants", "transactions", "payment_events">>

\* The places in the flush of the statements that are still to be executed.
Unsent(s) ==
    {i \in DOMAIN FlushOrder(s) :
        LET table == FlushOrder(s)[i] IN Changes(s, table) /\ holder[RowOf(s, table)] # s}

\* Mutant: the columns have no UNIQUE constraint, an INSERT waits for nobody.
NeverWaits(s, table) == TRUE

\* No other session has a write of the row that is not committed.
RowIsFree(s, table) == holder[RowOf(s, table)] = None

\* Session s is at the statement that writes `table', the first one not executed.
AtWrite(s, table) ==
    /\ Postgres /\ pc[s] \in {"flush", "commit"}
    /\ \E i \in Unsent(s) : FlushOrder(s)[i] = table /\ \A j \in Unsent(s) : i <= j

Written == {"merchants", "transactions", "payment_events", "reconciliation_records"}

\* An INSERT or UPDATE; after the last one of the first flush the handler goes on.
WriteRow(s, table) ==
    /\ AtWrite(s, table)
    /\ RowIsFree(s, table)
    /\ ~Collides(s, table)
    /\ holder' = [holder EXCEPT ![RowOf(s, table)] = s]
    /\ IF pc[s] = "flush" /\ \A i \in Unsent(s) : FlushOrder(s)[i] = table
       THEN Goto(s, "select_reconciliation") ELSE UNCHANGED pc
    /\ UNCHANGED <<tables, lock, payload, merchant, transaction, recon, outcome, answers,
                   database>>

\* The session's transaction is over, and its row locks with it.
ReleaseRows(s) ==
    /\ holder' = [r \in Row |-> IF holder[r] = s THEN None ELSE holder[r]]
    /\ UNCHANGED database

\* A unique violation: caught around the first flush, an error in the second.
WriteRejected(s, table) ==
    /\ AtWrite(s, table)
    /\ RowIsFree(s, table)
    /\ Collides(s, table)
    /\ Finish(s, IF pc[s] = "flush" THEN "duplicate" ELSE "error")
    /\ ReleaseRows(s)
    /\ UNCHANGED <<tables, payload, answers>>

\* The second flush has been sent.
CommitRows(s) ==
    /\ Postgres /\ pc[s] = "commit" /\ Unsent(s) = {}
    /\ Commit(s)
    /\ ReleaseRows(s)

\* Any other statement that fails.
RaiseRows(s) == Postgres /\ Raise(s) /\ ReleaseRows(s)

\* The pool has a connection to give; one that has ended its transaction gave it back.
ConnectionIsFree ==
    \/ database.connections = 0
    \/ Cardinality({s \in Session : pc[s] \notin {"idle", "get_merchant", "respond"}})
          < database.connections

Connect(s) == Postgres /\ ConnectionIsFree /\ GetMerchant(s) /\ UNCHANGED engine_vars

ReadOrRespond(s) ==
    /\ Postgres
    /\ GetTransaction(s) \/ LoadReconciliation(s) \/ SelectReconciliation(s) \/ Respond(s)
    /\ UNCHANGED engine_vars

WriteStatement(s) == \E table \in Written : WriteRow(s, table) \/ WriteRejected(s, table)

-----------------------------------------------------------------------------

SqliteStep(s) == ~Postgres /\ Step(s) /\ UNCHANGED engine_vars

PostgresStep(s) ==
    Connect(s) \/ ReadOrRespond(s) \/ WriteStatement(s) \/ CommitRows(s) \/ RaiseRows(s)

ReceiveAny(s) == \E p \in Inbox[s] : Receive(s, p) /\ UNCHANGED engine_vars

CrashAll ==
    /\ Crash
    /\ holder' = [r \in Row |-> None]
    /\ UNCHANGED database

EnginesNext ==
    \/ \E s \in Session : ReceiveAny(s) \/ SqliteStep(s) \/ PostgresStep(s)
    \/ CrashAll

EnginesSpec == EnginesInit /\ [][EnginesNext]_all_vars

\* SQLite: as in FairSpec.  PostgreSQL: a statement that need not wait is executed; one
\* that waits for a row, and a session that waits for a connection, is served in its
\* turn, for both queue first come, first served.  No timeout is assumed to end a wait.
FairEnginesSpec ==
    /\ EnginesSpec
    /\ \A s \in Session :
          /\ WF_all_vars(SqliteStep(s))
          /\ WF_all_vars(ReadOrRespond(s) \/ CommitRows(s))
          /\ SF_all_vars(Connect(s))
          /\ SF_all_vars(WriteStatement(s))

-----------------------------------------------------------------------------
(* Properties.                                                             *)

\* Session s waits for a row that session r has written.
WaitsFor(s, r) ==
    /\ s # r
    /\ \E table \in Written : AtWrite(s, table) /\ holder[RowOf(s, table)] = r

\* Sessions never wait for one another in a circle: whichever rows two events share,
\* the flushes of ingest_event lock them in one order.
NoDeadlock ==
    \A waiting \in (SUBSET Session) \ {{}} :
        \E s \in waiting : \A r \in waiting : ~WaitsFor(s, r)

\* On both databases an answer on its way is backed by the log; on SQLite, because only
\* the holder of the write lock writes, and its event is new.
EveryAnswerIsBacked == IF Postgres THEN LogBacksAnswers ELSE AnswersAreBacked

\* The second flush stands in no try: it may rely on it that a session which found no
\* reconciliation row inserts the only one, for it has inserted the transaction as
\* well.  On both databases, whatever other sessions commit meanwhile.
SecondFlushSucceeds ==
    \A s \in Session :
        (pc[s] = "commit" /\ recon[s] = None) => reconciliation[payload[s].transaction_id] = None
=============================================================================
