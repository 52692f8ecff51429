-------------------------- MODULE MCDatabaseEngines --------------------------
(* DatabaseEngines on small instances: SQLite, and PostgreSQL with one       *)
(* connection, two or three.                                                 *)
EXTENDS DatabaseEngines, TLC

CONSTANTS s1, s2, s3, e1, e2, e3, t1, t2, m1, m2, n1, n2

EventOf(e, type, t, m, n) ==
    [event_id |-> e, event_type |-> type, transaction_id |-> t,
     merchant_id |-> m, merchant_name |-> n]

Event(e, type, m, n) == EventOf(e, type, t1, m, n)

Sqlite == [dialect |-> "sqlite", connections |-> 0]

PostgresOf(n) == [dialect |-> "postgresql", connections |-> n]

BothDatabases == {Sqlite, PostgresOf(3)}

SharedPool == {Sqlite, PostgresOf(2)}

SmallPools == {Sqlite, PostgresOf(1), PostgresOf(2)}

\* The three events of a transaction that conflict with one another, all at once, from
\* two merchants, one of which has changed its name.
ContendedInbox ==
    s1 :> {Event(e1, "payment_failed", m1, n1)}
    @@ s2 :> {Event(e2, "settled", m1, n2)}
    @@ s3 :> {Event(e3, "payment_processed", m2, n1)}

\* The same event arrives on both connections, as a retry does, next to the first event
\* of its transaction.
RetriedInbox ==
    s1 :> {Event(e1, "payment_initiated", m1, n1), Event(e2, "settled", m1, n1)}
    @@ s2 :> {Event(e2, "settled", m1, n1)}

\* Two transactions of two merchants.  Their settlements bear the same event_id.
ShardedInbox ==
    s1 :> {EventOf(e1, "payment_failed", t1, m1, n1), EventOf(e2, "settled", t1, m1, n2)}
    @@ s2 :> {EventOf(e3, "payment_processed", t2, m2, n1), EventOf(e2, "settled", t2, m2, n1)}

ASSUME ShardingAssumption == Inbox = ShardedInbox => InboxesAreDisjoint
=============================================================================
