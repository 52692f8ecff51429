# Setu payment service: TLA+ models, checks and proofs

The service ingests payment lifecycle events (`POST /events`), keeps a status
snapshot per transaction and a reconciliation row beside it, and answers list,
detail and reconciliation queries. This directory models its rules, the way its
requests interleave on the database, its seeders and its bootstrap script; TLC
checks the models on small instances and TLAPS proves the central results for
any number of sessions, events, transactions and merchants.

Everything is written from the code under `src/`. `PROJECT.json` maps every
definition that models code to the lines it stands for.

## 1. The system

| Component | Keeps | Operations | Modelled in |
|---|---|---|---|
| Event ingestion, `app/services/event_service.py` | nothing of its own | `ingest_event` | `PaymentLifecycle` (rules), `Ledger`, `IngestContract`, `EventIngestion`, `DatabaseEngines` |
| Data model, `app/models/models.py` | tables `merchants`, `transactions`, `payment_events`, `reconciliation_records` | constraints, lazy loads | all of them, as variables |
| Session, `app/db/session.py` | one session per request, the engine and its pool | commit, rollback | `EventIngestion` (`Finish`, `Commit`, `Raise`), `DatabaseEngines` |
| Reconciliation queries, `app/services/reconciliation_service.py` | nothing | summary, discrepancies | `Reports`, `TransactionReads` (the pages) |
| Transaction queries, `app/services/transaction_service.py` | nothing | list, detail | `TransactionReads` |
| HTTP API, `app/api`, `app/main.py`, `app/schemas` | nothing | routes, validation | the actions that begin a request |
| Seeder `scripts/seed_db.py` | the rows it computes | four table writes | `SeedState`, `SeedDatabase` |
| Seeder `setu_app/seed.py` | the same | the same | the same, with `FlagsLateProcessed = FALSE` |
| Bootstrap `run.py` | `.venv`, the sources in `setu_app/` | four steps, then the server, or the tests | `Bootstrap`, `Deployment` |
| `setu_app/` service copy | as `app/` | as `app/` | `Deployment` (its sessions and its reports) |
| Tests, container files, sample data, Postman collection | – | – | not modelled |

How they interact: a request opens a session; `ingest_event` runs its statements
through it, with an `await` at each; `get_db` commits after the handler and
before the answer is sent (FastAPI 0.115.5), or rolls back and raises. The four
tables are the only state that requests, readers and seeders share. `run.py`
runs the seeder as a process, waits for it, and then becomes the server; with
`--test` it does the same up to there, in the same directory and on the same
database, and then runs the tests, which have a database of their own in memory.
The server is `uvicorn --reload`: a worker process, which loads the sources and is
replaced, with the requests it is serving, when one of them is written.

What is hard in this code, and what has to be right:

* **Ingestion.** Rows are read before the write lock is taken and written under
  it; every unique-constraint error is taken for a duplicate event; the process
  can die between commit and answer. On PostgreSQL sessions lock rows one by one
  and wait for each other and for a connection. Right means: an accepted event is in the
  log exactly once, nothing half-written is ever visible, the snapshot and the
  reconciliation row follow from the log, a raised flag has its evidence, and
  nobody waits for ever.
* **Order of arrival.** Any of the four event types can come first, `processed`
  and `failed` have equal rank, and the flag is recomputed at every event.
* **Queries.** Each answer is made of several SELECTs with commits in between,
  and pages are cut by OFFSET out of an order that may have ties, while rows
  enter and leave the list.
* **Seeding.** Four transactions, killed and rerun at any point; rows computed
  by a second and a third copy of the rules; files in any order with copies.
* **Bootstrap.** Starts interrupted in or between their steps, which leave half an
  environment or half the sources to the next; a seeder that runs over live data,
  and one that runs, with a rewrite of the sources, beside the server.

## 2. Modules

Order of reading (and the order in which they were planned: the core first).

1. `PaymentLifecycle` – row types and pure rules: `should_advance`,
   `UpsertTransaction`, `UpsertReconciliation`. No state.
2. `Reports` – the WHERE clause, listed reasons and summary groups as operators
   on tables.
3. `Ledger` – the abstract service: one `Ingest` step per accepted event, on all
   four tables at once. It is what one request at a time observes, and the
   reference that the interleaved service is compared with.
4. `IngestContract` – the abstract promise to clients: `Log`, `Acknowledge`,
   `Refuse`.
5. `EventIngestion` – the service statement by statement, any number of sessions,
   on SQLite.
6. `DatabaseEngines` – the same sessions on the database that `DATABASE_URL`
   names: SQLite as before, or PostgreSQL with row locks and a connection pool.
   It reuses `EventIngestion`'s reads, `Commit`, `Raise`, `Respond` and `Crash`
   and replaces only the first flush, and the waits before the second.
7. `TransactionReads` – extends `Ledger` with readers, one SELECT per step: the
   detail, the list of transactions, the list of discrepancies.
8. `SeedState`, `SeedDatabase` – the seeders' computation and their writes.
9. `Bootstrap` – one `run.py` process, with an instance of `SeedDatabase`. A step
   that rewrites something on disk takes it away first, so that an interruption
   leaves it in pieces.
10. `Deployment` – `EventIngestion`'s sessions with two instances of `Bootstrap`
    on the same directory and tables: the one that becomes the server, and
    `run.py --test` beside it; and the worker that loads the sources.
11. `PaymentLifecycleProofs`, `LedgerProofs`, `EventIngestionProofs`,
    `DatabaseEnginesProofs`, `TransactionReadsProofs`, `SeedStateProofs`,
    `SeedDatabaseProofs`, `DeploymentProofs` – theorems (section 4), each module
    on those of the modules that its own extends.
12. `MC*` – the instances that the `.cfg` files check.

`EventIngestion` implements `IngestContract` for every inbox
(`ImplementsContract`) and `Ledger` when requests that overlap are about
different merchants and transactions (`ImplementsLedger`). The refinement
mappings are the identity on the tables: uncommitted rows of a session are not
in them.

Definitions whose comment begins with `Mutant:` are deliberate mistakes: each is
a plausible bug in the definition after it, named by `mutants` in
`PROJECT.json` as the change that breaks a given property. No model uses them.

### State and code

| Model | Code |
|---|---|
| `merchants`, `transactions`, `reconciliation` | the committed tables, `None` where there is no row |
| `payment_events` | the committed log in the order of its id |
| `lock` | SQLite's write lock |
| `pc[s]` | the statement session `s` awaits next |
| `merchant[s]`, `transaction[s]`, `recon[s]` | the objects in the session's identity map, as loaded |
| `outcome[s]` | what the handler will answer |
| `acknowledged`, `refused` | history variables: the answers that left |
| `settled_at` | the event whose ingestion took the instant |
| `database` | `DATABASE_URL`: the dialect, and the size of the pool |
| `holder[row]` | PostgreSQL: the open transaction that has written the row |
| `step`, `test_step` | the step a `run.py` process is in, or what it is in the middle of (`Rewriting`); `ready` is the server or the tests |
| `venv` | which of the directory `.venv`, its pip and the required packages are whole |
| `sources`, `written`, `test_written` | the files of `FILES` that are whole on disk, and how many a process has written |
| `worker` | the process of `uvicorn --reload` that serves |
| `query`, `page`, `total`, `items`, `detail` | the parameters and the answer of a read, as far as it is built |
| `created_at(t)`, `updated_at(t)` | the place in the log of the event that wrote the row first, and last |
| `owed`, `collected`, `left` | history variables of the paging client |
| `reseeded`, `beside` | history variables of `run.py --test`: that it has seeded, what it did to the files |

| Action | Code |
|---|---|
| `Receive` | the route, with a validated body |
| `GetMerchant`, `GetTransaction`, `LoadReconciliation` | `db.get(Merchant)`, `db.get(Transaction)`, and the `selectin` load of its record |
| `Flush`, `FlushRejected` | the first flush, and its `IntegrityError` |
| `SelectReconciliation` | the SELECT after the flush |
| `Commit` | the rest of the handler, the second flush and the commit of `get_db` |
| `Raise` | any statement that fails: rollback and a 500 answer |
| `Respond`, `Crash` | the answer; the death of the process |
| `Connect` | PostgreSQL: the first statement, which takes a connection from the pool |
| `WriteRow`, `WriteRejected` | PostgreSQL: one INSERT or UPDATE of a flush, or its unique violation |
| `CommitRows`, `RaiseRows` | `Commit` and `Raise`, which give the row locks back |
| `ListTxns`, `CountRows`, `SelectRows`, `NextPage` | a list request, its COUNT, its rows; a client that reads on |
| `GetTxn`, `SelectTransaction`, `LoadRelation` | the detail and its four SELECTs |
| `step_venv` | `venv.create`, unless there is a directory `.venv`; the directory is there before pip is |
| `step_install`, `pip_install` | the two `pip install --upgrade`: nothing to do, or the part is taken away and put in place again |
| `step_write_sources` | one file: `write_text` opens it, which empties it, and writes it |
| `step_seed` | one table of the seeder |
| `Exit`, `Start` | a failure or interruption of `run.py` in any step, which leaves things as they are; its next start |
| `Load`, `DropRequests` | uvicorn starts or replaces its worker; the requests in progress go with the old one |
| `Stop` | the server ends |

### What is assumed of SQLite and SQLAlchemy

These are external and modelled from how the code configures and uses them:

* a SELECT outside a write transaction takes no lock that outlives it and sees
  the latest commit; the first INSERT of a session takes the one write lock,
  which it keeps until commit or rollback; a session that cannot get the lock
  waits and fails at the busy timeout (`Raise`);
* a second SELECT of a row that the session has loaded returns the loaded object
  unrefreshed, hence `IF @ = None` in `SelectReconciliation`;
* an UPDATE sets only columns whose assigned value differs from the loaded one
  (`Column`);
* `autoflush=False` and `expire_on_commit=False`: nothing else is sent or read;
* foreign keys are not enforced (no `PRAGMA foreign_keys`); `RowsComplete` and
  `ParentsAreWrittenFirst` check that they hold regardless.

### What is assumed of PostgreSQL and its driver

`DatabaseEngines` rests on these, besides what is said of SQLAlchemy above:

* READ COMMITTED, the default: each SELECT sees the commits before it and waits
  for nobody;
* a flush sends the rows of parents before those of children, one statement per
  table (`FlushOrder`), and a row without a changed column not at all (`Changes`);
* an INSERT or UPDATE of a row that an open transaction has written waits for the
  end of that transaction (`RowIsFree`) and then collides with what is committed,
  or not (`Collides`). Foreign keys take only key-share locks, which an UPDATE of
  other columns does not conflict with, so they cause no wait of their own;
* the log is in the order of the commits: no property reads the sequence behind
  `id`;
* a connection is taken at the session's first statement and given back when its
  transaction ends; waiters for a row and for a connection are served in turn.
  The pool's 30 second timeout and a `lock_timeout` would be a `RaiseRows`.

On SQLite the driver gives every session a connection of its own, hence
`connections = 0` there.

## 3. Runs

| Run | Question | States | Bounds |
|---|---|---|---|
| `ledger` | does one event at a time keep snapshot, settlement, flag and reports equal to what the log says? | 271 thousand | 5 events, 2 transactions, 2 merchants, all types |
| `ingest_concurrent` | what survives interleaved sessions, errors and crashes on either database, and can they wait in a circle? | 1.1 million | 3 sessions with the 3 conflicting events of 1 transaction, 2 merchants, 2 names; SQLite, and PostgreSQL with 3 connections |
| `ingest_retried` | is the client contract kept, does every request end, do retries get in? | 18 thousand | 2 sessions, 2 events, one sent on both; SQLite, and PostgreSQL with pools of 1 and 2 |
| `ingest_sharded` | is the interleaved service the `Ledger` when requests do not meet, and each answer backed? | 704 thousand | 2 sessions, 2 transactions, 2 merchants, 2 events each, the two settlements with one `event_id`; SQLite, and PostgreSQL with 2 connections |
| `seed` | do the seeders write the right rows, killed and rerun at any point? | 1.3 million | files of up to 4 entries, 3 event ids, 3 instants, 1 transaction; files of 2 events of 2 transactions, 2 merchants, 2 names |
| `deployment` | is a served database always complete and consistent over restarts and beside another seeder? | 3.8 million | 1 session, 3 files, 2 live events, 2 bootstraps, 2 sources |
| `reads` | what may an answer miss while events are ingested between its SELECTs? | 394 thousand | 3 transactions, 5 events, 8 queries with page sizes 1 and 2 |

Why the bounds are enough. The rules look at one transaction and at pairs of
events of it (what was stored, what arrives), or at three when a settlement has
to be preceded by a first event, so five events in `ledger` show each
combination with something before and after it, and the seeded files have a first
event, two more and a copy. A second transaction is there to see that nothing
leaks between rows. Two sessions suffice for lost updates, false duplicates and
lock hand-over; a session that waits for one of two others, and a circle longer than
two, need a third, so `ingest_concurrent` has three, each with one of the three event types that can
conflict, two merchants of which one changes its name. The theorems below cover
any number of sessions on either database. `ingest_retried` is about liveness: two events
are enough for a retry that meets its own first request and the first event of
its transaction, and a pool of one connection is the smallest limit there is. The event pool is finite because `event_id` is
unique: a logged event can only be turned away again, which the runs include.
In `ledger` the system stops when all ids are used, hence `CHECK_DEADLOCK FALSE`
there and nowhere else. Event ids are symmetric in `ledger`: no rule compares
them except for equality, and its properties are safety. `deployment` runs one session because
`ingest_concurrent` already covers two and its own question is about
restarts and seeders, with two sources, so that one can be whole while another is in
pieces; its files are two events, an event and its copy, and a
failure, each of which the live events, a processed one that a file also has and a
settlement, continue. In `reads` two transactions have the same amount, two events
of one transaction may arrive in the wrong order, and settlements take
transactions off the discrepancy list while it is paged.

What each run shows, property by property, is in the comments in the modules.
The ones that say most:

* `StatusIsFirstOfHighestRank`, `FlagMatchesLog`, `SettlementIsEarned` (`ledger`)
  define status, flag and settlement from the log alone, and the incremental code
  agrees. A settlement is recorded only when the settled event is not the first
  event of its transaction: a transaction whose first event is `settled` stays
  "pending" for ever unless another settled event comes, and is not listed.
* `StatusHasEvent`, `SettlementHasEvent`, `FlagHasEvidence` (`ingest_concurrent`)
  are what remains of these under interleaving: a stored value can be stale but
  not invented. `StatusForwardOnly` and the equality of `payment_status` and
  `current_status` do not remain.
* `RetriedEventsAreLogged` (`ingest_retried`): a client that keeps sending gets
  its event in once failures cease.
* `NoDeadlock` and `SecondFlushSucceeds` (`ingest_concurrent`): on PostgreSQL the
  parents-first order of both flushes keeps waits free of circles, and the second
  flush, which stands in no `try`, never meets a row that another session has
  inserted, because the transaction's own INSERT has already kept that session
  out. Locking the reconciliation row of a settlement first would lose the former.
* `RequestsEnd` (`ingest_retried`) holds with a pool of one connection and without
  counting on any timeout on PostgreSQL: a session that waits for a connection
  holds no row.
* `PagingMissesNothing` (`reads`): paging by a key that no event changes, where
  no two rows tie, misses at most as many transactions as have left the list
  meanwhile, and none when rows are only inserted; with `updated_at`, or with
  equal amounts, it can miss any, and the property excludes these.
* `DetailIsBacked` (`reads`): four SELECTs with commits between them still give a
  history that explains the status. That history is "ordered by timestamp" only
  among events written with one UTC offset: SQLite does not store it.
* `ReportsAreComplete` (`ledger`): whatever days the transactions were created on,
  the groups by date add up to those by merchant and by status.
* `SeedMatchesIngest` (`seed`) says for which files the seeders and live
  ingestion store the same rows; `DuplicatesChangeNothing` needs the same
  exclusion of transactions whose first event is `settled`.
* `SnapshotsAgree`, `ServedReportsAreComplete` (`deployment`): rows that are
  partly seeded and partly live are reported without the fallback sentence, so
  long as nothing seeds while the server runs. `run.py --test` beside the server
  does: an event ingested between two of its table writes can leave
  `current_status` and `payment_status` apart for good, or a failed and settled
  transaction with its flag taken back. What holds regardless is
  `StatusIsLogged`, `LogIsAppendOnly` and `ServesOnlySeeded`.
* `ServesOnlySeeded` (`deployment`): `.venv` counts as finished as soon as it exists,
  but a start on half an environment ends in `step_install`, whose exit code is looked
  at, and sources are always written again; so a server that is ready had whole ones.
  It does not keep them: `run.py --test`, beside it or killed half-way, can take pip,
  the packages or a source away from under it, and then a worker that is replaced may
  not come up. The property says that nothing else can do this, and that the database
  stays complete all the while.
* `SettlementFollowsStatus` (`ledger`): the row failed / settled that the README
  describes is never stored; see below.

Fairness. Only `ingest_retried` assumes any (`FairEnginesSpec`). On SQLite it is
weak fairness of each session's `Step`: a statement that can go on eventually
does, by an answer of the database, by the busy timeout or by an error of the
driver, and a finished handler sends its answer. The event loop and these
timeouts give that. On PostgreSQL it is weak fairness of the statements that wait
for nobody, and strong fairness of `Connect` and `WriteStatement`: others may take
the connection or the row first, again and again, but both queues are first come,
first served. No failure is assumed there, so requests end without one. Nothing
obliges clients to send or the process to crash or not to crash.

### Where the code and its documentation disagree

There are six disagreements; `PROJECT.json` quotes both sides of each. Five runs with
`"expect": "violation"` each state a sentence of the documentation and find the code
breaking it; the last one is what a property of a passing run shows.

| Run | Sentence | What happens |
|---|---|---|
| `duplicate_not_logged` | a duplicate is an event already processed | the loser of a race for a new merchant's row is told "duplicate" and not logged |
| `status_goes_back` | status only advances | a stale `processed` overwrites `settled` |
| `conflict_is_dropped` | conflicts are flagged, not silently dropped | the next harmless event clears the flag |
| `seed_settle_on_fail` | initiated, failed, settled is a discrepancy | the seeder compares with the status it has just advanced |
| `reseed_goes_back` | seeding twice is safe | a restart puts a live settlement back; no `run.py --test` takes part (`ServerAloneSpec`) |
| `ledger` (passes) | settled after failure is listed as failed / settled | `SettlementFollowsStatus`: it is stored, and listed by its flag, as settled / not_applicable; the arm of the query for failed / settled lists nothing |

## 4. Proofs

Assumptions: `NoneAssumption` (an absent row is not a row, an id or a name),
`SessionAssumption` (sessions are not `None`, inboxes hold events),
`PayloadAssumption` (requests are events), `FilesAssumption` and
`DeploymentAssumption` (files are sequences of entries, there is a source to write) and those on the parameters of `DatabaseEngines` and
`TransactionReads`, all of which the runs evaluate.
Constants are otherwise arbitrary sets, infinite ones included: nothing is said of
how many sessions, events, transactions, merchants or connections there are.
Every inductive invariant was checked by TLC on the run's instance before it was
proved.

**The rules** (`PaymentLifecycleProofs`): types of what they return,
`UpsertTransactionForward`, that a status stays or moves to a higher rank, and what
an event makes of each column (`UpsertSettlement`, `UpsertColumns`,
`UpsertSettledAfterFailed`). Also sums: the
library folds over a set by a function on its subsets, and any two functions that
obey its recursion agree on a finite set, for there is no least subset on which they
differ (`SumsAgree`). So the sizes of the groups of a finite set add up to it
(`GroupsAddUp`).

**One event at a time** (`LedgerProofs`).

* `TypeCorrect`, `StatusIsMirrored`, `StatusMovesForward`, `SettlementAgrees`.
  `MirrorsStatus` is inductive with `TypeOK`: both rows are created by the same
  event with the same status, and `UpdateReconciliation` copies the status that
  `UpsertTransaction` leaves. `SettlementFollowsStatus` needs both, for it reads the
  status through the copy in the other table.
* `StatusIsDecided`, `SettlementsAreEarned`, `FlagsMatchLog`,
  `DiscrepanciesHaveReasons`, `CleanLifecyclesStayUnlisted`: the stored rows are
  what the log, read as a history, says. Each splits the log at its last event:
  `LogGrows` and `HistoryStays` say that an event gets the last position and that
  what the log said up to an earlier one it says still; `IngestIsOneOf` that it is
  of another transaction, the first of its own or a later one. The properties are
  not inductive alone, because the rule decides from the stored columns and they are
  stated on the log; `HistoryInv` adds the way back: what the log records as settled
  is stored so (`RecordedIsSettled`), only a failure closes a settlement
  (`ClosedByFailure`), a flag and its reason come and go together (`FlagHasReason`).
* `ReportsStayComplete`: the summary joins with the merchants, which loses nothing
  (`MerchantsAreStored`, a fact of its own invariant), and its transactions are
  finitely many, as each has an event in the log. Then each sum is the size of what
  the groups hold (`SummaryGroups`), and a group without its date holds what its days
  hold. Nothing depends on there being two days.

**Interleaved sessions on SQLite** (`EventIngestionProofs`).

* `SessionTypeCorrect` and `WritersHoldTheLock`. `TypeInv` holds that a row which a
  session has loaded is still stored, without which an UPDATE of it could not be
  typed; `LockInv` that exactly the session between flush and commit holds the lock.
* `AnswersStayBacked`, `AcceptedEventsStayLogged`, `ContractIsImplemented`. The
  point of `AnswersAreBacked` is `HolderIsNew`: the uniqueness check is made under
  the lock, so the event of its holder stays new until its commit, whatever others
  do. With it `Commit` is `Log`, `Respond` is `Acknowledge` or `Refuse`, and every
  other step stutters. `CommitExtendsLog` is the lemma all of this uses.
* `TablesStayBacked`: `RowsComplete`, `StatusHasEvent`, `SettlementHasEvent` and
  `FlagHasEvidence` together. What a session holds in memory may be stale, so the
  invariant says of the loaded copies what the properties say of the rows: a status,
  a settlement or a conflict that was true of the log when it was read is true of it
  still, because the log only grows.
* `ShardedIngestionIsAtomic`: from `InboxesAreDisjoint`, which the run `ingest_sharded`
  assumes, `Commit` is `Ledger`'s `Ingest` and every other step stutters. `ReadsAreCurrent` is
  the invariant: what a session has loaded is what is stored, as nobody else writes
  these rows.  The lemmas about it (`QuietStepsReadCurrent`, `CommitLeavesReadsCurrent`,
  `CommitIsIngest`) do not mention the write lock, so that they serve both databases.

**Both databases** (`DatabaseEnginesProofs`). `EnginesInv` has, for PostgreSQL, what
the row locks of one session mean (`RowLocks`): a session holds only rows of its own
request and only between its first statement and its commit (`HoldsOwnRows`); past
the first flush it holds every row of it (`FlushIsSent`); during it, none behind a
row still to write (`HoldsInOrder`); and what it has inserted nobody has committed
meanwhile (`InsertsAreNew`).

* `SecondFlushIsSafe`: a session that will insert a reconciliation row has inserted
  the transaction and still holds that row, so no other session has got past it.
* `NobodyWaitsForever`: a session that waits for one that waits as well is at an
  earlier table than that one (`WaitersAreBehind`), as the tables are written in one
  order. In a set whose members all wait for members, all would therefore be at the
  place of the last table or before, of the one before it or before, and so on down
  to none. The argument needs no finite `Session`.
* `EnginesTypeCorrect`, `AnswersStayBackedOnBoth`, `AcceptedStayLoggedOnBoth`, `RowsStayComplete`,
  `StatusStaysLogged`, `SettlementStaysLogged`, `FlagStaysEvident`,
  `ContractOnBothDatabases`: the lemmas about SQLite were stated for one step and
  an invariant without the lock, `LogBacksAnswers`, so they apply to both.
* `ShardedEnginesAreAtomic`: the refinement of `Ledger` on either database, from
  `InboxesAreDisjoint`. The invariant is `EnginesInv` with `ReadsAreCurrent`: what other
  sessions have written and not committed is in no table, so writing a row changes
  nothing that a session has read (`WritesReadCurrent`). Requests that do not meet may still
  bear one `event_id`: the event of a commit is new because its session holds the
  lock of that row (`CommittedEventIsNew`).

**Reads** (`TransactionReadsProofs`). A reader leaves the tables alone, so
`ReadsSpec` implements `Ledger`'s `Spec` and its invariants hold beside the readers
(`LedgerStands`).

* `ReadsTypeCorrect`: listed rows are finitely many because each has an event in
  the log, so COUNT is a number for any `TransactionId`.
* `DetailsAreBacked`: after the first SELECT the stored row is the one read or
  further on, and the event behind the one read is in the log (`DetailStands`); each
  relation is loaded from there.
* `PagesCoverTotals`: between COUNT and the rows the list shrinks only by rows that
  `left` counts.
* `PagingMissesOnlyWhatLeft`: the place of a row is the number of rows before it
  (`PlacesInList`, `AnswerHasPlaces`). A commit takes at most one place from a row
  for each row that leaves (`CommitKeepsOrder`), so at most that many rows slide
  past the places already shown, as places are distinct: that is `PagingStands`. A
  short page ends the list, so whatever it has not shown had slid past.

**The seeder** (`SeedStateProofs`, `SeedDatabaseProofs`). First the computation, for
any file:

* Sorting. A sort is written as the choice, for each k, of the place that has k - 1
  places before it. `PlacesBefore` shows that their number tells places apart,
  `SortedByKey` that each place then has one; `ChronologicalEntries` and
  `EntriesInFileOrder` read this for the two orders of the code.
* The loop. `StatesAfter` is a recursive function: `StatesAfterEntries` shows that
  there is one, and `EntriesStand` carries three statements from one number of
  entries to the next: which rows exist (`RowsStand`), the status
  (`StatusStands`), and settlement and flag (`FlagStands`: the next flag depends on
  the stored settlement, so the two go together). `StatusStep` and `FlagStep`
  are the steps.

Both inductions are over numbers and use that a non-empty set of numbers has a least
one (`LeastNatural`), since no prover instantiates an induction schema. Then the
process:

* `SeedTypeCorrect`, `ParentsAreAlwaysThere`, `SeedEndsComplete`. `Written(n)` says
  what the tables hold when n of them have been written, however often by then;
  `SeedInv` is that there is such an n, no less than the place of `stage`. A kill
  only lowers `stage`: this is why a rerun changes nothing once n = 4
  (`RerunIsSafe`), and before that writes what is there already (`WrittenStep`).
* `SeededStatusIsDecided` and `SeededFlagsMatchFile` follow from `EntriesStand` at
  the end of the file.
* `SeedIsIngest`: without conflicts the two rules agree on every entry
  (`SeedEntryIsIngested`), so on every number of entries.
* `CopiesChangeNothing`: the copies of an entry stand next to it in the order of
  time, and applied twice in a row it is applied once (`EntryTwice`), unless it is a
  settlement and its transaction's first entry. So the rows of the file keep step
  with those of its unique entries (`SameOrder`, `SameRowsWithoutCopies`).

**The deployment** (`DeploymentProofs`), for any number of sessions, any files and two
bootstraps on the same tables. First, the two instances of the seeder compute the rows
that `SeedStateProofs` is about (`ServerComputes`, `TestsComputes`), so one lemma speaks
of a table write of either (`SeedsATable`), and every step of the deployment is one of
four (`StepsOfDeployment`): a session's, a table write of the server's seeder or of the
tests', or one that leaves the tables alone. An action that drops the requests of a
worker is a crash of all sessions or leaves them alone (`RequestsAreDropped`).
`DeploymentInv` has four parts:

* `TablesHaveCause`: each entry of the log is of the file or was sent, and each
  event_id is there once; a transaction that the file does not name has rows exactly
  when it has events; a status is that of an event of the log or of the file, and a
  merchant is stored or will be by the seeder. Other than `RowsComplete`, this holds
  between the four writes of a seeder as well.
* `SessionsInv`: the invariants of `EventIngestionProofs` that a seeder's write keeps,
  which takes place under the lock and deletes nothing. Those that say that
  rows follow from the log are not among them: beside a seeder they are false.
* `BootInv`: types, how far the seeder and the writing of the sources are at each step
  of `run.py`, and that requests are in progress only while the server is ready.
* `SeededSoFar`: what the server's seeder has written by its `stage` stays, since no
  step removes a row or an entry of the log (`TablesGrow`).

From these:

* `DeploymentTypeCorrect` and `LogStaysAppendOnly`.
* `ReadyServerIsSeeded`, `StatusStaysLogged`: at `ready` every event of the file is
  logged, so a status or a row that the file accounts for the log accounts for too.
  For the files on disk there is `FilesInv`, inductive beside `DeploymentInv`: of what
  the server's start has passed, pip, the packages, the first `written` sources, each
  is whole unless the tests' `run.py` is in the very step that rewrites it, and then
  only the source whose turn it is, or was cut short in one (`Disturbs`).
  `ServerKeepsFiles` and `TestsKeepFiles` carry it over the steps of either process:
  a step of the tests puts back what it took away before it goes on, which is why only
  an interruption leaves damage (`beside = "cut_short"`) behind. `ReadyIsWhole` reads
  it at `ready`, where all sources are written.
  They assume `FilesNameTheirEvents`, that an event_id names one event: a seeder skips
  an entry whose event_id is logged, whatever else was logged under it, and writes the
  rows of the entry all the same.
* `SnapshotsStayTogether`, `ServedReportsStayComplete`: the rows of a transaction agree
  (`RowsAgree`) as long as it is `Undisturbed`, that is, no seeder writes it or has half
  written it. A commit keeps this if its session read both rows as they are stored,
  which is why the theorems assume `InboxesAreDisjoint`; the last write of the server's
  own seeder establishes it, for the rows computed from any file agree (`FileCalls`)
  and the transactions still have their computed status (`SeededStatusStays`).

Both assumptions are evaluated by the run `deployment`, as `NamingAssumption`.

**Only model-checked**, and why: liveness (`RequestsEnd`, `RetriedEventsAreLogged`),
which the prover does not reach.

`LockIsHeldToWrite` and `EventIngestion`'s `TypeOK` are proved and not listed by a
run of their own: each is part of one that is (`EveryAnswerIsBacked`, which is
`AnswersAreBacked` on SQLite, and `EnginesTypeOK`).

## 5. Not modelled

* Validation (422 answers), CORS, health routes: they change no state. Among them
  is the comparison of `date_from` with `date_to`, which raises, and so answers
  500, when only one of them has an offset.
* The sums of amounts in the summary, currencies and row ids: no rule reads them.
  An amount is only a sort key, a timestamp only the order of a history.
* The clock. `created_at` and `updated_at` are places in the log, so they never
  tie; amounts do, and stand for every tie. How SQLite compares a date parameter
  that has an offset with a stored instant is left out with it. The seeder's
  order of timestamps is the one of the strings in the file.
* The lists that `Deployment` could serve: they are `TransactionReads`'s, on rows
  of the same types. The readers run on the `Ledger`'s atomic steps, for a reader
  sees commits only; on rows left behind by a race they are not checked.
* Batches of 500 rows: those of one table share a transaction.
* The inside of pip: that it puts a package back when its installation fails is a
  choice of `pip_install` (the part stays away, or is whole in the end), and so is
  whether it finds anything to do. How many packages it had replaced when it was
  interrupted is not told apart.
* The text of the embedded sources. Each goes out in one write, so on disk it is empty or
  whole. Which of them the worker imports is not modelled either: with one in
  pieces the worker may come up or not. A seeder that fails on one is an `Exit`.
* The tests that `run.py --test` runs. They import the sources and change none of
  them.
* The repository's tests, container files, sample data and Postman collection have
  no state; they were read for what is expected of the service.

## 6. Plan

Done: the modules of section 2, and theorems for every safety property that a passing
run checks. Of those, `SnapshotsAgree`, `ServedReportsAreComplete` and
`ImplementsLedger` assume that requests in progress at once are about different
transactions, `ServesOnlySeeded` and `StatusIsLogged` that an event_id names one event.

What could follow: the readers of `TransactionReads` on the rows that interleaved
sessions and seeders leave, for which `RowsComplete` and `StatusHasEvent` would replace
the invariants of the ledger; and a finer `Batch` step in the seeders if batches of a
table should ever be committed apart.
