----------------------------- MODULE Deployment -----------------------------
(***************************************************************************)
(* The service as run.py brings it up, on one machine: a process that      *)
(* bootstraps and then becomes the server, and beside it, at any time, a   *)
(* run.py --test, which bootstraps in the same directory and seeds the     *)
(* same database before it tests.  The server's sessions are those of      *)
(* EventIngestion, on the tables both bootstraps seed, and they are served *)
(* by a worker process that loads the sources both bootstraps write.       *)
(***************************************************************************)
EXTENDS EventIngestion

CONSTANTS Files, FlagsLateProcessed, NumSources

VARIABLES
    venv, sources, file,
    step, stage, written,                \* of the run.py that starts the server
    test_step, test_stage, test_written, \* of run.py --test
    worker,   \* the server's worker process: "starting", "up" or "down"
    reseeded, \* history: the tests' run.py has seeded since the server's did
    beside    \* history: what it did to the files since the server's was started

started == <<step, stage, written>>
tested == <<test_step, test_stage, test_written>>
bootstrap == <<venv, sources, file, started, tested, worker, reseeded, beside>>
all_vars == <<vars, bootstrap>>

Server == INSTANCE Bootstrap

Tests == INSTANCE Bootstrap WITH step <- test_step, stage <- test_stage, written <- test_written

ASSUME DeploymentAssumption ==
    /\ Files \subseteq Seq(Server!Seeder!FileEvent) /\ FlagsLateProcessed \in BOOLEAN
    /\ NumSources \in Nat \ {0}

\* Files and clients agree that an event_id names one event, with its type and its
\* transaction: an assumption of the theorems that cite it.  Without it a live event can
\* take the place of one of the file and leave the rows of the file's transaction without
\* an event.
FilesNameTheirEvents ==
    \A f \in Files : \A i \in DOMAIN f :
        \A p \in AnyPayload \cup {f[j] : j \in DOMAIN f} :
            p.event_id = f[i].event_id =>
                /\ p.event_type = f[i].event_type
                /\ p.transaction_id = f[i].transaction_id

DeploymentTypeOK ==
    /\ TypeOK
    /\ venv \subseteq Server!Part /\ sources \subseteq Server!Source
    /\ file \in Files
    /\ step \in Server!BootStep /\ stage \in Server!Seeder!Stage
    /\ test_step \in Server!BootStep /\ test_stage \in Server!Seeder!Stage
    /\ written \in 0..NumSources /\ test_written \in 0..NumSources
    /\ worker \in {"starting", "up", "down"}
    /\ reseeded \in BOOLEAN
    /\ beside \in {"nothing", "rewrote", "cut_short"}

DeploymentInit ==
    /\ Init
    /\ venv = {} /\ sources = {}
    /\ file \in Files
    /\ step = "exited" /\ stage = "merchants" /\ written = 0
    /\ test_step = "exited" /\ test_stage = "merchants" /\ test_written = 0
    /\ worker = "starting"
    /\ reseeded = FALSE
    /\ beside = "nothing"

-----------------------------------------------------------------------------

\* A step of the bootstrap of the server.
run_server ==
    /\ Server!Next
    /\ reseeded' = IF step = "seed" /\ step' = "ready" THEN FALSE ELSE reseeded
    /\ beside' = IF step # "exited" THEN beside
                 ELSE IF test_step \in Server!Rewriting THEN "rewrote" ELSE "nothing"
    /\ UNCHANGED <<locals, answers, tested, worker>>

\* A step of the bootstrap of the tests.
run_tests ==
    /\ Tests!Next
    /\ reseeded' = (reseeded \/ test_step = "seed")
    /\ beside' = IF test_step \in Server!Rewriting /\ test_step' = "exited" THEN "cut_short"
                 ELSE IF test_step' \in Server!Rewriting /\ beside = "nothing" THEN "rewrote"
                 ELSE beside
    /\ UNCHANGED <<locals, answers, started, worker>>

\* The tests end.
pytest ==
    /\ test_step = "ready"
    /\ test_step' = "exited" /\ test_stage' = "merchants" /\ test_written' = 0
    /\ UNCHANGED <<vars, venv, sources, file, started, worker, reseeded, beside>>

\* A request comes in for session s of the service.
post_event(s) == \E p \in Inbox[s] : Receive(s, p)

\* The service executes the next statement of session s.
ingest_event(s) == Step(s)

\* The server answers requests, while it has a worker.
Serve ==
    /\ step = "ready" /\ worker = "up"
    /\ \E s \in Session : post_event(s) \/ ingest_event(s)
    /\ UNCHANGED bootstrap

\* What is in progress goes when the worker does.
DropRequests == IF \E s \in Session : pc[s] # "idle" THEN Crash ELSE UNCHANGED vars

Loadable == "packages" \in venv /\ sources = Server!Source

\* uvicorn starts its worker, or with --reload replaces it when a source has been written
\* (here, at any time).  The worker loads what is there then; one that finds a source or
\* a package in pieces may not come up, if it is one that it imports.
Load ==
    /\ step = "ready"
    /\ DropRequests
    /\ worker' \in IF Loadable THEN {"up"} ELSE {"up", "down"}
    /\ UNCHANGED <<venv, sources, file, started, tested, reseeded, beside>>

\* The server is stopped or dies, with the requests it was serving.
Stop ==
    /\ step = "ready"
    /\ DropRequests
    /\ step' = "exited" /\ stage' = "merchants" /\ written' = 0
    /\ worker' = "starting"
    /\ UNCHANGED <<venv, sources, file, tested, reseeded, beside>>

DeploymentNext == run_server \/ run_tests \/ pytest \/ Serve \/ Load \/ Stop

DeploymentSpec == DeploymentInit /\ [][DeploymentNext]_all_vars

\* No run.py --test on this machine.
ServerAloneSpec == DeploymentInit /\ [][run_server \/ Serve \/ Load \/ Stop]_all_vars

-----------------------------------------------------------------------------
(* The reports of the service that run.py starts.                          *)

\* transaction_count of each group, of merchant m or of all; the days are the ledger's.
get_reconciliation_summary(created_on, group_by, m) ==
    AtomicLedger!Summary(merchants, transactions, created_on, group_by, m)

\* The reason given for each transaction that is listed.
get_discrepancies(m) ==
    [t \in AtomicLedger!Discrepancies(transactions, reconciliation, m)
        |-> AtomicLedger!ListedReason(reconciliation[t])]

-----------------------------------------------------------------------------
(* Properties.                                                             *)

\* A server that is ready, whatever starts before it were cut short, and where: its
\* database holds every event of the file and the rows these events need.  Its environment
\* and its sources are whole, unless a run.py --test is rewriting a part of them now or
\* was cut short while it did, since this server was started; and only beside such a
\* run.py does its worker fail to come up.
ServesOnlySeeded ==
    step = "ready" =>
        /\ \A i \in DOMAIN file : file[i].event_id \in Logged
        /\ RowsComplete
        /\ (beside # "cut_short" /\ test_step \notin Server!Rewriting) =>
              venv = Server!Part /\ sources = Server!Source
        /\ worker = "down" => beside # "nothing"

\* Seeding and ingestion together log an event_id once, and never take an event back:
\* the log only grows, over restarts too.
LogIsAppendOnly ==
    [][/\ Len(payment_events') >= Len(payment_events)
       /\ \A i \in DOMAIN payment_events : payment_events'[i] = payment_events[i]
       /\ \A i, j \in DOMAIN payment_events' :
             payment_events'[i].event_id = payment_events'[j].event_id => i = j]_all_vars

\* Seeding over live data may put a status back, but only to one that the log has.
StatusIsLogged ==
    step = "ready" =>
        \A t \in TransactionId : transactions[t] # None =>
            \E i \in Positions(t) : transactions[t].current_status
                                       = EVENT_TO_STATUS[payment_events[i].event_type]

\* While the server runs on what its own start has seeded, a transaction's snapshot and
\* its reconciliation row have the same status, though the seeder writes them apart.  (A
\* live event between two of the seeder's transactions can leave them apart for good; so
\* can two requests in progress at once, if they are about one transaction.)
SnapshotsAgree ==
    (step = "ready" /\ ~reseeded) =>
        \A t \in TransactionId : transactions[t] # None =>
            reconciliation[t].payment_status = transactions[t].current_status

\* Rows that the seeder wrote, some of them continued by live events, are reported as
\* live ones are: the summary counts every transaction, and what is listed is stuck or
\* stores the conflict it is listed for; no row is one that the rules cannot explain.
\* (Beside a seeder it can be one: failed and settled, its flag taken back.)
ServedReportsAreComplete ==
    step = "ready" =>
        /\ \A created_on \in [TransactionId -> 1..2], group_by \in {"merchant", "date", "status"} :
              AtomicLedger!TotalTransactions(get_reconciliation_summary(created_on, group_by, None))
                  = Cardinality({t \in TransactionId : transactions[t] # None})
        /\ ~reseeded => \A t \in DOMAIN get_discrepancies(None) :
              \/ get_discrepancies(None)[t] = "stuck"
              \/ /\ reconciliation[t].discrepancy_flag
                 /\ get_discrepancies(None)[t] = reconciliation[t].discrepancy_reason

-----------------------------------------------------------------------------
(* What the documentation says of seeding again.                           *)

\* "Safe to run multiple times": a later start does not take a transaction back to an
\* earlier status.
RestartKeepsStatus ==
    [][\A t \in TransactionId : AtomicLedger!Forward(transactions[t], transactions'[t])]_all_vars
=============================================================================
