------------------------------ MODULE Bootstrap ------------------------------
(***************************************************************************)
(* One process of run.py: it creates the virtual environment if there is   *)
(* none, upgrades its packages, writes the sources one by one and seeds    *)
(* the database, whatever it already holds.  Then it is ready: for the     *)
(* server, or with --test for the tests, which have a database of their    *)
(* own in memory.  Killed in the middle of a step, it leaves half of it.   *)
(***************************************************************************)
EXTENDS SeedState

CONSTANTS Files, FlagsLateProcessed,
          NumSources           \* how many files FILES has

VARIABLES
    merchants, transactions, payment_events, reconciliation,
    lock,                  \* the holder of the database's write lock, or None
    venv,                  \* the parts of the directory .venv that are whole
    sources,               \* the source files, by their place in FILES, that are whole
    file, stage,           \* of the seeder
    step, written          \* the step the process is in, and how many sources it has written

tables == <<merchants, transactions, payment_events, reconciliation>>
vars == <<tables, lock, venv, sources, file, stage, step, written>>

Seeder == INSTANCE SeedDatabase

Part == {"dir", "pip", "packages"}
Source == 1..NumSources

\* The steps in which something that was whole on disk may be in pieces.
Rewriting == {"replacing_pip", "replacing_packages", "writing_source"}

BootStep == {"venv", "creating", "upgrade_pip", "install", "write_sources", "seed",
             "ready", "exited"} \cup Rewriting

-----------------------------------------------------------------------------

\* A directory that is already there is taken for a finished environment.  A new one is
\* there some time before it has pip.
step_venv ==
    /\ \/ /\ step = "venv"
          /\ step' = IF venv = {} THEN "creating" ELSE "upgrade_pip"
          /\ UNCHANGED venv
       \/ /\ step = "creating"
          /\ \/ venv' = venv \cup {"dir"} /\ UNCHANGED step
             \/ venv' = venv \cup {"dir", "pip"} /\ step' = "upgrade_pip"
    /\ UNCHANGED <<tables, lock, sources, file, stage, written>>

\* One pip install --upgrade, of part: if there is something newer or missing, what is
\* there is taken away file by file, and part is whole again only when pip is done.
pip_install(from, part, replacing, to) ==
    \/ /\ step = from /\ "pip" \in venv
       /\ \/ part \in venv /\ step' = to /\ UNCHANGED venv
          \/ venv' = venv \ {part} /\ step' = replacing
    \/ /\ step = replacing
       /\ \/ venv' = venv \ {part} /\ UNCHANGED step
          \/ venv' = venv \cup {part} /\ step' = to

\* Mutant: pip is run, and its result is not looked at.
InstallUnchecked ==
    /\ \/ pip_install("upgrade_pip", "pip", "replacing_pip", "install")
       \/ step = "install" /\ step' = "write_sources" /\ UNCHANGED venv
    /\ UNCHANGED <<tables, lock, sources, file, stage, written>>

\* Without a pip to run in the environment, only Exit is left.
step_install ==
    /\ \/ pip_install("upgrade_pip", "pip", "replacing_pip", "install")
       \/ pip_install("install", "packages", "replacing_packages", "write_sources")
    /\ UNCHANGED <<tables, lock, sources, file, stage, written>>

\* The next file of FILES is opened, which empties it, and then its text is written,
\* whatever the file held.
step_write_sources ==
    /\ \/ /\ step = "write_sources"
          /\ sources' = sources \ {written + 1}
          /\ step' = "writing_source"
          /\ UNCHANGED written
       \/ /\ step = "writing_source"
          /\ sources' = sources \cup {written + 1}
          /\ written' = written + 1
          /\ step' = IF written + 1 = NumSources THEN "seed" ELSE "write_sources"
    /\ UNCHANGED <<tables, lock, venv, file, stage>>

\* One transaction of the seeder, a process that run.py waits for; it needs the
\* database's write lock like any other.
step_seed ==
    /\ step = "seed" /\ lock = None
    /\ Seeder!Seed
    /\ step' = IF stage' = "done" THEN "ready" ELSE "seed"
    /\ UNCHANGED <<lock, venv, sources, written>>

\* A step fails, or run.py is interrupted in it: it exits, its seeder with it, and what
\* it was in the middle of stays as it is.
Exit ==
    /\ step \notin {"ready", "exited"}
    /\ step' = "exited" /\ stage' = "merchants" /\ written' = 0
    /\ UNCHANGED <<tables, lock, venv, sources, file>>

\* python3 run.py, again.
Start ==
    /\ step = "exited"
    /\ step' = "venv"
    /\ UNCHANGED <<tables, lock, venv, sources, file, stage, written>>

Next == step_venv \/ step_install \/ step_write_sources \/ step_seed \/ Exit \/ Start
=============================================================================
