---------------------------- MODULE MCTrialUpdate ----------------------------
(***************************************************************************)
(* TrialUpdate on small instances: one or two command lines, a boot limit  *)
(* of one or two attempts, and the sets of faults the runs tell apart.     *)
(***************************************************************************)
EXTENDS TrialUpdate, TLC

\* The failures a verb notices: it returns an error or logs a warning, and
\* leaves the boot variables as they were.
NoticedFaults == {"save", "clear", "prepare", "swap", "read", "kill"}

\* Without the failing os.Remove: a record commit could not clear is taken up
\* again by the next commit, next to a rollback that runs at the same time.
RacingFaults == NoticedFaults \ {"clear"}

BothUnits == {"verify", "commit"}

\* The command lines are interchangeable.
Interchangeable == Permutations(Procs)

\* After whatever failures and cuts, once calls stop failing and the board, which
\* is rebooted now and then, goes down only with nobody at work, no update stays
\* swapped: the units of a later boot commit it or mark it failed.
Calm == INSTANCE TrialUpdate WITH Faults <- {}

Quiet ==
    /\ <>[][Calm!Next /\ (running' = Off => running = Off \/ (Idle /\ units = {}))]_vars
    /\ []<>(running = Off)

PendingResolved == Quiet => []<>(state.phase # "swapped")
=============================================================================
