------------------------- MODULE SchedulerPromises -------------------------
(***************************************************************************)
(* The scheduler and the event inbox together, against the life of a Run   *)
(* they implement.                                                         *)
(***************************************************************************)
EXTENDS Scheduler

\* updateRunAndOutbox moves a Run from any unfinished status to any other.
CommittedMoves ==
    {"queued"} \X ({"running"} \cup RunTerminal) \cup {"running"} \X RunTerminal

Committed == INSTANCE RunLifecycle
    WITH Run <- Job, Moves <- CommittedMoves, status <- runs, published <- outbox

\* All writers of the Run together (supervisors, the event inbox) make it move
\* forward only, and publish each move once, in order, with the move itself.
CommittedRun == Committed!Spec
=============================================================================
