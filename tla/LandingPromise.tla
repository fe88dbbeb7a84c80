---------------------------- MODULE LandingPromise ----------------------------
(***************************************************************************)
(* What the landing lane promises of a project: a candidate reaches the    *)
(* integration branch at most once and stays where it is, a task is        *)
(* finished by AutoDev only when a candidate of it is on the branch, and   *)
(* what is finished stays finished.  Others commit to the branch too.       *)
(***************************************************************************)
EXTENDS Sequences

CONSTANTS Run, Task, TaskOf, None

VARIABLES
    branch,    \* the integration branch, oldest first: candidates, and None for
               \* a commit of others
    finished   \* the tasks AutoDev has finished

On(r) == \E i \in DOMAIN branch : branch[i] = r

Init == branch = <<>> /\ finished = {}

Integrate(r) ==
    /\ ~On(r)
    /\ branch' = Append(branch, r)
    /\ UNCHANGED finished

CommitByOthers ==
    /\ branch' = Append(branch, None)
    /\ UNCHANGED finished

Finish(t) ==
    /\ \E r \in Run : TaskOf[r] = t /\ On(r)
    /\ finished' = finished \cup {t}
    /\ UNCHANGED branch

Next == (\E r \in Run : Integrate(r)) \/ (\E t \in Task : Finish(t)) \/ CommitByOthers

Spec == Init /\ [][Next]_<<branch, finished>>
=============================================================================
