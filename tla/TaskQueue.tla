------------------------------ MODULE TaskQueue ------------------------------
(***************************************************************************)
(* The database task queue of AutoDev.  Every operation is one transaction *)
(* that locks the project's manifest row, so each is one operator here.    *)
(* A claim's owner, lease token and revision change together: the worker   *)
(* that holds the claim stands for the three.                              *)
(***************************************************************************)
EXTENDS Integers, FiniteSets

CONSTANTS
    Task, Project,
    QueueOf,         \* the project whose queue a task is in
    Proposed,        \* tasks a human has not approved yet
    DependsOn,       \* dependencies of a task's declaration
    Worker,          \* run-one processes
    None,
    MaxInProgress,   \* policy.max_in_progress
    MaxSpec          \* bound: changes of a task's declaration

ASSUME QueueAssumption ==
    /\ QueueOf \in [Task -> Project]
    /\ Proposed \subseteq Task
    /\ DependsOn \in [Task -> SUBSET Task]
    /\ None \notin Worker
    /\ MaxInProgress \in Nat \ {0} /\ MaxSpec \in Nat

VARIABLE tasks   \* queue_tasks

TaskState ==
    [status : {"proposed", "pending", "in_progress", "blocked", "done"},
     holder : Worker \cup {None},   \* owner, lease_token and revision of the claim
     spec : 0 .. MaxSpec,           \* spec_digest
     claimed : 0 .. MaxSpec,        \* claimed_spec_digest
     failures : Nat,                \* autodev_failure_count
     gate : BOOLEAN,                \* required_gate: an independent review
     mode : {"none", "manual_reconcile", "autodev_reviewed"}]

QueueInit ==
    tasks = [t \in Task |->
               [status |-> IF t \in Proposed THEN "proposed" ELSE "pending", holder |-> None,
                spec |-> 0, claimed |-> 0, failures |-> 0, gate |-> FALSE, mode |-> "none"]]

DepsReady(t) == \A d \in DependsOn[t] : tasks[d].status = "done"
InProgress(p) == {t \in Task : QueueOf[t] = p /\ tasks[t].status = "in_progress"}

\* Mutant of Claimable: a task that is in progress can be claimed again.
ClaimableMutant(t) ==
    tasks[t].status \in {"pending", "in_progress"} /\ DepsReady(t)
Claimable(t) ==
    /\ tasks[t].status = "pending"
    /\ Cardinality(InProgress(QueueOf[t])) < MaxInProgress
    /\ DepsReady(t)
Claim(w, t) ==
    tasks' = [tasks EXCEPT ![t].status = "in_progress", ![t].holder = w,
                           ![t].claimed = tasks[t].spec]

\* _require_active_lease
\* Mutant of HoldsLease: the token of the claim is not compared.
HoldsLeaseMutant(w, t) == tasks[t].status = "in_progress"
HoldsLease(w, t) == tasks[t].status = "in_progress" /\ tasks[t].holder = w

\* done with the claim's own token, after the review.
CanFinish(w, t) == HoldsLease(w, t) /\ tasks[t].claimed = tasks[t].spec
Finish(t) ==
    tasks' = [tasks EXCEPT ![t].status = "done", ![t].holder = None, ![t].failures = 0,
                           ![t].gate = FALSE, ![t].mode = "autodev_reviewed"]

\* block; a failure is counted, and a red review leaves a gate on the task.
Blocked(t, counted, red) ==
    tasks' = [tasks EXCEPT ![t].status = "blocked", ![t].holder = None,
                           ![t].failures = @ + (IF counted THEN 1 ELSE 0),
                           ![t].gate = @ \/ red]
Block(w, t, counted, red) ==
    IF HoldsLease(w, t) THEN Blocked(t, counted, red) ELSE UNCHANGED tasks

Release(w, t) ==
    IF HoldsLease(w, t)
    THEN tasks' = [tasks EXCEPT ![t].status = "pending", ![t].holder = None]
    ELSE UNCHANGED tasks

\* block with force_reconcile: whoever holds the claim.
ForceBlock(t) ==
    IF tasks[t].status \in {"pending", "in_progress", "blocked"}
    THEN Blocked(t, FALSE, FALSE) ELSE UNCHANGED tasks

\* done with force_reconcile: refused while a review is owed.
ForceDone(t) ==
    /\ tasks[t].status \in {"pending", "in_progress", "blocked"} /\ ~tasks[t].gate
    /\ tasks' = [tasks EXCEPT ![t].status = "done", ![t].holder = None,
                              ![t].mode = "manual_reconcile"]

Resume(t, reset) ==
    /\ tasks[t].status = "blocked" /\ DepsReady(t)
    /\ tasks' = [tasks EXCEPT ![t].status = "pending", ![t].holder = None,
                              ![t].failures = IF reset THEN 0 ELSE @]

Approve(t) ==
    /\ tasks[t].status = "proposed"
    /\ tasks' = [tasks EXCEPT ![t].status = "pending"]

\* import_manifest: the declaration of a claimed task may not change.
ImportManifest(t) ==
    /\ tasks[t].spec < MaxSpec /\ tasks[t].status # "in_progress"
    /\ tasks' = [tasks EXCEPT ![t].spec = @ + 1]
=============================================================================
