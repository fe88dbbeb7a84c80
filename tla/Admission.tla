----------------------------- MODULE Admission -----------------------------
(***************************************************************************)
(* From an approved plan to queued jobs.                                    *)
(*                                                                         *)
(* A person projects the plan: the control plane asks AutoDev to import its *)
(* tasks and stores the receipt.  Each scheduler process then looks for     *)
(* issues that are ready, in one query, and admits them one after another,  *)
(* in a transaction each: a run, a job and the issue in progress.           *)
(***************************************************************************)
EXTENDS Integers, Sequences, FiniteSets, SequencesExt

CONSTANTS
    Issue,       \* the issues of the plan
    Needs,       \* issue_dependencies: the issues an issue depends on
    Call,        \* requests to project the plan
    ImportKey,   \* their idempotency keys
    Process,     \* scheduler processes
    Runtime,     \* the seconds a job is given
    MaxClock,    \* bounds on time, on the moves of an issue
    MaxMoves,    \* and on process exits
    MaxExits

None == "none"

ASSUME AdmissionAssumption ==
    /\ IsFiniteSet(Issue)
    /\ Needs \in [Issue -> SUBSET Issue]
    /\ None \notin ImportKey
    /\ Runtime \in Nat \ {0}

VARIABLES
    imports,     \* the imports AutoDev accepted, by key
    projection,  \* the key of the row of queue_projections, if any
    calls,       \* what each request to project is doing
    issues,      \* issues: status and version
    runs,        \* runs, in the order of their insertion
    jobs,        \* scheduler_jobs
    admissions,  \* idempotency_records of scheduler.admit, with their receipt
    batch,       \* the commands a scheduler process has still to admit
    clock,
    exits

autodev == <<imports, projection, calls>>
admitted == <<runs, jobs, admissions>>
admissionVars == <<imports, projection, calls, issues, runs, jobs, admissions,
                   batch, clock, exits>>

AdmissionInit ==
    /\ imports = {}
    /\ projection = None
    /\ calls = [c \in Call |-> [stage |-> "idle", key |-> None]]
    /\ issues = [i \in Issue |-> [status |-> "approved", version |-> 1]]
    /\ runs = <<>>
    /\ jobs = {}
    /\ admissions = {}
    /\ batch = [s \in Process |-> <<>>]
    /\ clock = 0
    /\ exits = 0

-----------------------------------------------------------------------------
(* The projection of the plan.                                              *)

Stage(c, stage) == calls' = [calls EXCEPT ![c].stage = stage]

\* find: a row of the plan, whatever its key, is the answer.
AskProject(c, k) ==
    /\ calls[c].stage = "idle"
    /\ projection = None
    /\ calls' = [calls EXCEPT ![c] = [stage |-> "found_none", key |-> k]]
    /\ UNCHANGED <<imports, projection, issues, admitted, batch, clock, exits>>

\* AutoDev imports a key once; its answer may be lost.
ImportPlan(c, answered) ==
    /\ calls[c].stage = "found_none"
    /\ imports' = imports \cup {calls[c].key}
    /\ Stage(c, IF answered THEN "imported" ELSE "idle")
    /\ UNCHANGED <<projection, issues, admitted, batch, clock, exits>>

\* The row is new, or the key has its row already.  Another key's row of the
\* same plan fails the request on the index over plan and digest.
Unprojected == projection = None

SaveProjection(c) ==
    /\ calls[c].stage = "imported"
    /\ projection' = IF Unprojected THEN calls[c].key ELSE projection
    /\ Stage(c, "idle")
    /\ UNCHANGED <<imports, issues, admitted, batch, clock, exits>>

-----------------------------------------------------------------------------
(* What happens to issues elsewhere.                                        *)

Satisfied(i) == \A d \in Needs[i] : issues[d].status = "completed"

IssueStatus == {"approved", "ready", "in_progress", "blocked", "completed",
                "cancelled"}

\* issueStateMachine.
MayMove(i, to) ==
    LET from == issues[i].status
    IN  \/ from = "approved" /\ to = "ready" /\ Satisfied(i)
        \/ from = "ready" /\ to = "in_progress"
        \/ from = "in_progress" /\ to \in {"blocked", "completed"}
        \/ from = "blocked" /\ to = "ready" /\ Satisfied(i)
        \/ from \notin {"completed", "cancelled"} /\ to = "cancelled"

MoveIssue(i, to) ==
    /\ issues[i].version <= MaxMoves
    /\ MayMove(i, to)
    /\ issues' = [issues EXCEPT ![i] = [status |-> to, version |-> @.version + 1]]
    /\ UNCHANGED <<autodev, admitted, batch, clock, exits>>

-----------------------------------------------------------------------------
(* The scheduler's admission.                                               *)

\* listReady: ready, projected, its dependencies completed, and no job yet.
Admissible(i) ==
    /\ projection # None
    /\ issues[i].status = "ready"
    /\ Satisfied(i)
    /\ ~\E j \in jobs : j.issue = i

Scan(s) ==
    /\ batch[s] = <<>>
    /\ \E i \in Issue : Admissible(i)
    /\ batch' = [batch EXCEPT ![s] = SetToSeq(
            {[issue |-> i, version |-> issues[i].version,
              task |-> <<projection, i>>, deadline |-> clock + Runtime]
                : i \in {i \in Issue : Admissible(i)}})]
    /\ UNCHANGED <<autodev, issues, admitted, clock, exits>>

IdempotencyKey(command) == <<command.issue, command.version>>

\* The issue is locked, and must be ready in its transaction too.
\* Mutant of Ready: what the query saw is trusted.
ReadyMutant(command) == TRUE
Ready(command) == issues[command.issue].status = "ready"

\* COALESCE(max(attempt), 0) + 1 over the runs of the issue.
Attempts(i) ==
    {0} \cup {runs[r].attempt : r \in {r \in DOMAIN runs : runs[r].issue = i}}
NextAttempt(i) == Max(Attempts(i)) + 1

AdmitJob(command) ==
    LET i == command.issue
        run == Len(runs) + 1
    IN  /\ runs' = Append(runs, [issue |-> i, attempt |-> NextAttempt(i)])
        /\ jobs' = jobs \cup {[issue |-> i, run |-> run, task |-> command.task]}
        /\ issues' = [issues EXCEPT ![i] =
                [status |-> "in_progress", version |-> @.version + 1]]
        /\ admissions' = admissions \cup
                {[key |-> IdempotencyKey(command), deadline |-> command.deadline,
                  run |-> run]}

\* A scheduler process that catches nothing exits when an admission fails; it
\* is started again with an empty batch.
Exit(s) ==
    /\ exits < MaxExits
    /\ exits' = exits + 1
    /\ batch' = [batch EXCEPT ![s] = <<>>]
    /\ UNCHANGED <<issues, admitted>>

\* The deadline is a part of the request, so a key of another scan is a conflict
\* although it names the same issue at the same version.
Admit(s) ==
    /\ batch[s] # <<>>
    /\ LET command == Head(batch[s])
           earlier == {a \in admissions : a.key = IdempotencyKey(command)}
           replayed == \E a \in earlier : a.deadline = command.deadline
           allowed == /\ earlier = {}
                      /\ Ready(command)
                      /\ Satisfied(command.issue)
                      /\ command.deadline > clock
       IN  IF replayed \/ allowed
           THEN /\ IF allowed THEN AdmitJob(command) ELSE UNCHANGED <<issues, admitted>>
                /\ batch' = [batch EXCEPT ![s] = Tail(@)]
                /\ exits' = exits
           ELSE Exit(s)
    /\ UNCHANGED <<autodev, clock>>

Crash(s) ==
    /\ batch[s] # <<>>
    /\ Exit(s)
    /\ UNCHANGED <<autodev, clock>>

TimePasses ==
    /\ clock < MaxClock
    /\ clock' = clock + 1
    /\ UNCHANGED <<autodev, issues, admitted, batch, exits>>

AdmissionNext ==
    \/ \E c \in Call :
            \/ \E k \in ImportKey : AskProject(c, k)
            \/ \E answered \in BOOLEAN : ImportPlan(c, answered)
            \/ SaveProjection(c)
    \/ \E i \in Issue, to \in IssueStatus : MoveIssue(i, to)
    \/ \E s \in Process : Scan(s) \/ Admit(s) \/ Crash(s)
    \/ TimePasses

-----------------------------------------------------------------------------
(* Properties.                                                              *)

\* What the rows hold.
IssueRow == [status : IssueStatus, version : Nat \ {0}]
RunRow == [issue : Issue, attempt : Nat \ {0}]
JobRow == [issue : Issue, run : Nat \ {0}, task : ImportKey \X Issue]
AdmissionRow == [key : Issue \X Nat, deadline : Nat, run : Nat \ {0}]
ProjectCall == [stage : {"idle", "found_none", "imported"},
                key : ImportKey \cup {None}]
Command == [issue : Issue, version : Nat, task : ImportKey \X Issue, deadline : Nat]
AdmissionTypes ==
    /\ imports \in SUBSET ImportKey
    /\ projection \in ImportKey \cup {None}
    /\ calls \in [Call -> ProjectCall]
    /\ issues \in [Issue -> IssueRow]
    /\ runs \in Seq(RunRow)
    /\ jobs \in SUBSET JobRow
    /\ admissions \in SUBSET AdmissionRow
    /\ batch \in [Process -> Seq(Command)]
    /\ clock \in Nat /\ exits \in Nat

\* The n-th attempt at an issue follows the n-th time that it was made ready:
\* the moves to and from each count in its version, however many scheduler
\* processes saw it ready, whenever they did, and whatever moved it in between
\* (a command that is late by a whole round of block and release still
\* admits).  Every run has one job, attempts at an issue are told apart, and the
\* issues a started one depends on stay completed; and all jobs name tasks of one
\* import that AutoDev accepted, although two requests to project the plan may
\* both have been imported (postgres-scheduler-admission-repository.ts admit,
\* postgres-scheduler-admission-source.ts listReady,
\* postgres-queue-projection-repository.ts save).
RunsWereReady ==
    /\ \A r \in DOMAIN runs :
        /\ 3 * runs[r].attempt <= issues[runs[r].issue].version
        /\ Satisfied(runs[r].issue)
        /\ \E j \in jobs : j.run = r /\ j.issue = runs[r].issue
    /\ \A q, r \in DOMAIN runs :
        runs[q].issue = runs[r].issue /\ q < r => runs[q].attempt < runs[r].attempt
    /\ \A j, k \in jobs :
        /\ j.run = k.run => j = k
        /\ j.task[1] = k.task[1] /\ j.task[1] \in imports
=============================================================================
