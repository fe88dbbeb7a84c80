----------------------------- MODULE LandingLane -----------------------------
(***************************************************************************)
(* AutoDev in database mode: supervisors of one project dispatch workers,  *)
(* land their reviewed candidates on the integration branch one at a time, *)
(* and finish or retire the landings a dead supervisor left behind.        *)
(*                                                                         *)
(* A landing writes four stores one after the other: the landing row, the  *)
(* Git ref, the queue task and the run.  Each write is a step of its own;  *)
(* a supervisor may die, and its loop lease may lapse while it goes on,    *)
(* between any two of them.                                                *)
(*                                                                         *)
(* The branch only grows, so the ref is a sequence and a tip is its length; *)
(* the candidate of run r, rebased onto tip n, is in the ref exactly when  *)
(* ref[n + 1] = r.                                                         *)
(***************************************************************************)
EXTENDS Integers, Sequences, FiniteSets

CONSTANTS
    Run,            \* child runs, one worker attempt each
    Task,           \* tasks of the queue
    TaskOf,         \* the task a run works on
    Supervisor,     \* run-loop processes of the project
    None,
    PushRequired,   \* branch.push of the project
    MaxInProgress,  \* max_in_progress of the queue
    MaxFaults       \* bound: crashes, lapsed leases, foreign commits, human interventions

ASSUME LandingAssumption ==
    /\ None \notin Run \cup Supervisor
    /\ TaskOf \in [Run -> Task]
    /\ PushRequired \in BOOLEAN
    /\ MaxInProgress \in Nat \ {0}
    /\ MaxFaults \in Nat

VARIABLES
    tasks,    \* queue_tasks: status, the run whose lease token it holds, completion_mode
    runs,     \* run.yaml: status, integration_base_sha, HEAD of the worktree
    ledger,   \* landings: state, expected_ref, candidate_sha, pushed
    ref,      \* the integration branch: the run of each commit, None for others'
    lease,    \* owner of the active supervisor lease
    lane,     \* owner of the landing-lane file lock
    sups,     \* local state of each supervisor
    spent     \* the faults so far, by kind

vars == <<tasks, runs, ledger, ref, lease, lane, sups, spent>>
stores == <<tasks, runs, ledger, ref>>
-----------------------------------------------------------------------------
TaskStatus == {"pending", "in_progress", "blocked", "done"}
RunState == {"absent", "working", "candidate_ready", "landing_verifying", "done",
             "failed", "cancelled", "finalize_pending", "cas_failed", "system_error"}
LedgerState == {"absent", "prepared", "integrated", "queue_finalized", "abandoned"}
\* The steps under the lane's lock, and those of them after the branch has moved.
AfterSwap == {"integrated", "landpush", "done", "landed", "finalized"}
InLane == {"verify", "prepare", "cas"} \cup AfterSwap
\* The steps of a reconciliation that has found its candidate on the branch.
Found == {"push", "finalize", "mark", "close"}
PC == {"down", "ledgers", "classify", "retry", "abandon", "orphans", "serve", "land"}
        \cup Found \cup InLane
Tip == Nat

\* todo: what is left of the list the supervisor walks; from: where it lands a
\* candidate for; at, has: what it has read of Git; failed: an error was recorded.
Idle == [pc |-> "down", from |-> "serve", run |-> None, at |-> 0, has |-> FALSE,
         todo |-> {}, wave |-> {}, failed |-> FALSE]

Init ==
    /\ tasks = [t \in Task |-> [status |-> "pending", holder |-> None, mode |-> "none"]]
    /\ runs = [r \in Run |-> [status |-> "absent", base |-> 0, head |-> 0]]
    /\ ledger = [r \in Run |-> [state |-> "absent", expected |-> 0, cand |-> 0, pushed |-> FALSE]]
    /\ ref = <<>>
    /\ lease = None /\ lane = None
    /\ sups = [s \in Supervisor |-> Idle]
    /\ spent = [foreign |-> 0, operator |-> 0, crashes |-> 0, lapses |-> 0]

At(s, pc) == sups[s].pc = pc
Goto(s, pc) == sups' = [sups EXCEPT ![s].pc = pc]
Becomes(r, status) == runs' = [runs EXCEPT ![r].status = status]
FaultsLeft == spent.foreign + spent.operator + spent.crashes + spent.lapses < MaxFaults
Fault(kind) == spent' = [spent EXCEPT ![kind] = @ + 1]
Landed(r, n) == n < Len(ref) /\ ref[n + 1] = r
-----------------------------------------------------------------------------
(* The queue.  Every mutation is one transaction under the manifest row's   *)
(* lock.  A claim's owner, token and revision change together, so the run   *)
(* that holds the token stands for the three.                               *)
ClaimLive(r) == tasks[TaskOf[r]].status = "in_progress" /\ tasks[TaskOf[r]].holder = r
Ends(t, status, mode) ==
    tasks' = [tasks EXCEPT ![t] = [status |-> status, holder |-> None, mode |-> mode]]
InProgress == {t \in Task : tasks[t].status = "in_progress"}

Claimable(t) == tasks[t].status = "pending" /\ Cardinality(InProgress) < MaxInProgress

\* block and release under the claim's own token; otherwise they are refused.
FinishClaim(r, status) ==
    IF ClaimLive(r) THEN Ends(TaskOf[r], status, "none") ELSE UNCHANGED tasks

\* A human's done, block (force_reconcile) and resume.
Operator(t) ==
    /\ FaultsLeft
    /\ \/ tasks[t].status # "done" /\ Ends(t, "done", "manual_reconcile")
       \/ tasks[t].status # "done" /\ Ends(t, "blocked", "none")
       \/ tasks[t].status = "blocked" /\ Ends(t, "pending", "none")
    /\ Fault("operator")
    /\ UNCHANGED <<runs, ledger, ref, lease, lane, sups>>
-----------------------------------------------------------------------------
(* The worker process: it outlives its supervisor.                          *)
WorkerFinishes(r) ==
    /\ runs[r].status = "working"
    /\ \/ Becomes(r, "candidate_ready") /\ UNCHANGED tasks
       \/ Becomes(r, "failed") /\ FinishClaim(r, "blocked")
       \/ Becomes(r, "failed") /\ FinishClaim(r, "pending")
    /\ UNCHANGED <<ledger, ref, lease, lane, sups, spent>>

\* Somebody else pushes to or commits on the integration branch.
ForeignCommit ==
    /\ FaultsLeft
    /\ ref' = Append(ref, None)
    /\ Fault("foreign")
    /\ UNCHANGED <<tasks, runs, ledger, lease, lane, sups>>
-----------------------------------------------------------------------------
(* The loop lease.                                                          *)
\* Mutant of Pending: only the landings whose ref is not known are listed.
PendingMutant == {<<r, ledger[r].cand>> : r \in {q \in Run : ledger[q].state = "prepared"}}
Pending == {<<r, ledger[r].cand>> : r \in {q \in Run : ledger[q].state \in {"prepared", "integrated"}}}

StartLoop(s) ==
    /\ At(s, "down") /\ lease = None
    /\ lease' = s
    /\ sups' = [sups EXCEPT ![s] = [Idle EXCEPT !.pc = "ledgers", !.todo = Pending]]
    /\ UNCHANGED <<stores, lane, spent>>

Stops(s) ==
    /\ sups' = [sups EXCEPT ![s] = Idle]
    /\ lease' = IF lease = s THEN None ELSE lease
    /\ lane' = IF lane = s THEN None ELSE lane

\* A lease is marked expired by the next process that looks at the host row.
LeaseExpires ==
    /\ lease # None
    /\ \/ At(lease, "down") /\ UNCHANGED spent
       \/ /\ ~At(lease, "down") /\ FaultsLeft
          /\ Fault("lapses")
    /\ lease' = None
    /\ UNCHANGED <<stores, lane, sups>>

Crash(s) ==
    /\ ~At(s, "down") /\ FaultsLeft
    /\ sups' = [sups EXCEPT ![s] = Idle]
    /\ lane' = IF lane = s THEN None ELSE lane
    /\ Fault("crashes")
    /\ UNCHANGED <<stores, lease>>
-----------------------------------------------------------------------------
(* _reconcile_database_landings: what a restarted supervisor does with the  *)
(* landings that are not finished, in any order.                            *)
NextItem(s, failed) ==
    sups' = [sups EXCEPT ![s].pc = sups[s].from, ![s].run = None, ![s].failed = @ \/ failed]
NextLedger(s, failed) ==
    sups' = [sups EXCEPT ![s].pc = "ledgers", ![s].run = None, ![s].failed = @ \/ failed]

\* git rev-parse and merge-base, for the candidate the list named.
ReadGit(s) ==
    /\ At(s, "ledgers")
    /\ \E item \in sups[s].todo :
         sups' = [sups EXCEPT ![s] = [sups[s] EXCEPT !.pc = "classify", !.run = item[1],
                    !.at = Len(ref), !.has = Landed(item[1], item[2]), !.todo = @ \ {item}]]
    /\ UNCHANGED <<stores, lease, lane, spent>>

\* Mutant of Classify: a prepared landing is taken for integrated whatever Git says.
ClassifyMutant(s) ==
    LET r == sups[s].run
    IN  /\ At(s, "classify")
        /\ IF ledger[r].state = "prepared" /\ sups[s].at # ledger[r].expected
           THEN ledger' = [ledger EXCEPT ![r].state = "integrated"] /\ Goto(s, "push")
           ELSE Goto(s, "push") /\ UNCHANGED ledger
        /\ UNCHANGED <<tasks, runs, ref, lease, lane, spent>>
\* reconcile_git_fact, with the facts read before.
Classify(s) ==
    LET r == sups[s].run
        row == ledger[r]
    IN  /\ At(s, "classify")
        /\ \/ /\ row.state = "prepared" /\ sups[s].at = row.expected
              /\ sups' = [sups EXCEPT ![s].pc = "land", ![s].from = "ledgers"]
              /\ UNCHANGED ledger
           \/ /\ row.state = "prepared" /\ sups[s].at # row.expected /\ ~sups[s].has
              /\ Goto(s, "retry") /\ UNCHANGED ledger
           \/ /\ row.state = "prepared" /\ sups[s].at # row.expected /\ sups[s].has
              /\ ledger' = [ledger EXCEPT ![r].state = "integrated"]
              /\ Goto(s, "push")
           \/ /\ row.state # "prepared" /\ UNCHANGED ledger
              /\ IF sups[s].has \/ row.state = "queue_finalized"
                 THEN Goto(s, "push") ELSE NextLedger(s, TRUE)
        /\ UNCHANGED <<tasks, runs, ref, lease, lane, spent>>

RetryOrAbandon(s) ==
    /\ At(s, "retry")
    /\ IF ClaimLive(sups[s].run)
       THEN sups' = [sups EXCEPT ![s].pc = "land", ![s].from = "ledgers"]
       ELSE Goto(s, "abandon")
    /\ UNCHANGED <<stores, lease, lane, spent>>

\* abandon_prepared and the _mark_run that follows.
Abandon(s) ==
    LET r == sups[s].run
    IN  /\ At(s, "abandon")
        /\ IF ledger[r].state = "prepared" /\ sups[s].at # ledger[r].expected
           THEN /\ ledger' = [ledger EXCEPT ![r].state = "abandoned"]
                /\ Becomes(r, "cas_failed")
                /\ NextLedger(s, FALSE)
           ELSE NextLedger(s, TRUE) /\ UNCHANGED <<ledger, runs>>
        /\ UNCHANGED <<tasks, ref, lease, lane, spent>>

\* update_evidence of an integrated landing.
RecordPushed(r) ==
    /\ ledger[r].state = "integrated"
    /\ ledger' = [ledger EXCEPT ![r].pushed = TRUE]

\* The push of an integrated landing may fail again; the evidence is recorded.
PushAgain(s) ==
    LET r == sups[s].run
    IN  /\ At(s, "push")
        /\ \/ /\ ledger[r].pushed
              /\ Goto(s, "finalize") /\ UNCHANGED ledger
           \/ ~ledger[r].pushed /\ RecordPushed(r) /\ Goto(s, "finalize")
           \/ ~ledger[r].pushed /\ NextLedger(s, TRUE) /\ UNCHANGED ledger
        /\ UNCHANGED <<tasks, runs, ref, lease, lane, spent>>

FinalizeQueue(s) ==
    LET r == sups[s].run
    IN  /\ At(s, "finalize")
        /\ \/ tasks[TaskOf[r]].status = "done" /\ Goto(s, "mark") /\ UNCHANGED tasks
           \/ /\ ClaimLive(r)
              /\ Ends(TaskOf[r], "done", "autodev_reviewed") /\ Goto(s, "mark")
           \/ /\ tasks[TaskOf[r]].status # "done" /\ ~ClaimLive(r)
              /\ NextLedger(s, TRUE) /\ UNCHANGED tasks
        /\ UNCHANGED <<runs, ledger, ref, lease, lane, spent>>

MarkReconciled(s) ==
    /\ At(s, "mark")
    /\ Becomes(sups[s].run, "done") /\ Goto(s, "close")
    /\ UNCHANGED <<tasks, ledger, ref, lease, lane, spent>>

CloseLedger(s) ==
    LET r == sups[s].run
    IN  /\ At(s, "close")
        /\ IF ledger[r].state = "integrated"
           THEN ledger' = [ledger EXCEPT ![r].state = "queue_finalized"] /\ NextLedger(s, FALSE)
           ELSE NextLedger(s, TRUE) /\ UNCHANGED ledger
        /\ UNCHANGED <<tasks, runs, ref, lease, lane, spent>>

Listed == {<<r, 0>> : r \in {q \in Run : runs[q].status # "absent"}}

\* The loop refuses to dispatch while a landing could not be reconciled.
LedgersDone(s) ==
    /\ At(s, "ledgers") /\ sups[s].todo = {}
    /\ IF sups[s].failed
       THEN Stops(s)
       ELSE /\ sups' = [sups EXCEPT ![s].pc = "orphans", ![s].todo = Listed]
            /\ UNCHANGED <<lease, lane>>
    /\ UNCHANGED <<stores, spent>>
-----------------------------------------------------------------------------
(* _reconcile_orphan_candidates.                                            *)
Orphan(s) ==
    /\ At(s, "orphans")
    /\ \E item \in sups[s].todo :
         LET r == item[1]
             next == [sups[s] EXCEPT !.todo = @ \ {item}]
         IN  /\ sups' = [sups EXCEPT ![s] =
                   IF runs[r].status # "candidate_ready" \/ tasks[TaskOf[r]].status = "done"
                   THEN next
                   ELSE IF ClaimLive(r)
                   THEN [next EXCEPT !.pc = "land", !.from = "orphans", !.run = r]
                   ELSE [next EXCEPT !.failed = TRUE]]
             /\ IF runs[r].status = "candidate_ready" /\ tasks[TaskOf[r]].status = "done"
                THEN Becomes(r, "done") ELSE UNCHANGED runs
    /\ UNCHANGED <<tasks, ledger, ref, lease, lane, spent>>

OrphansDone(s) ==
    /\ At(s, "orphans") /\ sups[s].todo = {}
    /\ IF sups[s].failed
       THEN Stops(s)
       ELSE Goto(s, "serve") /\ UNCHANGED <<lease, lane>>
    /\ UNCHANGED <<stores, spent>>
-----------------------------------------------------------------------------
(* The parallel loop: a wave of workers, then their candidates one by one.  *)
\* A worker claims its task and creates its worktree from the branch's tip.
Dispatch(s) ==
    /\ At(s, "serve")
    /\ \A r \in sups[s].wave : runs[r].status = "working"
    /\ \E r \in Run :
         /\ runs[r].status = "absent" /\ Claimable(TaskOf[r])
         /\ runs' = [runs EXCEPT ![r] = [status |-> "working", base |-> Len(ref), head |-> Len(ref)]]
         /\ tasks' = [tasks EXCEPT ![TaskOf[r]] =
                        [status |-> "in_progress", holder |-> r, mode |-> "none"]]
         /\ sups' = [sups EXCEPT ![s].wave = @ \cup {r}]
    /\ UNCHANGED <<ledger, ref, lease, lane, spent>>

WaveOver(s) == \A r \in sups[s].wave : runs[r].status # "working"
LeaveWave(s, r) == sups' = [sups EXCEPT ![s].wave = @ \ {r}]

\* A failed attempt stays blocked, or is resumed for a retry.
ReadResult(s) ==
    /\ At(s, "serve") /\ WaveOver(s)
    /\ \E r \in sups[s].wave :
         /\ runs[r].status # "candidate_ready"
         /\ \/ UNCHANGED tasks
            \/ tasks[TaskOf[r]].status = "blocked" /\ Ends(TaskOf[r], "pending", "none")
         /\ LeaveWave(s, r)
    /\ UNCHANGED <<runs, ledger, ref, lease, lane, spent>>

\* A blocking finding of the wave, or STOP with halt_before_landing.
CancelCandidate(s) ==
    /\ At(s, "serve") /\ WaveOver(s)
    /\ \E r \in sups[s].wave :
         /\ runs[r].status = "candidate_ready"
         /\ FinishClaim(r, "pending")
         /\ Becomes(r, IF ClaimLive(r) THEN "cancelled" ELSE "system_error")
         /\ LeaveWave(s, r)
    /\ UNCHANGED <<ledger, ref, lease, lane, spent>>

LandOne(s) ==
    /\ At(s, "serve") /\ WaveOver(s)
    /\ \E r \in sups[s].wave :
         /\ runs[r].status = "candidate_ready"
         /\ sups' = [sups EXCEPT ![s] = [sups[s] EXCEPT !.pc = "land", !.from = "serve", !.run = r,
                                                  !.wave = @ \ {r}]]
    /\ UNCHANGED <<stores, lease, lane, spent>>

\* No ready task, the budget or STOP: the loop returns.
LoopEnds(s) ==
    /\ At(s, "serve") /\ sups[s].wave = {}
    /\ Stops(s)
    /\ UNCHANGED <<stores, spent>>
-----------------------------------------------------------------------------
(* _land_candidate: the same path for fresh, orphaned and resumed runs.     *)
LeaveLane(s) == lane' = IF lane = s THEN None ELSE lane
\* An exception ends the loop unless a reconciliation catches it.
Raises(s) ==
    IF sups[s].from = "serve"
    THEN Stops(s)
    ELSE NextItem(s, TRUE) /\ LeaveLane(s) /\ UNCHANGED lease
Fails(s, status) ==
    LET r == sups[s].run
    IN  /\ FinishClaim(r, "blocked")
        /\ Becomes(r, IF ClaimLive(r) THEN status ELSE "system_error")
        /\ NextItem(s, TRUE) /\ LeaveLane(s)
        /\ UNCHANGED lease

\* Without a worktree or capacity the landing fails before it takes the lane.
LandingRefused(s) ==
    /\ At(s, "land")
    /\ Fails(s, "failed")
    /\ UNCHANGED <<ledger, ref, spent>>

\* The lane is taken and the worktree rebased when the tip has moved since it
\* was created; a conflict fails the landing.
EnterLane(s) ==
    LET r == sups[s].run
    IN  /\ At(s, "land") /\ lane = None
        /\ \/ /\ lane' = s
              /\ runs' = [runs EXCEPT ![r].head = IF Len(ref) # runs[r].base THEN Len(ref) ELSE @]
              /\ sups' = [sups EXCEPT ![s].pc = "verify", ![s].at = Len(ref)]
              /\ UNCHANGED <<tasks, lease>>
           \/ Len(ref) # runs[r].base /\ Fails(s, "failed")
        /\ UNCHANGED <<ledger, ref, spent>>

MarkVerifying(s) ==
    /\ At(s, "verify")
    /\ Becomes(sups[s].run, "landing_verifying") /\ Goto(s, "prepare")
    /\ UNCHANGED <<tasks, ledger, ref, lease, lane, spent>>

\* Final verification, the safety policy or the second review.
VerifyFails(s) ==
    /\ At(s, "prepare")
    /\ Fails(s, "failed")
    /\ UNCHANGED <<ledger, ref, spent>>

\* Mutant of Record: the landing is recorded as integrated before Git is asked.
RecordMutant(r, at) == [state |-> "integrated", expected |-> at, cand |-> runs[r].head,
                        pushed |-> ~PushRequired]
Record(r, at) == [state |-> "prepared", expected |-> at, cand |-> runs[r].head,
                  pushed |-> ~PushRequired]
InRef(r) == \E i \in 1 .. Len(ref) : ref[i] = r
\* The identity prepare compares; a candidate the ref has already is rebased
\* to the tip itself, another commit than the one recorded.
SameIdentity(r, at) ==
    ledger[r].expected = at /\ ledger[r].cand = runs[r].head /\ ~InRef(r)

\* Mutant of Replaceable: whether the previous candidate landed is not asked.
ReplaceableMutant(s, r) == ledger[r].state = "prepared"
Replaceable(s, r) ==
    /\ ledger[r].state = "prepared" /\ ledger[r].expected # sups[s].at
    /\ ~Landed(r, ledger[r].cand)

Prepare(s) ==
    LET r == sups[s].run
    IN  /\ At(s, "prepare")
        /\ \/ /\ ledger[r].state = "absent" \/ (~SameIdentity(r, sups[s].at) /\ Replaceable(s, r))
              /\ ledger' = [ledger EXCEPT ![r] = Record(r, sups[s].at)]
              /\ Goto(s, "cas") /\ UNCHANGED <<lease, lane>>
           \/ /\ ledger[r].state # "absent" /\ SameIdentity(r, sups[s].at)
              /\ Goto(s, "cas") /\ UNCHANGED <<ledger, lease, lane>>
           \/ /\ ledger[r].state # "absent" /\ ~SameIdentity(r, sups[s].at) /\ ~Replaceable(s, r)
              /\ Raises(s) /\ UNCHANGED ledger
        /\ UNCHANGED <<tasks, runs, ref, spent>>

\* git update-ref with the tip the lane was entered at as the expected value.
CompareAndSwap(s) ==
    LET r == sups[s].run
    IN  /\ At(s, "cas")
        /\ IF Len(ref) = sups[s].at
           THEN ref' = Append(ref, r) /\ Goto(s, "integrated") /\ UNCHANGED <<tasks, runs, lease, lane>>
           ELSE Fails(s, "cas_failed") /\ UNCHANGED ref
        /\ UNCHANGED <<ledger, spent>>

\* advance to integrated, or update_evidence when it is there already.
RecordIntegrated(s) ==
    LET r == sups[s].run
    IN  /\ At(s, "integrated")
        /\ IF ledger[r].state \in {"prepared", "integrated"}
           THEN /\ ledger' = [ledger EXCEPT ![r].state = "integrated"]
                /\ Goto(s, "landpush") /\ UNCHANGED <<lease, lane>>
           ELSE Raises(s) /\ UNCHANGED ledger
        /\ UNCHANGED <<tasks, runs, ref, spent>>

LeftPending(s) ==
    /\ Becomes(sups[s].run, "finalize_pending")
    /\ NextItem(s, TRUE) /\ LeaveLane(s) /\ UNCHANGED lease

LandingPush(s) ==
    LET r == sups[s].run
    IN  /\ At(s, "landpush")
        /\ \/ ~PushRequired /\ Goto(s, "done") /\ UNCHANGED <<ledger, runs, lease, lane>>
           \/ /\ PushRequired /\ RecordPushed(r)
              /\ Goto(s, "done") /\ UNCHANGED <<runs, lease, lane>>
           \/ PushRequired /\ LeftPending(s) /\ UNCHANGED ledger
           \/ /\ PushRequired /\ ledger[r].state # "integrated"
              /\ Raises(s) /\ UNCHANGED <<ledger, runs>>
        /\ UNCHANGED <<tasks, ref, spent>>

QueueDone(s) ==
    LET r == sups[s].run
    IN  /\ At(s, "done")
        /\ IF ClaimLive(r)
           THEN /\ Ends(TaskOf[r], "done", "autodev_reviewed")
                /\ Goto(s, "landed") /\ UNCHANGED <<runs, lease, lane>>
           ELSE LeftPending(s) /\ UNCHANGED tasks
        /\ UNCHANGED <<ledger, ref, spent>>

MarkLanded(s) ==
    /\ At(s, "landed")
    /\ Becomes(sups[s].run, "done") /\ Goto(s, "finalized")
    /\ UNCHANGED <<tasks, ledger, ref, lease, lane, spent>>

RecordFinalized(s) ==
    LET r == sups[s].run
    IN  /\ At(s, "finalized")
        /\ IF ledger[r].state \in {"integrated", "queue_finalized"}
           THEN /\ ledger' = [ledger EXCEPT ![r].state = "queue_finalized"]
                /\ NextItem(s, FALSE) /\ LeaveLane(s) /\ UNCHANGED lease
           ELSE Raises(s) /\ UNCHANGED ledger
        /\ UNCHANGED <<tasks, runs, ref, spent>>
-----------------------------------------------------------------------------
Reconcile(s) ==
    \/ ReadGit(s) \/ Classify(s) \/ RetryOrAbandon(s) \/ Abandon(s) \/ PushAgain(s)
    \/ FinalizeQueue(s) \/ MarkReconciled(s) \/ CloseLedger(s) \/ LedgersDone(s)
    \/ Orphan(s) \/ OrphansDone(s)
Serve(s) == Dispatch(s) \/ ReadResult(s) \/ CancelCandidate(s) \/ LandOne(s) \/ LoopEnds(s)
Land(s) ==
    \/ LandingRefused(s) \/ EnterLane(s) \/ MarkVerifying(s) \/ VerifyFails(s) \/ Prepare(s)
    \/ CompareAndSwap(s) \/ RecordIntegrated(s) \/ LandingPush(s) \/ QueueDone(s)
    \/ MarkLanded(s) \/ RecordFinalized(s)

Next ==
    \/ \E s \in Supervisor : StartLoop(s) \/ Reconcile(s) \/ Serve(s) \/ Land(s) \/ Crash(s)
    \/ LeaseExpires \/ ForeignCommit
    \/ \E r \in Run : WorkerFinishes(r)
    \/ \E t \in Task : Operator(t)

Spec == Init /\ [][Next]_vars

-----------------------------------------------------------------------------
\* The types of the variables; a task holds a claim exactly while it is in
\* progress, and whoever holds the lane is on its way through a landing.
TasksTyped ==
    /\ tasks \in [Task -> [status : TaskStatus, holder : Run \cup {None},
                           mode : {"none", "manual_reconcile", "autodev_reviewed"}]]
    /\ \A t \in Task : tasks[t].holder # None <=> tasks[t].status = "in_progress"
RunsTyped == runs \in [Run -> [status : RunState, base : Tip, head : Tip]]
LedgerTyped ==
    ledger \in [Run -> [state : LedgerState, expected : Tip, cand : Tip, pushed : BOOLEAN]]
StoresTyped == TasksTyped /\ RunsTyped /\ LedgerTyped /\ ref \in Seq(Run \cup {None})
SupState ==
    [pc : PC, from : {"ledgers", "orphans", "serve"}, run : Run \cup {None}, at : Tip,
     has : BOOLEAN, todo : SUBSET (Run \X Tip), wave : SUBSET Run, failed : BOOLEAN]
TypeOK ==
    /\ StoresTyped
    /\ sups \in [Supervisor -> SupState]
    /\ lease \in Supervisor \cup {None} /\ lane \in Supervisor \cup {None}
    /\ lane # None => sups[lane].pc \in InLane
    /\ spent \in [{"foreign", "operator", "crashes", "lapses"} -> 0 .. MaxFaults]

Undisturbed == spent.operator = 0 /\ spent.lapses = 0

\* No candidate is put on the branch twice, whether by two supervisors that
\* both believe in their lease or by a restart that repeats a landing; and while
\* leases hold and no human touches the queue, no other candidate of its task is
\* either: a task whose candidate has landed is never given to another run
\* (_write_landing_ledger, prepare, claim).
LandedOnce ==
    /\ \A i, j \in 1 .. Len(ref) : ref[i] = ref[j] /\ ref[i] # None => i = j
    /\ Undisturbed =>
        \A r, q \in Run : InRef(r) /\ InRef(q) /\ TaskOf[r] = TaskOf[q] => r = q

\* A landing that is recorded as integrated or closed is on the branch, and one
\* that was given up is not.
LedgerTellsTheTruth ==
    /\ TypeOK
    /\ \A r \in Run :
        /\ ledger[r].state \in {"integrated", "queue_finalized"} => InRef(r)
        /\ ledger[r].state = "abandoned" /\ Undisturbed => ~InRef(r)

\* A supervisor that dispatches work without having recorded an error has left no
\* landed candidate behind: whatever a dead supervisor had reached between Git and
\* the queue is finished before the loop serves again.
RestartFinishesLandings ==
    Undisturbed =>
        \A s \in Supervisor, r \in Run :
            At(s, "serve") /\ ~sups[s].failed /\ InRef(r) => ~ClaimLive(r)

Promise == INSTANCE LandingPromise WITH
    branch <- ref,
    finished <- {t \in Task : tasks[t].mode = "autodev_reviewed"}
Refines == Promise!Spec
=============================================================================
