------------------------------ MODULE WorkerPool ------------------------------
(***************************************************************************)
(* run-one processes of several projects on one host: each reads a task,   *)
(* waits for a host slot, claims the task, builds, verifies, waits for the *)
(* evaluator's provider slot, reviews, finishes the task and gives the slot *)
(* back.  The host row (slots, waiting requests) and each project's queue  *)
(* are different transactions, and a worker may die between any two.       *)
(*                                                                         *)
(* Time is a flag: a lease whose expires_at has passed is "overdue" until  *)
(* the next grant marks it expired; a heartbeat cannot bring it back.      *)
(***************************************************************************)
EXTENDS TaskQueue, SequencesExt

CONSTANTS
    TaskOf,          \* the task a worker is spawned for
    Supervised,      \* workers of a supervisor, whose candidates it lands; the others
                     \* finish the task themselves
    ProjectOrder,    \* the projects in the order of their keys
    Provider,
    Builder,         \* the provider a worker builds with
    Evaluator,       \* the provider that reviews
    ProviderLimit,
    MaxActiveWorkers,
    ResourcesOf,     \* exclusive_resources of a declaration: [Task \X spec -> set]
    FailureLimit,    \* policy.same_task_failures_before_block
    MaxFaults        \* bound: workers that die, leases that run out under a live
                     \* worker and queue operations of a human, together

ASSUME PoolAssumption ==
    /\ TaskOf \in [Worker -> Task] /\ Supervised \subseteq Worker
    /\ Project = {ProjectOrder[i] : i \in 1 .. Len(ProjectOrder)}
    /\ {Builder, Evaluator} \subseteq [Worker -> Provider]
    /\ None \notin Provider \cup Project
    /\ ProviderLimit \in [Provider -> Nat \ {0}]
    /\ DOMAIN ResourcesOf = Task \X (0 .. MaxSpec)
    /\ {MaxActiveWorkers, FailureLimit} \subseteq Nat \ {0}
    /\ MaxFaults \in Nat

VARIABLES
    workers,    \* local state of each run-one process
    leases,     \* runtime_leases: one per worker
    waiting,    \* capacity_requests that wait, oldest first
    lastGrant,  \* last_granted_project
    spent       \* faults so far, by kind; the tasks whose claim an exhausted attempt ended

vars == <<tasks, workers, leases, waiting, lastGrant, spent>>
host == <<leases, waiting, lastGrant>>
-----------------------------------------------------------------------------
PC == {"off", "exhausted", "asking", "waiting", "granted", "building", "verifying", "requesting",
       "provider", "reviewing", "reviewed", "finishing", "closing", "over"}
LeaseState == {"none", "active", "overdue", "expired", "released"}

Init ==
    /\ QueueInit
    \* reserved: the resources read with the task; built: the declaration the claim
    \* returned; red: the review found blockers; candidate: a commit waits to be landed;
    \* retry: it ended in a way its supervisor may try again.
    /\ workers = [w \in Worker |-> [pc |-> "off", alive |-> TRUE, reserved |-> {}, built |-> 0,
                                    red |-> FALSE, candidate |-> FALSE, retry |-> FALSE]]
    /\ leases = [w \in Worker |-> [state |-> "none", provider |-> None, resources |-> {}]]
    /\ waiting = <<>> /\ lastGrant = None
    /\ spent = [crashes |-> 0, lapses |-> 0, operator |-> 0, exhausted |-> {}]

Goto(w, pc) == workers' = [workers EXCEPT ![w].pc = pc]
\* The process ends; of what it knew, the run's record keeps a candidate and the outcome.
Ends(w) ==
    workers' = [workers EXCEPT ![w].pc = "over", ![w].reserved = {}, ![w].red = FALSE,
                              ![w].built = IF workers[w].candidate THEN @ ELSE 0]
At(w, pc) == workers[w].pc = pc /\ workers[w].alive
ProjectOf(w) == QueueOf[TaskOf[w]]
Fault(kind) ==
    /\ spent.crashes + spent.lapses + spent.operator < MaxFaults
    /\ spent' = [spent EXCEPT ![kind] = @ + 1]
-----------------------------------------------------------------------------
(* The host row.                                                            *)
Active == {w \in Worker : leases[w].state = "active"}
Request(w, kind, provider, resources) ==
    [owner |-> w, kind |-> kind, provider |-> provider, resources |-> resources]
\* The place of the request a worker waits with, 0 when it waits for nothing.
IndexOf(w) ==
    IF \E i \in DOMAIN waiting : waiting[i].owner = w
    THEN CHOOSE i \in DOMAIN waiting : waiting[i].owner = w ELSE 0
Cancel(w) == waiting' = IF IndexOf(w) = 0 THEN waiting ELSE RemoveAt(waiting, IndexOf(w))

\* _allocatable, with the leases that are left once the overdue ones expired.
\* Mutant of Allocatable: a provider is granted whoever holds it.
AllocatableMutant(q) ==
    /\ q.kind = "worker" => Cardinality(Active) < MaxActiveWorkers
    /\ \A w \in Active : leases[w].resources \cap q.resources = {}
Allocatable(q) ==
    /\ q.kind = "worker" => Cardinality(Active) < MaxActiveWorkers
    /\ Cardinality({w \in Active : leases[w].provider = q.provider}) < ProviderLimit[q.provider]
    /\ \A w \in Active : leases[w].resources \cap q.resources = {}

\* _selected: the oldest request of each project, the projects in turn.
HeadOf(p) == SelectInSeq(waiting, LAMBDA q : ProjectOf(q.owner) = p)
Turn(p) ==
    LET n == Len(ProjectOrder)
        at(q) == CHOOSE i \in 1 .. n : ProjectOrder[i] = q
    IN  IF lastGrant = None THEN at(p) ELSE (at(p) - at(lastGrant) - 1 + n) % n
Heads == {p \in Project : HeadOf(p) # 0 /\ Allocatable(waiting[HeadOf(p)])}
SelectedWorker(i) ==
    \E p \in Heads : i = HeadOf(p) /\ \A o \in Heads : Turn(p) <= Turn(o)
\* _selected_provider: the oldest request for that provider.
SelectedProvider(i) ==
    /\ Allocatable(waiting[i])
    /\ \A k \in 1 .. i - 1 :
         ~(waiting[k].kind = "provider" /\ waiting[k].provider = waiting[i].provider)

\* Only the request that is selected for its owner is granted; a grant marks the
\* overdue leases, and a refused one does too.
Expired == [w \in Worker |-> IF leases[w].state = "overdue"
                             THEN [leases[w] EXCEPT !.state = "expired"] ELSE leases[w]]
ClearProvider(w) ==
    leases[w].state = "active" /\ leases' = [leases EXCEPT ![w].provider = None]
-----------------------------------------------------------------------------
Select(w) ==
    /\ At(w, "off")
    /\ tasks[TaskOf[w]].status # "proposed"
    /\ workers' = [workers EXCEPT
         ![w].pc = IF tasks[TaskOf[w]].failures >= FailureLimit THEN "exhausted" ELSE "asking",
         ![w].reserved = ResourcesOf[<<TaskOf[w], tasks[TaskOf[w]].spec>>]]
    /\ UNCHANGED <<tasks, host, spent>>

\* The retry's source, the base queue, the agents or the host policy are not as they
\* must be, or it is a dry run: the worker ends before it asks for anything.
NotStarted(w) ==
    /\ At(w, "asking")
    /\ workers' = [workers EXCEPT ![w].pc = "over", ![w].reserved = {},
                                  ![w].retry = w \in Supervised]
    /\ UNCHANGED <<tasks, host, spent>>

\* failure_budget_exhausted: force_reconcile_block of the task read before.
BlockExhausted(w) ==
    /\ At(w, "exhausted")
    /\ ForceBlock(TaskOf[w])
    /\ Ends(w)
    /\ spent' = IF tasks[TaskOf[w]].status # "in_progress" THEN spent
                ELSE [spent EXCEPT !.exhausted = @ \cup {TaskOf[w]}]
    /\ UNCHANGED host

AskCapacity(w) ==
    /\ At(w, "asking")
    /\ waiting' = Append(waiting, Request(w, "worker", Builder[w], workers[w].reserved))
    /\ Goto(w, "waiting")
    /\ UNCHANGED <<tasks, leases, lastGrant, spent>>

PollCapacity(w) ==
    /\ At(w, "waiting")
    /\ SelectedWorker(IndexOf(w))
    /\ leases' = [Expired EXCEPT ![w] = [state |-> "active", provider |-> Builder[w],
                                        resources |-> workers[w].reserved]]
    /\ Cancel(w)
    /\ lastGrant' = ProjectOf(w)
    /\ Goto(w, "granted")
    /\ UNCHANGED <<tasks, spent>>

\* A poll that is not granted still marks the overdue leases.
PollMarks(w) ==
    /\ \/ At(w, "waiting") /\ ~SelectedWorker(IndexOf(w))
       \/ At(w, "provider") /\ ~SelectedProvider(IndexOf(w))
    /\ \E v \in Worker : leases[v].state = "overdue"
    /\ leases' = Expired
    /\ UNCHANGED <<tasks, workers, waiting, lastGrant, spent>>

\* The global STOP file or the breaker: the request is cancelled.
GiveUp(w) ==
    /\ At(w, "waiting")
    /\ Cancel(w)
    /\ Ends(w)
    /\ UNCHANGED <<tasks, leases, lastGrant, spent>>

ClaimTask(w) ==
    /\ At(w, "granted")
    /\ IF Claimable(TaskOf[w])
       THEN /\ Claim(w, TaskOf[w])
            /\ workers' = [workers EXCEPT ![w].pc = "building",
                                         ![w].built = tasks[TaskOf[w]].spec]
       ELSE Goto(w, "closing") /\ UNCHANGED tasks
    /\ UNCHANGED <<host, spent>>

\* Mutant of Fails: the attempt returns without close_capacity.
FailsMutant(w, counted, red) ==
    /\ Block(w, TaskOf[w], counted, red)
    /\ Ends(w)
\* An attempt fails: the claim is ended and the slot given back.
Fails(w, counted, red) ==
    /\ Block(w, TaskOf[w], counted, red)
    /\ Goto(w, "closing")
\* It fails in one of the ways a supervisor tries again.
FailsForNow(w, red) ==
    /\ Block(w, TaskOf[w], TRUE, red)
    /\ workers' = [workers EXCEPT ![w].pc = "closing", ![w].retry = w \in Supervised]
\* Nothing was attempted: no worktree, no workspace, no patch to go on from, or no
\* builder could be launched.  The claim is given back.
ReleaseClaim(w) ==
    /\ At(w, "building") \/ At(w, "verifying")
    /\ Release(w, TaskOf[w])
    /\ workers' = [workers EXCEPT ![w].pc = "closing",
                                  ![w].retry = At(w, "verifying") /\ w \in Supervised]
    /\ UNCHANGED <<host, spent>>

\* The builder is done: clear_provider, which a lapsed lease refuses.
Built(w) ==
    /\ At(w, "building")
    /\ \/ ClearProvider(w) /\ Goto(w, "verifying") /\ UNCHANGED tasks
       \/ leases[w].state # "active" /\ Fails(w, TRUE, FALSE) /\ UNCHANGED leases
    /\ UNCHANGED <<waiting, lastGrant, spent>>

Verified(w) ==
    /\ At(w, "verifying")
    /\ \/ Goto(w, "requesting") /\ UNCHANGED tasks
       \/ FailsForNow(w, FALSE)     \* the builder's process failed or was too slow
       \/ Fails(w, TRUE, FALSE)
       \/ Fails(w, TRUE, TRUE)      \* the safety policy, or a changed contract
    /\ UNCHANGED <<host, spent>>

\* request_provider does not look at the expiry.
RequestProvider(w) ==
    /\ At(w, "requesting")
    /\ IF leases[w].state \in {"active", "overdue"}
       THEN /\ waiting' = Append(waiting, Request(w, "provider", Evaluator[w], {}))
            /\ Goto(w, "provider") /\ UNCHANGED tasks
       ELSE Fails(w, TRUE, FALSE) /\ UNCHANGED waiting
    /\ UNCHANGED <<leases, lastGrant, spent>>

\* A grant whose lease is gone raises: the transaction is rolled back, the request
\* cancelled and the claim settled.
PollProvider(w) ==
    /\ At(w, "provider")
    /\ SelectedProvider(IndexOf(w))
    /\ Cancel(w)
    /\ IF leases[w].state = "active"
       THEN /\ leases' = [Expired EXCEPT ![w].provider = Evaluator[w]]
            /\ Goto(w, "reviewing") /\ UNCHANGED tasks
       ELSE Fails(w, TRUE, FALSE) /\ UNCHANGED leases
    /\ UNCHANGED <<lastGrant, spent>>

\* The review is done: clear_provider again, whatever it found.
Reviewed(w) ==
    /\ At(w, "reviewing")
    /\ \/ /\ ClearProvider(w) /\ UNCHANGED tasks
          /\ \E red \in BOOLEAN :
               workers' = [workers EXCEPT ![w].pc = "reviewed", ![w].red = red]
       \/ leases[w].state # "active" /\ Fails(w, TRUE, FALSE) /\ UNCHANGED leases
    /\ UNCHANGED <<waiting, lastGrant, spent>>

\* A red review blocks; a green one is committed, and a supervisor's worker leaves
\* the candidate with its claim to the landing lane.
Settle(w) ==
    /\ At(w, "reviewed")
    /\ \/ workers[w].red /\ FailsForNow(w, TRUE)
       \/ ~workers[w].red /\ Fails(w, TRUE, FALSE)   \* the commit failed
       \/ ~workers[w].red /\ Fails(w, TRUE, TRUE)    \* the safety policy
       \/ /\ ~workers[w].red /\ UNCHANGED tasks
          /\ workers' = [workers EXCEPT ![w].pc = IF w \in Supervised THEN "closing"
                                                                    ELSE "finishing",
                                       ![w].candidate = w \in Supervised]
    /\ UNCHANGED <<host, spent>>

FinishTask(w) ==
    /\ At(w, "finishing")
    /\ IF CanFinish(w, TaskOf[w])
       THEN Finish(TaskOf[w]) /\ Goto(w, "closing")
       ELSE Fails(w, TRUE, FALSE)
    /\ UNCHANGED <<host, spent>>

\* release, which raises out of run_one when the lease is no longer active.
Close(w) ==
    /\ At(w, "closing")
    /\ IF leases[w].state \in {"active", "overdue"}
       THEN /\ leases' = [leases EXCEPT ![w] = [@ EXCEPT !.state = "released", !.provider = None,
                                                         !.resources = {}]]
            /\ Cancel(w)
       ELSE UNCHANGED <<leases, waiting>>
    /\ Ends(w)
    /\ UNCHANGED <<tasks, lastGrant, spent>>
-----------------------------------------------------------------------------
Crash(w) ==
    /\ workers[w].alive /\ workers[w].pc \notin {"off", "over"}
    /\ Fault("crashes")
    /\ workers' = [workers EXCEPT ![w].alive = FALSE, ![w].reserved = {}, ![w].red = FALSE,
                                  ![w].retry = FALSE]
    /\ UNCHANGED <<tasks, host>>

\* A lease runs out: of a dead worker, or of a live one whose heartbeats failed.
RunsOut(w) ==
    /\ leases[w].state = "active"
    /\ IF workers[w].alive THEN Fault("lapses") ELSE UNCHANGED spent
    /\ leases' = [leases EXCEPT ![w].state = "overdue"]
    /\ UNCHANGED <<tasks, workers, waiting, lastGrant>>

\* _read_worker_result of the supervisor: without a candidate, whatever claim the
\* task has is blocked.
SettleDead(w) ==
    /\ w \in Supervised /\ ~workers[w].alive /\ workers[w].pc # "over"
    /\ IF ~workers[w].candidate /\ tasks[TaskOf[w]].status = "in_progress"
       THEN Blocked(TaskOf[w], TRUE, FALSE) ELSE UNCHANGED tasks
    /\ Ends(w)
    /\ UNCHANGED <<host, spent>>

\* The landing lane takes the candidate with the claim of its run: it is landed and
\* the task finished, refused, or cancelled by the breaker.
Land(w) ==
    /\ workers[w].pc = "over" /\ workers[w].candidate
    /\ \/ CanFinish(w, TaskOf[w]) /\ Finish(TaskOf[w])
       \/ \E red \in BOOLEAN : Block(w, TaskOf[w], TRUE, red)
       \/ Release(w, TaskOf[w])
    /\ workers' = [workers EXCEPT ![w].candidate = FALSE, ![w].built = 0]
    /\ UNCHANGED <<host, spent>>

\* The supervisor's resume for another attempt, while its own count of the task's
\* failures, which starts anew with its loop, is below the limit.
Retry(w) ==
    /\ At(w, "over") /\ workers[w].retry /\ FailureLimit > 1
    /\ Resume(TaskOf[w], FALSE)
    /\ workers' = [workers EXCEPT ![w].retry = FALSE]
    /\ UNCHANGED <<host, spent>>

Operator(t) ==
    /\ Fault("operator")
    /\ \/ ForceDone(t)
       \/ tasks[t].status \in {"pending", "in_progress", "blocked"} /\ ForceBlock(t)
       \/ \E reset \in BOOLEAN : Resume(t, reset)
       \/ ImportManifest(t)
    /\ UNCHANGED <<workers, host>>

ApproveTask(t) == Approve(t) /\ UNCHANGED <<workers, host, spent>>
-----------------------------------------------------------------------------
Step(w) ==
    \/ Select(w) \/ BlockExhausted(w) \/ AskCapacity(w) \/ PollCapacity(w) \/ PollMarks(w)
    \/ ClaimTask(w) \/ ReleaseClaim(w) \/ Built(w) \/ Verified(w) \/ RequestProvider(w)
    \/ PollProvider(w) \/ Reviewed(w) \/ Settle(w) \/ FinishTask(w) \/ Close(w)

Next ==
    \/ \E w \in Worker : \/ Step(w) \/ NotStarted(w) \/ GiveUp(w) \/ Crash(w) \/ RunsOut(w)
                          \/ SettleDead(w) \/ Land(w) \/ Retry(w)
    \/ \E t \in Task : Operator(t) \/ ApproveTask(t)

Spec == Init /\ [][Next]_vars

\* A live worker goes on, and a dead one's lease runs out.
Fairness ==
    \A w \in Worker :
        WF_vars(Step(w)) /\ WF_vars(RunsOut(w) /\ ~workers[w].alive) /\ WF_vars(SettleDead(w))
FairSpec == Spec /\ Fairness
-----------------------------------------------------------------------------
Occupying == {w \in Worker : workers[w].alive /\ workers[w].pc \in
    {"granted", "building", "verifying", "requesting", "provider", "reviewing", "reviewed",
     "finishing", "closing"}}
Calling(p) == {w \in Occupying : \/ workers[w].pc = "building" /\ Builder[w] = p
                                 \/ workers[w].pc = "reviewing" /\ Evaluator[w] = p}
\* The worker, or the landing lane for it, still has to end the claim.
Claiming(w) ==
    \/ workers[w].candidate
    \/ w \in Occupying /\ workers[w].pc \notin {"granted", "closing"}
DeadWaiter == \E w \in Worker : ~workers[w].alive /\ IndexOf(w) # 0

(* The state of the pool is well typed: queue rows, leases and requests     *)
(* hold the values their columns allow, and one request waits per worker.   *)
TypeOK ==
    /\ tasks \in [Task -> TaskState]
    /\ workers \in [Worker ->
         [pc : PC, alive : BOOLEAN, reserved : SUBSET UNION {ResourcesOf[d] : d \in DOMAIN ResourcesOf},
          built : 0 .. MaxSpec, red : BOOLEAN, candidate : BOOLEAN, retry : BOOLEAN]]
    /\ \A w \in Worker : leases[w].state \in LeaseState /\ leases[w].provider \in Provider \cup {None}
    /\ \A i, j \in DOMAIN waiting : waiting[i].owner = waiting[j].owner => i = j
    /\ lastGrant \in Project \cup {None}

(* While no live worker lost its lease, the live processes that occupy the  *)
(* host are within max_active_workers and those that call a provider within *)
(* its limit, and no two of them work with one exclusive resource that both *)
(* had read with their task: try_grant and clear_provider keep the rows in  *)
(* step with what the processes do, through crashes and expiry.             *)
HostLimits ==
    /\ TypeOK
    /\ spent.lapses = 0 =>
        /\ Cardinality(Occupying) <= MaxActiveWorkers
        /\ \A p \in Provider : Cardinality(Calling(p)) <= ProviderLimit[p]
        /\ \A v, w \in Occupying :
             v # w => workers[v].reserved \cap workers[w].reserved = {}

(* While no human touched the queue and no process died, a claim stands     *)
(* until its own worker, or the landing lane for it, ends it: through       *)
(* lapsed host leases, other attempts at the task, retries and manifest     *)
(* imports.  The exception is an attempt that finds the budget of the task  *)
(* exhausted: its block asks for no claim and ends whoever's there is.      *)
ClaimStands ==
    spent.operator = 0 /\ spent.crashes = 0 =>
        \A w \in Worker :
            Claiming(w) /\ TaskOf[w] \notin spent.exhausted => HoldsLease(w, TaskOf[w])

(* A task becomes done as reviewed only by the attempt that holds its claim, *)
(* whose review was green and which built the declaration that stands now:  *)
(* done compares the token of the claim and the digest, so an attempt that  *)
(* lost its claim cannot finish the next one's.  And a task whose review    *)
(* was red stays gated, through resume, retry, import and reconciliation by *)
(* hand, until such an attempt finishes it.                                 *)
DoneMeansReviewed ==
    [][\A t \in Task :
         /\ tasks[t].mode # tasks'[t].mode /\ tasks'[t].mode = "autodev_reviewed" =>
             \E w \in Worker : /\ tasks[t].holder = w /\ workers'[w] # workers[w]
                               /\ workers[w].built = tasks[t].spec /\ ~workers[w].red
         /\ tasks[t].gate => \/ tasks'[t].gate /\ tasks'[t].status # "done"
                            \/ tasks'[t].mode = "autodev_reviewed"]_vars

(* A worker that waits for a host slot is granted one or gives up, unless a *)
(* worker died while it waited: nothing removes that one's request.         *)
WaitersServed ==
    \/ <>DeadWaiter
    \/ \A w \in Worker : At(w, "waiting") ~> ~At(w, "waiting")
=============================================================================
