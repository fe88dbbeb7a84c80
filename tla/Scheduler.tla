------------------------------ MODULE Scheduler ------------------------------
(***************************************************************************)
(* The P7 execution scheduler: supervisor processes that share PostgreSQL  *)
(* and launch AutoDev child processes.  One action is one repository call  *)
(* (a database transaction) or one gateway call, because every await in    *)
(* SchedulerSupervisor.tick lets the other supervisors, the operator, the  *)
(* child processes and the clock move.  A supervisor reads its clock once  *)
(* per tick and uses that reading, by then possibly old, until the end.    *)
(***************************************************************************)
EXTENDS Integers, Sequences, FiniteSets

CONSTANTS
    Job,            \* scheduler jobs; a job and its Run are one to one
    Node,           \* execution nodes
    Supervisor,     \* scheduler processes (supervisorId)
    Project,        \* projects with jobs
    Global,         \* the key of the global execution control
    None,           \* SQL NULL
    ProjectOf,      \* [Job -> Project]
    HomeNode,       \* [Supervisor -> Node], EXECUTION_NODE_ID of the process
    Capable,        \* [Job -> SUBSET Node], nodes advertising the capability
    Capacity,       \* [Node -> Nat], max_concurrent_runs
    Deadline,       \* [Job -> Nat], deadline_at
    MaxAttempts,    \* max_attempts of every job
    LeaseDuration,  \* leaseDurationMs in clock ticks
    NodeTtl,        \* offline_after - heartbeat_at in clock ticks
    RetryDelay,     \* the retry back-off in clock ticks
    CircuitPeriod,  \* how long an opened circuit stays open
    Outcome,        \* the outcomes a child may record
    Operation,      \* the operator commands that may come
    MaxTime,        \* bound: last value of the clock
    MaxVersion,     \* bound: no job is claimed again at this row version
    MaxCrashes,     \* bound: process crashes in a behaviour
    MaxCommands     \* bound: operator commands in a behaviour

Scope == Project \cup {Global}
JobState == {"pending", "claimed", "starting", "running", "retry_wait",
             "succeeded", "failed", "cancelled", "blocked"}
RunTerminal == {"succeeded", "failed", "cancelled"}
JobTerminal == RunTerminal \cup {"blocked"}
RunStatus == {"queued", "running"} \cup RunTerminal
CircuitThreshold == 3

ASSUME SchedulerAssumption ==
    /\ None \notin Job \cup Node \cup Supervisor
    /\ Global \notin Project
    /\ ProjectOf \in [Job -> Project]
    /\ HomeNode \in [Supervisor -> Node]
    /\ Capable \in [Job -> SUBSET Node]
    /\ Capacity \in [Node -> Nat \ {0}]
    /\ Deadline \in [Job -> Nat]
    /\ MaxAttempts \in Nat \ {0}
    /\ Outcome \subseteq RunTerminal
    /\ Operation \subseteq {"start", "pause", "drain", "resume", "retry", "stop"}
    /\ {LeaseDuration, NodeTtl, RetryDelay, CircuitPeriod} \subseteq Nat
    /\ {MaxTime, MaxVersion, MaxCrashes, MaxCommands} \subseteq Nat

ASSUME FiniteAssumption == IsFiniteSet(Job) /\ IsFiniteSet(Supervisor)

VARIABLES
    clock,     \* the wall clock every process reads
    jobs,      \* scheduler_jobs rows
    runs,      \* status column of runs
    outbox,    \* outbox_events of each Run: the published statuses, in order
    leases,    \* the execution_leases rows whose status is active
    nodes,     \* execution_nodes rows
    controls,  \* execution_controls rows
    procs,     \* the AutoDev child process of each job
    launched,  \* the attempts for which a child was ever spawned, in order
    sups,      \* local state of each supervisor process
    spent      \* crashes and operator commands used so far

vars == <<clock, jobs, runs, outbox, leases, nodes, controls, procs, launched,
          sups, spent>>
store == <<jobs, runs, outbox, leases, nodes, controls>>
world == <<procs, launched>>
-----------------------------------------------------------------------------
(* State. externalRunId is cp-<run>-a<attempt>, so ext holds the attempt,   *)
(* 0 for NULL.                                                              *)
JobRow == [state : JobState, attempt : 1..MaxAttempts, ext : 0..MaxAttempts,
           recon : BOOLEAN, version : Nat, nextAt : Nat, seq : 0..2]
Lease == [job : Job, node : Node, owner : Supervisor, expires : Nat]
NodeRow == [online : BOOLEAN, offlineAfter : Nat]
ControlRow == [state : {"active", "paused", "draining", "stopped"},
               failures : Nat, openUntil : Nat]
Child == [phase : {"none", "alive", "exited"}, gateway : Supervisor \cup {None},
          signalled : BOOLEAN, journal : {"absent", "running"} \cup RunTerminal]
Snapshot == [job : Job, ext : 0..MaxAttempts, stop : BOOLEAN]
PC == {"down", "register", "list", "reconcile", "mark_stopped", "mark_timed_out",
       "reconcile_external", "heartbeat", "claim", "select", "acquire", "release",
       "issue", "start", "start_failed", "mark_started", "list_external", "poll"}
Locals == [pc : PC, now : Nat, todo : SUBSET Snapshot, job : Job \cup {None},
           version : Nat, attempt : 0..MaxAttempts, node : Node \cup {None},
           seen : {"starting", "unknown", "running"} \cup RunTerminal,
           polls : SUBSET Job]

Resting(pc) == [pc |-> pc, now |-> 0, todo |-> {}, job |-> None, version |-> 0,
                attempt |-> 0, node |-> None, seen |-> "starting", polls |-> {}]

Init ==
    /\ clock = 0
    /\ jobs = [j \in Job |->
         [state |-> "pending", attempt |-> 1, ext |-> 0, recon |-> FALSE,
          version |-> 1, nextAt |-> 0, seq |-> 0]]
    /\ runs = [j \in Job |-> "queued"]
    /\ outbox = [j \in Job |-> <<>>]
    /\ leases = {}
    /\ nodes = [n \in Node |-> [online |-> FALSE, offlineAfter |-> 0]]
    /\ controls = [c \in Scope |->
         [state |-> "active", failures |-> 0, openUntil |-> 0]]
    /\ procs = [j \in Job |->
         [phase |-> "none", gateway |-> None, signalled |-> FALSE,
          journal |-> "absent"]]
    /\ launched = [j \in Job |-> <<>>]
    /\ sups = [s \in Supervisor |-> Resting("register")]
    /\ spent = [crashes |-> 0, commands |-> 0]

At(s, pc) == sups[s].pc = pc
Goto(s, pc) == sups' = [sups EXCEPT ![s].pc = pc]
\* tick has returned; the loop goes on to poll the event journals.
EndTick(s) == sups' = [sups EXCEPT ![s] = Resting("list_external")]
AfterReconcile(s) ==
    IF sups[s].todo = {} THEN EndTick(s) ELSE Goto(s, "reconcile")

ScopesOf(j) == {Global, ProjectOf[j]}
StopRequested(j) == \E c \in ScopesOf(j) : controls[c].state = "stopped"
Held(j) == {l \in leases : l.job = j}

\* A transaction on row j: the changed columns, and the row version.
Write(j, row) == jobs' = [jobs EXCEPT ![j] = [row EXCEPT !.version = @ + 1]]

\* Mutant of Ended: the guard forgets failed and cancelled rows.
EndedMutant(j) == jobs[j].state \in {"succeeded", "blocked"}
\* state NOT IN (...) of every transaction that moves a job on.
Ended(j) == jobs[j].state \in JobTerminal

RunOver(j) == runs[j] \in RunTerminal

\* Mutant of Publish: status <> $1 is missing.
PublishMutant(j, status) ==
    IF RunOver(j)
    THEN UNCHANGED <<runs, outbox>>
    ELSE /\ runs' = [runs EXCEPT ![j] = status]
         /\ outbox' = [outbox EXCEPT ![j] = Append(@, status)]
\* updateRunAndOutbox: a terminal or unchanged Run publishes nothing.
Publish(j, status) ==
    IF RunOver(j) \/ runs[j] = status
    THEN UNCHANGED <<runs, outbox>>
    ELSE /\ runs' = [runs EXCEPT ![j] = status]
         /\ outbox' = [outbox EXCEPT ![j] = Append(@, status)]

\* The process is gone: its locals, and the gateway's maps of children.
Die(s) ==
    /\ sups' = [sups EXCEPT ![s] = Resting("down")]
    /\ procs' = [j \in Job |-> IF procs[j].gateway = s
                               THEN [procs[j] EXCEPT !.gateway = None]
                               ELSE procs[j]]

\* A repository call threw: nothing in the loop catches it, main exits.
Throw(s) == Die(s) /\ UNCHANGED <<clock, store, launched, spent>>
-----------------------------------------------------------------------------
(* One pass of the process loop, in the order of the code.                  *)
RegisterNode(s) ==
    /\ At(s, "register")
    /\ nodes' = [nodes EXCEPT ![HomeNode[s]] =
         [online |-> TRUE, offlineAfter |-> clock + NodeTtl]]
    /\ Goto(s, "list")
    /\ UNCHANGED <<clock, jobs, runs, outbox, leases, controls, world, spent>>

\* The first lease expiry of a live job flags it for reconciliation.
Stale(now) == {n \in Node : nodes[n].online /\ nodes[n].offlineAfter <= now}
Lapsed(now) == {l \in leases : l.expires <= now \/ l.node \in Stale(now)}
Flagged(now) ==
    [j \in Job |->
       IF jobs[j].state \notin JobTerminal /\ (\E l \in Lapsed(now) : l.job = j)
       THEN [jobs[j] EXCEPT !.recon = TRUE, !.version = @ + 1]
       ELSE jobs[j]]
\* Mutants of NeedsReconciliation: the deadline, or the stop, is forgotten.
NeedsMutantDeadline(j, row, now) ==
    row.state \notin JobTerminal /\ (StopRequested(j) \/ row.recon)
NeedsMutantStop(j, row, now) ==
    /\ row.state \notin JobTerminal
    /\ \/ row.recon
       \/ row.state \in {"starting", "running"} /\ Deadline[j] <= now
NeedsReconciliation(j, row, now) ==
    /\ row.state \notin JobTerminal
    /\ \/ StopRequested(j)
       \/ row.recon
       \/ row.state \in {"starting", "running"} /\ Deadline[j] <= now

ListForReconciliation(s) ==
    LET rows  == Flagged(clock)
        found == {[job |-> j, ext |-> rows[j].ext, stop |-> StopRequested(j)] :
                    j \in {i \in Job : NeedsReconciliation(i, rows[i], clock)}}
    IN  /\ At(s, "list")
        /\ nodes' = [n \in Node |-> IF n \in Stale(clock)
                                    THEN [nodes[n] EXCEPT !.online = FALSE]
                                    ELSE nodes[n]]
        /\ leases' = leases \ Lapsed(clock)
        /\ jobs' = rows
        /\ sups' = [sups EXCEPT ![s].now = clock, ![s].todo = found,
                      ![s].pc = IF found = {} THEN "heartbeat" ELSE "reconcile"]
        /\ UNCHANGED <<clock, runs, outbox, controls, world, spent>>

\* reconcile, first half: stop before deadline before inspection.  The row
\* read by ListForReconciliation is not locked any more.
Late(s, r) == Deadline[r.job] <= sups[s].now

Take(s, r, pc, seen) ==
    sups' = [sups EXCEPT ![s].pc = pc, ![s].todo = @ \ {r}, ![s].job = r.job,
                         ![s].seen = seen]

\* cancel signals the child only in the gateway that spawned it.
CancelExternal(s) ==
    \E r \in sups[s].todo :
      /\ At(s, "reconcile")
      /\ r.stop \/ Late(s, r)
      /\ procs' = IF /\ r.ext # 0 /\ procs[r.job].gateway = s
                     /\ procs[r.job].phase = "alive"
                  THEN [procs EXCEPT ![r.job].signalled = TRUE]
                  ELSE procs
      /\ Take(s, r, IF r.stop THEN "mark_stopped" ELSE "mark_timed_out", "starting")
      /\ UNCHANGED <<clock, store, launched, spent>>

\* What inspect may answer: null, here "unknown", for a run AutoDev does not
\* know; the recorded state; or "failed", also of a run that is still alive,
\* when the child or the `autodev status` command exits non-zero or times out.
Inspections(r) ==
    IF r.ext = 0 THEN {"unknown"}
    ELSE LET journal == procs[r.job].journal
         IN  {"failed", IF journal = "absent" THEN "unknown" ELSE journal}

InspectExternal(s) ==
    \E r \in sups[s].todo : \E answer \in Inspections(r) :
      /\ At(s, "reconcile")
      /\ ~r.stop /\ ~Late(s, r)
      /\ Take(s, r, "reconcile_external", answer)
      /\ UNCHANGED <<clock, store, world, spent>>

\* The transactions that end a job release its lease and publish the Run.
Settle(j, state) ==
    /\ Write(j, [jobs[j] EXCEPT !.state = state, !.recon = FALSE])
    /\ leases' = leases \ Held(j)
    /\ Publish(j, state)
    /\ UNCHANGED <<nodes, controls>>

MarkStopped(s) ==
    /\ At(s, "mark_stopped")
    /\ IF Ended(sups[s].job)
       THEN Throw(s)
       ELSE /\ Settle(sups[s].job, "cancelled")
            /\ AfterReconcile(s)
            /\ UNCHANGED <<clock, world, spent>>

MarkTimedOut(s) ==
    /\ At(s, "mark_timed_out")
    /\ IF Ended(sups[s].job)
       THEN Throw(s)
       ELSE /\ Settle(sups[s].job, "failed")
            /\ AfterReconcile(s)
            /\ UNCHANGED <<clock, world, spent>>

\* commitExternalState, reached from reconcileExternal and from markStarted.
MappedState(answer) ==
    CASE answer \in RunTerminal -> answer
      [] answer = "unknown" -> "blocked"
      [] OTHER -> "running"

\* Mutant of CommitExternalState: a blocked job is queued again.
CommitExternalStateMutant(j, state) ==
    /\ Write(j, [jobs[j] EXCEPT !.recon = FALSE,
                   !.state = IF state = "blocked" THEN "retry_wait" ELSE state])
    /\ IF state = "blocked" THEN UNCHANGED <<runs, outbox>> ELSE Publish(j, state)
    /\ leases' = IF state \in JobTerminal THEN leases \ Held(j) ELSE leases
    /\ UNCHANGED <<nodes, controls>>
CommitExternalState(j, state) ==
    /\ Write(j, [jobs[j] EXCEPT !.state = state, !.recon = FALSE])
    /\ IF state = "blocked" THEN UNCHANGED <<runs, outbox>> ELSE Publish(j, state)
    /\ leases' = IF state \in JobTerminal THEN leases \ Held(j) ELSE leases
    /\ UNCHANGED <<nodes, controls>>

ReconcileExternal(s) ==
    /\ At(s, "reconcile_external")
    /\ IF Ended(sups[s].job)
       THEN Throw(s)
       ELSE /\ CommitExternalState(sups[s].job, MappedState(sups[s].seen))
            /\ AfterReconcile(s)
            /\ UNCHANGED <<clock, world, spent>>

MarkStarted(s) ==
    /\ At(s, "mark_started")
    /\ IF Ended(sups[s].job)
       THEN Throw(s)
       ELSE /\ CommitExternalState(sups[s].job, MappedState("starting"))
            /\ EndTick(s)
            /\ UNCHANGED <<clock, world, spent>>
-----------------------------------------------------------------------------
(* Claim, lease, persisted identity, launch.                                *)
HeartbeatOwned(s) ==
    LET now == sups[s].now
    IN  /\ At(s, "heartbeat")
        /\ leases' = {IF l.owner = s /\ l.expires > now
                      THEN [l EXCEPT !.expires = now + LeaseDuration]
                      ELSE l : l \in leases}
        /\ Goto(s, "claim")
        /\ UNCHANGED <<clock, jobs, runs, outbox, nodes, controls, world, spent>>

Claimable(j, now) ==
    /\ jobs[j].state \in {"pending", "retry_wait"}
    /\ ~jobs[j].recon
    /\ jobs[j].nextAt <= now /\ Deadline[j] > now
    /\ \A c \in ScopesOf(j) :
         controls[c].state = "active" /\ controls[c].openUntil <= now
    /\ jobs[j].version < MaxVersion

\* The claimed row, as the supervisor will remember it.
ClaimNext(s) ==
    /\ At(s, "claim")
    /\ \E j \in Job :
         /\ Claimable(j, sups[s].now)
         /\ Write(j, [jobs[j] EXCEPT !.state = "claimed"])
         /\ sups' = [sups EXCEPT ![s].pc = "select", ![s].job = j,
                       ![s].version = jobs[j].version + 1,
                       ![s].attempt = jobs[j].attempt]
    /\ UNCHANGED <<clock, runs, outbox, leases, nodes, controls, world, spent>>

Idle(s) ==
    /\ At(s, "claim")
    /\ \A j \in Job : ~Claimable(j, sups[s].now)
    /\ EndTick(s)
    /\ UNCHANGED <<clock, store, world, spent>>

Live(n, now) == nodes[n].online /\ nodes[n].offlineAfter > now
\* Mutant of Load: a lease due at the next reading of the clock counts as over.
LoadMutant(n, now) == Cardinality({l \in leases : l.node = n /\ l.expires > now + 1})
Load(n, now) == Cardinality({l \in leases : l.node = n /\ l.expires > now})
Selectable(j, now) ==
    {n \in Capable[j] : Live(n, now) /\ Load(n, now) < Capacity[n]}

SelectNode(s) ==
    LET now == sups[s].now
        fit == Selectable(sups[s].job, now)
    IN  /\ At(s, "select")
        /\ \/ fit = {} /\ Goto(s, "release")
           \/ \E n \in fit :
                /\ \A m \in fit : Load(n, now) <= Load(m, now)
                /\ sups' = [sups EXCEPT ![s].pc = "acquire", ![s].node = n]
        /\ UNCHANGED <<clock, store, world, spent>>

\* acquireLease expires the old leases of this node and of this run first; it
\* reads the job row only for its capability, and a ROLLBACK keeps nothing.
Kept(j, n, now) ==
    {l \in leases : l.expires > now \/ (l.node # n /\ l.job # j)}
Grantable(j, n, now) ==
    /\ Live(n, now) /\ n \in Capable[j]
    /\ \A l \in Kept(j, n, now) : l.job # j
    /\ Load(n, now) < Capacity[n]

AcquireLease(s) ==
    LET j == sups[s].job
        n == sups[s].node
        now == sups[s].now
    IN  /\ At(s, "acquire")
        /\ IF Grantable(j, n, now)
           THEN /\ leases' = Kept(j, n, now) \cup
                     {[job |-> j, node |-> n, owner |-> s,
                       expires |-> now + LeaseDuration]}
                /\ Goto(s, "issue")
           ELSE UNCHANGED leases /\ Goto(s, "release")
        /\ UNCHANGED <<clock, jobs, runs, outbox, nodes, controls, world, spent>>

ReleaseClaim(s) ==
    LET j == sups[s].job
    IN  /\ At(s, "release")
        /\ IF jobs[j].state = "claimed"
           THEN Write(j, [jobs[j] EXCEPT !.state = "pending",
                                         !.nextAt = sups[s].now])
           ELSE UNCHANGED jobs
        /\ EndTick(s)
        /\ UNCHANGED <<clock, runs, outbox, leases, nodes, controls, world, spent>>

\* Compare-and-set on state and version; the loser's process exits.
\* Mutant of ClaimStands: the version is not compared.
ClaimStandsMutant(s) == jobs[sups[s].job].state = "claimed"
ClaimStands(s) ==
    LET row == jobs[sups[s].job]
    IN  row.state = "claimed" /\ row.version = sups[s].version

MarkExternalStartIssued(s) ==
    LET j == sups[s].job
    IN  /\ At(s, "issue")
        /\ IF ClaimStands(s)
           THEN /\ Write(j, [jobs[j] EXCEPT !.state = "starting", !.recon = TRUE,
                                            !.ext = sups[s].attempt])
                /\ Goto(s, "start")
                /\ UNCHANGED <<clock, runs, outbox, leases, nodes, controls,
                               world, spent>>
           ELSE Throw(s)

\* gateway.start either spawns the child and answers "starting" ...
Launch(s) ==
    LET j == sups[s].job
    IN  /\ At(s, "start")
        /\ procs' = [procs EXCEPT ![j] =
             [phase |-> "alive", gateway |-> s, signalled |-> FALSE,
              journal |-> "absent"]]
        /\ launched' = [launched EXCEPT ![j] = Append(@, sups[s].attempt)]
        /\ Goto(s, "mark_started")
        /\ UNCHANGED <<clock, store, spent>>

\* ... or throws in a validation, a secret or the workspace, before the spawn.
LaunchFails(s) ==
    /\ At(s, "start")
    /\ Goto(s, "start_failed")
    /\ UNCHANGED <<clock, store, procs, launched, spent>>

CanRetry(j) == jobs[j].attempt < MaxAttempts

HandleStartFailure(s) ==
    LET j == sups[s].job
        again == CanRetry(j)
        p == ProjectOf[j]
    IN  /\ At(s, "start_failed")
        /\ IF jobs[j].state # "starting"
           THEN Throw(s)
           ELSE /\ Write(j, [jobs[j] EXCEPT
                     !.state = IF again THEN "retry_wait" ELSE "failed",
                     !.attempt = IF again THEN @ + 1 ELSE @,
                     !.nextAt = clock + RetryDelay,
                     !.ext = 0, !.recon = FALSE])
                /\ leases' = leases \ Held(j)
                /\ controls' = [controls EXCEPT
                     ![p].failures = @ + 1,
                     ![p].openUntil = IF controls[p].failures + 1 >= CircuitThreshold
                                      THEN clock + CircuitPeriod ELSE @]
                /\ IF again THEN UNCHANGED <<runs, outbox>> ELSE Publish(j, "failed")
                /\ EndTick(s)
                /\ UNCHANGED <<clock, nodes, world, spent>>
-----------------------------------------------------------------------------
(* The journals of the children: event 1 says running, event 2 the outcome. *)
Events(j) == CASE procs[j].journal = "absent" -> 0
               [] procs[j].journal = "running" -> 1
               [] OTHER -> 2

ListExternalRuns(s) ==
    LET live == {j \in Job : jobs[j].ext # 0 /\ jobs[j].state \notin JobTerminal}
    IN  /\ At(s, "list_external")
        /\ sups' = [sups EXCEPT ![s].polls = live,
                      ![s].pc = IF live = {} THEN "register" ELSE "poll"]
        /\ UNCHANGED <<clock, store, world, spent>>

\* ExternalEventService.ingest of the next event of a polled journal.  It
\* finds the job by external id in whatever state the job is by then.
Ingest(s) ==
    \E j \in sups[s].polls :
      LET event == IF jobs[j].seq = 0 THEN "running" ELSE procs[j].journal
          after == IF RunOver(j) THEN runs[j] ELSE event
      IN  /\ At(s, "poll")
          /\ jobs[j].ext # 0 /\ jobs[j].seq < Events(j)
          /\ Write(j, [jobs[j] EXCEPT !.seq = @ + 1, !.recon = FALSE,
                                      !.state = after])
          /\ runs' = [runs EXCEPT ![j] = after]
          /\ outbox' = [outbox EXCEPT ![j] =
               IF RunOver(j) \/ runs[j] = event THEN @
               ELSE IF runs[j] = "queued" /\ event # "running"
                    THEN @ \o <<"running", event>>
                    ELSE Append(@, event)]
          /\ leases' = IF after \in RunTerminal THEN leases \ Held(j) ELSE leases
          /\ UNCHANGED <<clock, nodes, controls, world, sups, spent>>

\* The journal holds nothing new: on to the next one, then round the loop.
PollDone(s) ==
    \E j \in sups[s].polls :
      /\ At(s, "poll")
      /\ jobs[j].ext = 0 \/ jobs[j].seq >= Events(j)
      /\ sups' = IF sups[s].polls = {j}
                 THEN [sups EXCEPT ![s] = Resting("register")]
                 ELSE [sups EXCEPT ![s].polls = @ \ {j}]
      /\ UNCHANGED <<clock, store, world, spent>>
-----------------------------------------------------------------------------
(* Failures, the operator, the children and time.                           *)
Crash(s) ==
    /\ ~At(s, "down") /\ spent.crashes < MaxCrashes
    /\ Die(s)
    /\ spent' = [spent EXCEPT !.crashes = @ + 1]
    /\ UNCHANGED <<clock, store, launched>>

Restart(s) ==
    /\ At(s, "down")
    /\ Goto(s, "register")
    /\ UNCHANGED <<clock, store, world, spent>>

NextControlState(op) ==
    CASE op = "pause" -> "paused" [] op = "drain" -> "draining"
      [] op = "stop" -> "stopped" [] OTHER -> "active"

Command(c, op) ==
    /\ spent.commands < MaxCommands
    /\ controls' = [controls EXCEPT ![c] =
         [state |-> NextControlState(op),
          failures |-> IF op \in {"start", "retry"} THEN 0 ELSE @.failures,
          openUntil |-> IF op \in {"start", "retry"} THEN 0 ELSE @.openUntil]]
    /\ spent' = [spent EXCEPT !.commands = @ + 1]
    /\ UNCHANGED <<clock, jobs, runs, outbox, leases, nodes, world, sups>>

\* AutoDev creates its run directory, later records an outcome there, and
\* exits; a killed child exits without recording one.
ChildReports(j) ==
    /\ procs[j].phase = "alive"
    /\ \E status \in Outcome \cup {"running"} :
         /\ procs[j].journal = IF status = "running" THEN "absent" ELSE "running"
         /\ procs' = [procs EXCEPT ![j].journal = status]
    /\ UNCHANGED <<clock, store, launched, sups, spent>>

ChildExits(j) ==
    /\ procs[j].phase = "alive"
    /\ procs' = [procs EXCEPT ![j].phase = "exited"]
    /\ UNCHANGED <<clock, store, launched, sups, spent>>

Tick ==
    /\ clock < MaxTime
    /\ clock' = clock + 1
    /\ UNCHANGED <<store, world, sups, spent>>

Step(s) ==
    \/ RegisterNode(s) \/ ListForReconciliation(s)
    \/ CancelExternal(s) \/ MarkStopped(s) \/ MarkTimedOut(s)
    \/ InspectExternal(s) \/ ReconcileExternal(s)
    \/ HeartbeatOwned(s) \/ ClaimNext(s) \/ Idle(s)
    \/ SelectNode(s) \/ AcquireLease(s) \/ ReleaseClaim(s)
    \/ MarkExternalStartIssued(s) \/ Launch(s) \/ LaunchFails(s)
    \/ HandleStartFailure(s) \/ MarkStarted(s)
    \/ ListExternalRuns(s) \/ Ingest(s) \/ PollDone(s)

Next ==
    \/ \E s \in Supervisor : Step(s) \/ Crash(s) \/ Restart(s)
    \/ \E c \in Scope, op \in Operation : Command(c, op)
    \/ \E j \in Job : ChildReports(j) \/ ChildExits(j)
    \/ Tick

Spec == Init /\ [][Next]_vars
-----------------------------------------------------------------------------
(* Safety.                                                                  *)

\* Every column and every local variable stays in its domain; in particular
\* attempt never passes max_attempts, whatever the interleaving of retries.
TypeOK ==
    /\ clock \in 0..MaxTime
    /\ jobs \in [Job -> JobRow]
    /\ runs \in [Job -> RunStatus]
    /\ outbox \in [Job -> Seq(RunStatus)]
    /\ leases \subseteq Lease
    /\ nodes \in [Node -> NodeRow]
    /\ controls \in [Scope -> ControlRow]
    /\ procs \in [Job -> Child]
    /\ launched \in [Job -> Seq(1..MaxAttempts)]
    /\ sups \in [Supervisor -> Locals]
    /\ spent \in [crashes : 0..MaxCrashes, commands : 0..MaxCommands]

\* Claiming, leasing and launching have one owner: two supervisors never work
\* on the same live claim, and never hold active leases for the same Run.
WorksOn(s, j) ==
    /\ sups[s].job = j
    /\ \/ sups[s].pc \in {"select", "acquire", "release", "issue"} /\ ClaimStands(s)
       \/ sups[s].pc \in {"start", "start_failed"} /\ jobs[j].state = "starting"
SingleOwner ==
    /\ \A j \in Job, s, t \in Supervisor : WorksOn(s, j) /\ WorksOn(t, j) => s = t
    /\ \A l, m \in leases : l.job = m.job => l = m

\* The live-lease count of acquireLease, taken with an old clock reading, never
\* lets a node carry more active leases than max_concurrent_runs.
CapacityRespected ==
    \A n \in Node : Cardinality({l \in leases : l.node = n}) <= Capacity[n]

\* A Run is never launched a second time: not by a retry, not by a second
\* supervisor, not after a crash between spawn and markStarted.
LaunchedOnce == \A j \in Job : Len(launched[j]) <= 1

\* The identity of a child is in the job row before the child exists, and
\* stays there: no child runs for a job that could be claimed again.
IdentityBeforeLaunch ==
    \A j \in Job : procs[j].phase # "none" =>
        /\ jobs[j].ext = launched[j][Len(launched[j])]
        /\ jobs[j].state \notin {"pending", "claimed", "retry_wait"}

\* Job and Run tell the same outcome although two repositories write them.
OutcomesAgree ==
    \A j \in Job : /\ jobs[j].state \in RunTerminal => runs[j] = jobs[j].state
                   /\ runs[j] \in RunTerminal => jobs[j].state = runs[j]

\* Outbox rows are the history of the Run: no status is published twice or
\* skipped to a different end, whichever repository wrote it.
OutboxTellsTheRun ==
    \A j \in Job :
      /\ runs[j] = IF outbox[j] = <<>> THEN "queued" ELSE outbox[j][Len(outbox[j])]
      /\ Len(outbox[j]) <= 2
      /\ Len(outbox[j]) = 2 => outbox[j][1] = "running" /\ outbox[j][2] \in RunTerminal

\* A finished Run is final: no late event, retry, timeout or inspection
\* changes it or publishes about it again.
RunsNeverRegress ==
    [][\A j \in Job : runs[j] \in RunTerminal =>
         runs'[j] = runs[j] /\ outbox'[j] = outbox[j]]_vars

\* The version check of markExternalStartIssued stands in for a check of the
\* flag: a claim that reconciliation has flagged meanwhile is never started.
FlaggedNeverStarts ==
    [][\A j \in Job : jobs[j].state = "claimed" /\ jobs[j].recon
                        => jobs'[j].state # "starting"]_vars
-----------------------------------------------------------------------------
(* Liveness.  The loop of a living process goes on, a dead process is       *)
(* restarted, and time passes; children may hang and commands may not come. *)
FairSpec ==
    /\ Spec
    /\ \A s \in Supervisor : WF_vars(Step(s)) /\ WF_vars(Restart(s))
    /\ WF_vars(Tick)

\* A launch is settled: a crash between the persisted identity and markStarted
\* is resolved, and a running job ends although its child hangs and its
\* supervisor dies.
LaunchedSettles ==
    \A j \in Job :
      /\ jobs[j].state = "starting" ~> jobs[j].state # "starting"
      /\ jobs[j].state = "running" ~> jobs[j].state \in JobTerminal

\* While a stop stands, every job in its scope ends and stays ended.
StopDrains ==
    \A j \in Job : <>[]StopRequested(j) => <>[](jobs[j].state \in JobTerminal)
=============================================================================
