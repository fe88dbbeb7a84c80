# A verification project for ai-dev-harness

The repository turns a goal into reviewed specifications and issue plans (a
TypeScript control plane on PostgreSQL, with a web UI) and executes the issues
by launching AutoDev (Python), which works through queues of tasks in git
worktrees and lands the results. What is hard to get right here, and hard to
test, is where processes and requests share rows: a value is read in one
transaction, used in the next, and somebody else commits in between. This
project models those places, checks them with TLC on small instances and proves
most of what it states with TLAPS, for instances of any size. Paths below are
relative to `src/prototype/web-ui/app/control-plane/` unless they start with `src/`.

## 1. The system's parts

| Part | State | Operations | What makes it correct | Model |
|---|---|---|---|---|
| Scheduler supervisor and repository (`application/scheduler-supervisor.ts`, `adapters/postgres-scheduler-repository.ts`, `src/prototype/web-ui/scripts/run-execution-scheduler.ts`) and execution gateway | `scheduler_jobs`, `execution_leases`, `execution_nodes`, `execution_controls`, the Run and its outbox; the locals of a tick; children in memory | register, reconcile, heartbeat, claim, select, acquire, issue, start, mark started, fail, stop, time out | one owner per job, one launch per Run, capacity, one outcome published once, everything ends | `Scheduler`, `SchedulerPromises`, `RunLifecycle` |
| External event inbox and AutoDev's journal (`adapters/postgres-execution-event-repository.ts`, `src/autodev/autodev/run_store.py`, `src/autodev/autodev/database/run_repository.py`) | inbox rows, last accepted sequence, Run; lines of `events.jsonl` | append, poll, ingest, park, drain | in order, exactly once, a finished Run is final | `EventInbox`, `JournalReader` |
| AutoDev landing (`src/autodev/autodev/controller.py`, `database/landing_repository.py`) | queue task, landing row, Git ref, run, supervisor lease | dispatch, land, recover on start | a candidate lands once, a landed task is finished | `LandingLane`, `LandingPromise` |
| AutoDev queue, capacity and workers (`src/autodev/autodev/database/queue_repository.py`, `runtime_repository.py`, `controller.py`) | tasks, claims, runtime leases, capacity requests | claim, finish, block, resume, grant, heartbeat, expire | a stale worker writes nothing, no overselling, everybody gets a turn | `TaskQueue`, `WorkerPool` |
| Release center (`src/prototype/web-ui/app/release-center/`) | Canary, its windows and events, production release, gates, signature | observe, finalize, create, close a gate, sign, approve, roll back | what passed was observed, what is approved was attested | `ReleaseCenter` |
| Goal, specification, issue plan; verification, gaps, delivery report | goals, revisions, verification plans, verdicts, gap reports, reports | edit, generate, decide, compile, verify, remediate, report, accept | what was decided stays decided, a report shows what was verified | `GoalPlanning`, `GoalAcceptance` |
| Delivery (`application/delivery-orchestrator.ts`) | candidate, receipts, the branch and pull requests at GitHub | checkpoint, deliver, land | resumable, what is merged was reviewed | `GitDelivery` |
| Workbench: projection, events, task actions | snapshots and checkpoints, the page in the browser, action receipts | project, announce, fetch, command | nothing skipped, commands fit what was seen | `Workbench` |
| Roles and execution control | role bindings, audit trail, controls, command receipts | assign, revoke, pause, drain, resume, retry, stop | authority comes from above, no lost command | `Access` |
| Sign-in | two cookies, the cached discovery | begin, callback, exchange, logout | a session belongs to one authenticated attempt | `SignIn` |
| Queue projection and scheduler admission | projection row, issues, jobs, Runs | project, scan, admit | one job per readiness | `Admission` |
| Artifacts and reviews | object store, artifact, evidence and review rows | ingest, review | evidence leads to its object | `Evidence` |
| Clarification | rounds, revisions, decisions | generate, answer | a chain of decisions per question | `Clarification` |
| Issue compiler and execution waves | the plan | compile, schedule | waves respect dependencies and conflicts | `IssueWaves` |

How they interact. An approved plan is projected into AutoDev's queue and its
ready issues are admitted: a job is inserted with its queued Run. Every scheduler
process runs one loop: register its node, one `tick`, poll the journals of the
external runs. A tick reconciles, or renews its leases, claims a job, acquires
a lease, persists the external identity, launches AutoDev and records that it
started. AutoDev's supervisor dispatches workers, which compete for host slots,
claim their task, build, verify and review, and hands their candidates to the
landing lane. Its journal comes back through the inbox, which writes the same
job, Run, leases and outbox as the scheduler, with other guards. The outbox feeds
the projector of the workbench. When the issues of a goal are done, it is
verified, reported and accepted; a candidate is delivered as a pull request, and
released through Canary and production gates.

`SchedulerPromises` composes the scheduler with the abstract `RunLifecycle`;
`GoalAcceptance` extends `GoalPlanning`, since both write goals and plans;
`WorkerPool` extends `TaskQueue`; `Services` puts together the six small components
at the end of the table, which share no row with one another: one of them is
followed per behaviour (`part`), so that one run covers them all. The hazards of
this code, each with the line where it bites and the properties that watch it,
are in `PROJECT.json`.

## 2. The models

The grain is the same everywhere. One action is one repository transaction, one
outside call or one computation between two of them, because each `await` lets
everybody else move. A request or a process is a record with a program counter
and what it has read so far; what is in memory is lost in a crash. Reads that a
transaction does under its own lock are part of its action, reads before it are
steps of their own. Every bound is a constant named `Max...`; a step that would
exceed it is not taken.

### Scheduler, SchedulerPromises, RunLifecycle

| State | Code |
|---|---|
| `jobs[j]` | row of `scheduler_jobs`: state, attempt, `external_run_id` (`ext`, which holds the attempt because the id is `cp-<run>-a<attempt>`; 0 is NULL), `reconciliation_required`, version, `next_attempt_at`, last event sequence |
| `runs`, `outbox` | `runs.status`, and the statuses in the Run's `outbox_events` rows |
| `leases`, `nodes`, `controls` | `execution_leases` with status active, `execution_nodes`, `execution_controls` (state, consecutive failures, circuit) |
| `procs` | the child process: alive or not, which gateway object has it in its map, whether a signal was sent, its journal |
| `launched`, `streak` | history: attempts spawned, failures in a row (for properties only) |
| `sups` | the program counter and locals of `tick`, and the runs still to poll |

Actions, in the order of the code: `RegisterNode`, `ListForReconciliation`;
`CancelExternal` then `MarkStopped` or `MarkTimedOut`; `InspectExternal` then
`ReconcileExternal`; `HeartbeatOwned`, `ClaimNext` or `Idle`, `SelectNode`,
`AcquireLease`, `ReleaseClaim`, `MarkExternalStartIssued`, `Launch` or
`LaunchFails`, `HandleStartFailure`, `MarkStarted`; `ListExternalRuns`, `Ingest`,
`PollDone`. Around them `Crash`, `Restart`, the operator's `Command`, the child's
`ChildReports` and `ChildExits`, and `Tick` of the clock. `now` is read once per
tick, so later steps work with an old reading. An uncaught error of a repository
call ends the process (`Throw`), as in `main`.

Abstractions, each by choice: a job and its Run are one to one; `claimNext` may
take any claimable job (the priority order and `FOR UPDATE SKIP LOCKED` only
restrict which); reconciliation handles the listed jobs in any order; lease
tokens, costs, phases and failure codes are left out; one wall clock without
skew; the back-off of retries is a constant. A journal has two events, ingested
in order and once; `EventInbox` shows that the inbox makes it so. `inspect`
answers the recorded state, or "unknown", or "failed" for a known run at any
time, because a failing `autodev status` is reported as failed. A spawn error
that arrives asynchronously is a `Launch` whose child exits without a report; the
gateway's own runtime limit is a `ChildExits`.

`RunLifecycle` is the abstract specification: statuses move along allowed edges
and each move is published once, in order, in the step that makes it.
`SchedulerPromises` instantiates it with `status <- runs` and `published <- outbox`
and the edges the code commits (`CommittedRun`).

### EventInbox, JournalReader

The life of one journal at the grain the scheduler's model leaves out: the lines
of the file, the rows of the inbox, the turns of the loop that drains it.

| State | Code |
|---|---|
| `events`, `lines` | the events the run has numbered (event i asks the Run for `events[i]`, "none" where `targetStatus` is null); `events.jsonl`, each line by its sequence |
| `writing` | what a writer of a database run has numbered and not appended yet |
| `job`, `run`, `outbox` | state, `reconciliation_required`, `last_event_sequence`; the Run's status; its outbox rows |
| `inbox` | `processing_status` of each sequence, "absent" without a row |
| `tx` | the open transaction of `ingest`: its context, the rows it updated, what it will publish |
| `procs` | where a process is in its loop, the lines it read, the line it is at |

The writers are `AppendToFile` (one action: a file run counts its lines and
appends under the file's lock) or `NumberEvent` and then `ProjectEvent` or
`ProjectionFails` (a database run commits the number and appends the line
later, and a failed append is only logged). A process goes through
`ListForReconciliation`, `Reconcile` or `StopOrTimeOut`, `ListExternalRuns`,
`ReadJournal` (the whole file, from line 1), and for every line `Look`, the
first query of `ingest`, which takes no lock. The rest runs under
`FOR UPDATE OF job, run`: `IngestReplay`, `IngestOutOfOrder`, or `IngestNext` which
opens `tx`, `DrainTurn` for a turn of the loop, and `CommitIngest`. `Unlocked`
guards whoever needs the two rows; `Crash` rolls `tx` back.

Abstractions: one external run (rows of different runs share nothing); an event
id is one line, so replays have equal digests and the conflict disposition does
not occur; task and observability identities match. The answer of `inspect` is
free. A line that does not parse because it is being appended ends the process,
which is a `Crash`. `JournalReader` is the promise: a reader takes the events in
order and once, a Run that has ended stays as it is, one that ends without
having started is started first. `ReadsInOrder` is its `Spec` with
`position <- job.last`, `status <- run`, `published <- outbox`.

### LandingLane, LandingPromise

Supervisors of one project in database mode. A landing writes four stores one
after the other: the row of `landings` (`ledger`), the Git ref (`ref`), the queue
task (`tasks`) and the run (`runs`); each write is an action, and a supervisor may
die, or its loop lease lapse while it goes on, between any two. The loop goes
through `StartLoop`; recovery of each listed row (`ReadGit`, `Classify`,
`RetryOrAbandon`, `Abandon`, `PushAgain`, `FinalizeQueue`, `MarkReconciled`,
`CloseLedger`) and of orphans; `Dispatch`, `ReadResult`; and for a candidate
`EnterLane`, `MarkVerifying`, `VerifyFails`, `Prepare`, `CompareAndSwap`,
`RecordIntegrated`, `LandingPush`, `QueueDone`, `MarkLanded`, `RecordFinalized`.
`ForeignCommit`, `LeaseExpires`, `Crash` and the human's queue operations are
bounded together by `MaxFaults`.

Abstractions: worktree files, verification commands and texts; the heartbeat of
a run; other projects; a write to the ledger reads the row and moves it in one step
(two transactions, `controller.py:2628-2651`), and `PushAgain` looks at the row as it
is rather than as the recovery scan listed it. The branch only grows, so a tip is a length and a
candidate rebased onto tip n is in the ref exactly when `ref[n + 1]` is its run.
`LandingPromise` says what the lane owes the project: a candidate is integrated
at most once and stays, and a task is finished only when a candidate of it is on
the branch, to which others commit too. `Refines` is its `Spec` with
`branch <- ref` and `finished` the tasks that AutoDev completed.

### TaskQueue, WorkerPool

`TaskQueue` has the transactions of the database queue as operators (each locks
the project's manifest row): `Claim`, `Finish`, `Block`, `Release`, `Resume`,
`Approve`, `ForceBlock`, `ForceDone`, `ImportManifest`. Owner, lease token and
revision of a claim change together and are the worker that holds it. `WorkerPool`
adds the `run-one` processes of several projects on one host: `Select`,
`AskCapacity`, `PollCapacity`, `PollMarks` (the poll whose grant marks lapsed
leases expired), `GiveUp`, `ClaimTask`, `Built`, `Verified`, `RequestProvider`,
`PollProvider`, `Reviewed`, `Settle`, `FinishTask` or `ReleaseClaim`, `Close`, with
every failure path. Time is a flag: a lease whose `expires_at` has passed is
overdue until the next grant marks it expired. A supervised worker leaves its
candidate to the lane, of which only the end (`Land`) is here. Not followed:
claim heartbeats and the serial mode of the controller. The alternation of projects
is taken cyclically from the last grant, which is the code's order
(`runtime_repository.py:293-297`) for the two projects of the instances.

### ReleaseCenter

The Canary of a candidate and the production release made from it. A command is
sent (`Send`) or delivered again (`Redeliver`); a handler answers from the receipt
of its key (`Answer`), or reads the row (`Open`), then the children
(`LoadChildren`), decides as the domain does (`CanaryAccepts`, `NewCanary`,
`ReleaseAccepts`, `NewRelease`) and commits if the row still has the version the
client expected (`CommitCanary`, `CommitRelease`, `CommitNothing`). Abstractions:
an event is an alert or, as one kind, a defect, an intervention or an alert that
is recorded as resolved; one signature role; windows are numbered per attempt; the
query for verifications is read with the children; copies of a command wait as
asked; a client sends the version it sees at that moment, and an alert that was
recorded as resolved is not resolved once more.

### GoalPlanning, GoalAcceptance

A request is one of a few kinds and holds what it has read. Planning: `EditGoal`,
`Transition`, `GenerateSpec`, `DecideSpec`; `ReadContract`, `ReadSpec`, `AppendPlan`,
`RevisePlan`; `StartDecision`, `DecisionSnapshot`, `DecisionCommit`. Acceptance:
compile a verification plan (`CompileGoal`, `CompilePlans`, `AppendVplan`), verify
(`VerifyReads`, `AppendVerdict`), report a gap, confirm its remediation
(`RemedyLook`, `RemedyDraft`, `RemedyAppend`, `RemedyRaced`, `SaveReceipt`), report
(`ReportReads`, `SynchronizeGoal`, `AppendReport`) and accept (`AcceptGoal`,
`AcceptSnapshot`, `AcceptCommit`). Abstractions: the text a planner or verifier
writes is opaque (whether it compiles, and its verdict, are free choices);
parallel reads are ordered where no order gives another outcome; idempotent
replays are left out; a commit repeats the checks the code repeats. A report's
guards on issue runs, evidence and blocked risks (`delivery-report-service.ts:126-164`)
are left out, so that the model makes more reports than the code; `RemedyRaced`
follows only an append that was lost to another, the case that matters of the errors the
adapter catches.

### GitDelivery

`checkpoint`, `deliver` and `land` of one candidate, each step that has a receipt
as an effect (commit, push, open, merge) and then the transaction that records it,
so that a crash (`Fault`) falls between them. Others push to the branch, close or
merge the pull request, and revise the policy (`Outside`). Abstractions: commits
are the baseline and the one made from it; looking for a receipt and locking the
row is one step; a key belongs to one operation, while the code's receipts are found by candidate
and key alone; the gates of `land` are guards.

### Workbench

| State | Code |
|---|---|
| `tables[p]` | the rows of the project's task: the revisions of its issue, the newest Run of each, its newest job and the one of an earlier attempt that may lead it |
| `history[p]` | history: what the query of each row gave from one commit to the next, so that a read is an index |
| `stored`, `jobs` | snapshot and checkpoint of a project; what a projector has read |
| `page`, `stream`, `fetches`, `refresh`, `receipts` | the browser's page, connection and requests; the action receipts |

The rows change: a transition of the issue, a write to the job alone or with its
Run (`WriteIssue`, `WriteJob`), an admission that inserts a Run and a job of
version 1 (`Admit`), a new revision of the issue (`Revise`). A projector reads the
checkpoint's trigger, then issue, Run and job one by one, and publishes
(`StartJob`, `LoadRow`, `Publish`); the feed announces the sum of the visible
revisions (`Announce`); the browser fetches, answers may overtake each other
(`FetchAnswered`, `FetchApplied`, `FetchFails`), and only a newer page is applied
(`Newer`). A command names the version the user saw (`Accept`): the sum of the
versions of the newest issue revision, its newest Run and its leading job
(`Task`, `Version`). The query of jobs orders them by their own `attempt`, which
only a failed start raises, and then by a random id, so the leading job may be
that of an earlier attempt (`Leading`). Abstractions: a project has one task;
state and trigger are read in one step; heartbeats, rows no query looks at, later
writes to the job of an earlier attempt and commits stamped late are left out;
equal revisions share one fetch. No code calls `transitionReceipt`; it is
modelled as the port offers it.

### Access, SignIn, Admission, Evidence, Clarification, IssueWaves

- `Access`: a request is authorized from the actor's bindings (`AskAssign`,
  `AskRevoke`, `AskControl`) and takes effect later (`Assign`, `Revoke`,
  `ReadControl`, `CommitControl`), when the binding may be gone. One
  organization; bindings without expiry; a client names the version it has just seen; `GatewayFails` is the scheduler's write
  to the same control row.
- `SignIn`: several tabs, one transaction cookie, one session cookie, callbacks
  on their way. The provider is external: it exchanges a code once (`Redeems`),
  may fail, and seals and signatures hold. It gives one code for each attempt: an
  authorization URL that is opened twice, which could yield two, is not followed.
- `Admission`: requests to project the plan call AutoDev (external: it accepts
  an import per key) and save the receipt; scheduler processes scan for
  ready issues and admit what they saw one by one. The edges of an issue are
  those of the state machine (nothing in the code calls them; the generic update
  of `adapters/postgres-versioned-state-store.ts` is how they would be made).
- `Evidence`: head, put, confirm in the object store and then the rows, with the
  upload or the request lost anywhere. Who writes an object locks it until its
  own artifact expires, a legal hold for ever; who finds it there leaves the lock
  alone. Days pass, and the store's lifecycle (external: `docs/p11-recovery.md`)
  may clean away an object whose lock has ended (`Purge`). Reviews check, then
  insert. `wrote` is history: whose request wrote the object.
- `Clarification`: a timeline is three queries at once, outside of the
  transaction that adds to it.
- `IssueWaves`: the scheduler of waves as a state machine whose step is one
  wave, and the compiler's cycle check and order; claims are files, directories
  and resources. `findCycle` is modelled by what it computes; the folding of case in
  names is not.

## 3. Runs

| Run | Instance | States | Shows |
|---|---|---|---|
| `scheduler_race` | 1 job, 2 supervisors on a node, 2 attempts, 1 crash, a stop, a success | 3.5 M | `LaunchedOnce`, `SingleOwner`, `OutcomesAgree`, `FlaggedNeverStarts`, `CommittedRun` |
| `scheduler_live` | 2 jobs, 1 supervisor, a node of capacity 1, 1 crash, a stop, children that hang | 494,181 | `CapacityRespected`, `LaunchedSettles`, `StopDrains` |
| `inbox_order` | database run, 2 writers, 2 processes, 3 events, a lost line | 405,441 | `DrainedInOrder`, `FlagKeptForGaps`, `ReadsInOrder`, `JournalDrains` |
| `inbox_file` | file run, 3 events, 2 processes, a crash, settling by reconciliation | 474,020 | `FileNeverParks` |
| `landing` | 2 candidates of a task, 2 supervisors, 2 faults of any kind | 812,982 | `LandedOnce`, `LedgerTellsTheTruth`, `RestartFinishesLandings`, `Refines` |
| `worker` | 3 workers of 2 projects, 2 of them at one task, one provider call, one exclusive resource, 2 faults | 2,047,312 | `HostLimits`, `ClaimStands`, `DoneMeansReviewed` |
| `worker_live` | 3 tasks, one that waits for another, one proposed; 1 fault | 147,280 | `WaitersServed` |
| `release` | 2 handlers, 6 + 4 commands, 2 attempts of a Canary of 2 windows | 3.8 M | `PassedMeansObserved`, `CommandOnce`, `ApprovedIsAttested` |
| `goal` | 2 requests, 2 keys, 2 edits or transitions, a failed verification and its remediation | 1,933,867 | `ReceiptsNameOnePlan`, `ReportsWereVerified`, `DecisionsStand` |
| `delivery` | 2 requests, 2 keys to deliver, 1 crash, 1 outside change | 1,309,118 | `MergedIsReviewed`, `CandidateIsTrue`, `LandingCompletes` |
| `workbench` | 2 projects, mixtures of up to 2 commits, 2 commands, a failure, a loss and a replay | 377,544 | `CursorIsHonest`, `CommandsFitTheTask`, `WorkbenchCatchesUp` |
| `services` | 2 of everybody; all plans of 3 issues with 4 kinds of claims | 980,693 | `AuthorityDescends`, `ControlsAreTraced`, `SessionsAreEarned`, `RunsWereReady`, `EvidenceStands`, `DecisionsFollowAnswers`, `WavesRespectThePlan` |

All pass. Why the bounds suffice. Every guard of this code compares one actor's
memory with a row that another one wrote, so two actors reach each decision; a
third is there where two compete for what a third one holds (`worker`). Two attempts
are needed for a retry to meet a leftover of the first, three events for a hole, a
parked event behind it and a second hole, two windows for contiguity, seven moves of an issue
(`MaxMoves`) for a second Run of it, two revisions of a plan for a remediation.
Deadlines lie within the bounded time and leases last one tick, so that a
lease lapses, a node goes offline and a deadline passes within any tick. Where
a property has a theorem (section 5), the instance is only its illustration.
A workbench behaviour spends one of the mixtures of `MCAffordable`: every fault
once around one commit; a failure or a loss around two commits; two commands
and a failure around two commits of one project; two commands beside a replay and
one commit. In `Evidence` one day is enough for a lock of one day to end under a
row that is kept a day longer or for ever. Symmetry is used for handlers, supervisors, keys and runs that differ in nothing,
and in no run with a liveness property. Deadlock is checked in the scheduler's and
the inbox's runs; in the others all requests may be done.

What the runs say, and under which conditions:

- A launch is protected three times: the claim by its row version, the lease by
  uniqueness per Run, the external identity by being written before the spawn.
  The properties hold although `acquireLease` never looks at the job's state and
  `markExternalStartIssued` never looks at the reconciliation flag: every writer
  of the flag also bumps the version. `OutcomesAgree` holds although the inbox
  guards on the Run's status and the scheduler on the job's.
- That every process re-reads the whole journal is what makes the inbox recover:
  no position is stored but `last_event_sequence`. A lost line is permanent;
  later events stay parked until reconciliation ends the job, so `JournalDrains`
  speaks of journals that lost none.
- `LandedOnce` (no other candidate of the task), `RestartFinishesLandings` and the
  abandoned half of `LedgerTellsTheTruth` hold while no loop lease lapses under
  its living supervisor and no human edits the queue (`Undisturbed`); the refinement
  of `LandingPromise` and "no candidate lands twice" hold always. Finishing is
  owed to candidates that reached the branch while their claim stood
  (`src/autodev/autodev/controller.py`, the reconciliation of integrated
  landings). There is no liveness run for the lane: `RestartFinishesLandings` says
  the same as a safety property.
- `HostLimits` holds while no lease of a live worker lapsed. `ClaimStands` holds while no
  human edited the queue and no process died, but for tasks whose claim was ended by an
  attempt that had read their failure budget as exhausted: two attempts that selected
  a task before its last failure are enough. `WaitersServed` holds unless a worker
  died while it waited, since nothing removes its request from the queue of requests.
- `CommandsFitTheTask`: a version of a task is the sum of its rows' versions.
  While one projector publishes and the task stays of one issue revision and one
  attempt, a command is accepted on the rows its sender saw. Both conditions are
  needed: a replay beside the loop can put back an older snapshot, and the rows
  of a new attempt start at version 1, so that the sum falls and comes back (section
  6). That two live commands never own one version number holds always. That
  the revision of a page is a sum and not a maximum is what lets a page see
  that the second of two projects moved (the mutant of `VisibleRevision`).
- `EvidenceStands`: an artifact whose ingest wrote the object can be downloaded
  until it expires. One whose ingest found the object there may lose it before,
  when the lock of whoever wrote it ends; without that exception the run violates
  the property, with a legal hold over an object kept for a day (section 6).
- `MergedIsReviewed` holds although a deliver that is delayed past the merge opens a
  second pull request; a landing whose pull request or policy was changed by
  somebody else stays in `landing`, and so `LandingCompletes` excludes it.

## 4. Fairness

Nothing is assumed of children, operators, users, providers or other users of GitHub.

- `Scheduler!FairSpec`: weak fairness of `Step(s)` (the loop of a living process
  goes on: it awaits only its database and short commands), of `Restart(s)` (the
  deployment restarts a process that exits), and of `Tick`.
- `EventInbox!LiveSpec`: the same of the processes, and that a writer that has
  numbered an event goes on to append it or fails to: it is the next statement of
  the call. Nothing obliges a run to write another event.
- `WorkerPool!FairSpec`: the steps of a living worker; the leases of dead workers
  run out, and what they left is settled by the supervisor's recovery.
- `GitDelivery!LiveSpec`: a request goes on until it is over, and a landing that has
  not happened is asked for again (its caller retries).
- `Workbench!Spec`: the projector's loop, the feed's poll, the browser's
  reconnection and its fetches go on; faults are bounded.

Crashes and faults are bounded by a constant, as any liveness claim needs.

## 5. Proofs

Every safety property that the runs check is a theorem of its specification, for
any numbers of processes, requests, keys, rows and faults, from the named
assumptions on the constants, which say what kind of values they are and no more.
Each `...Proofs` module has one lemma per action (or per group of actions that
write the same rows) and combines them in the theorem. In each the checked
property is not inductive; what it needs besides is what requests remember.

| Module | Theorems | The inductive invariant |
|---|---|---|
| `SchedulerProofs` | `TypesHold`; `OutcomesAlwaysAgree`, `OutboxTellsTheHistory`, `RunsAreFinal`, `RunsImplementLifecycle`; `CapacityHolds`; `OneOwner`, `OneLaunch`, `IdentityIsFirst`, `FlaggedIsNotStarted` | see below |
| `ProjectionProofs` | `InboxTypesHold`, `InboxDrainsInOrder`, `FilesNeverPark`, `FlagIsKept`, `InboxReadsInOrder`; `CursorIsAlwaysHonest`, `CommandsAlwaysFit` | `TxOK`, `FileOK`, `ReadingOK`, `StoredOK`; `WorkbenchInv` |
| `LandingProofs` | `LaneIsSound`, `LaneImplementsPromise`; `LandedAtMostOnce`, `LedgerAlwaysTellsTheTruth`, `RestartAlwaysFinishesLandings` | `LaneInv`; `CalmInv` |
| `ReleaseProofs` | `ReleaseIsSound`, `PassedAlwaysMeansObserved`, `CommandsTakeEffectOnce`, `ApprovedIsAlwaysAttested` | `ReleaseInv` |
| `GoalProofs` | `GoalIsSound`, `ReceiptsAlwaysNameOnePlan`, `ReportsAlwaysWereVerified`, `DecisionsAlwaysStand` | `GoalInv` |
| `DeliveryProofs` | `MergedIsAlwaysReviewed`, `CandidateIsAlwaysTrue` | `DeliveryInv` |
| `WorkerProofs` | `PoolInvariant`, `HostWithinLimits`, `ClaimsStand`, `DoneWasReviewed` | `PoolInv` |
| `ServicesProofs` | `AuthorityAlwaysDescends`, `ControlsAreAlwaysTraced`, `SessionsAreAlwaysEarned`, `RunsWereAlwaysReady`, `EvidenceAlwaysStands`, `DecisionsAlwaysFollowAnswers`, `WavesAlwaysRespectThePlan` | `AccessInv`, `SignInInv`, `AdmissionInv`, `EvidenceInv`, `ClarificationInv`, `WavesInv` |

**Scheduler** (from `SchedulerAssumption`). `TypeOK` is not inductive: a step that
writes `jobs[sups[s].job]` needs the job in hand to be a job; `InHand` adds that,
with the attempt and node the next call will use. For the outcomes, every step is
either `Quiet` (no Run changes, an unfinished job stays unfinished) or `Told` (one
unfinished job's row, Run and outbox move together); `OutcomesAgree` makes the
guard on one record speak for the other, and `Chronicle`, the three possible
outboxes of a Run, makes the history inductive. For capacity, a grant counts the
live leases of its node and expires the others in the same transaction, so what
it counts is all there is. Ownership rests on `Owned`: a claim is never ahead of
its row; a standing claim is unflagged and unique; a launch has one holder under
the recorded identity while the job cannot be claimed; a job that can be claimed
has never been launched.

**Inbox** (from `InboxAssumption`). `DrainedInOrder` speaks of committed rows only.
`TxOK` says what an open transaction has done: the rows up to `tx.last` are
processed, those beyond are parked or absent but for the event that opened it,
`tx.run` is what `JournalReader` reads between `job.last` and `tx.last`, and `tx.out`
is the story of that change. One turn extends the reading by one event, and at
the commit the loop has stopped at an absent row. `FileOK` adds that in a file run
line k is event k and that whoever passed a line has stored it.

**Landing** (from `LandingAssumption`). Two invariants, since half of what the lane
promises holds whatever happens and half only while leases hold and nobody edits
the queue. `LaneInv` needs no such condition. It says what the four stores
say of each other (`RunGood`: a candidate on the branch is where its landing
recorded it, a landing recorded as integrated is on the branch, a closed one has
its task done; `TaskGood`) and what a supervisor between two writes knows of them
(`SupGood`: past the lane's lock it is the lock's owner, before the
compare-and-swap its candidate is not on the branch and the recorded tip is the
one it read, after it the candidate is there). That the candidate is not yet on
the branch before the swap is what makes `LaneImplementsPromise` go through: every
append is an `Integrate`. `CalmInv` is `Undisturbed => Calm`. `Calm` has one living
supervisor (`OneUp`); one run per task that has ever tried to land, with the
task still its own or no longer claimable (`TaskCalm`); and the debts of the dead
(`SupCalm`): a landed candidate whose task is still claimed is in the list the
reconciliation works through (`ListCalm`, `DebtCalm`), is the one in its hands, or
an error has been recorded; when the list is empty none is left, which is
`RestartFinishesLandings`. `FactCalm` says that what was read of Git, outside any
lock, is still so when the row is classified. TLC checked both on the states
of `landing` before the proofs.

**Release** (from `ReleaseAssumption`). The row and its children are read by two
queries, and the domain decides on the pair. `ReleaseInv` says when such a pair
can be trusted: a version determines the row, and every change to a child
raises the version, so that a commit whose version still matches has decided on
exactly what the tables hold (`AskGood`, `RowGood`, `NextGood`); pairs that
mix two versions exist, and lose their compare-and-set. A passed Canary is final,
and its windows are contiguous; receipts count the versions of the two rows. TLC
checked `ReleaseInv` on the states of `release` before the proof.

**Goal** (from `PlanningAssumption`). Rows of this component are only added and
decided: every step satisfies `Grew`, so what a request has read stays true,
except which revision is newest. `GoalInv` says that plan revision p follows p-1,
that a version of the goal has one contract, what a request in hand may rely
on (its verification passed, its plan was approved, the remediation it is about
belongs to its gap), and that no report follows an accepted one.
`DecisionsAlwaysStand` is an action property from the same invariant.

**Delivery**. `DeliveryInv`: the version of the candidate counts its moves, so that
a request or receipt that shows a candidate shows it as it was at that version or
earlier (`Earlier`), whatever was lost between an effect and its record; an effect that was
done is on GitHub. **Workbench**. `WorkbenchInv`: a projector's rows include all
that its trigger names, and what a query gave only moves on (`HistoryGrows`: later
revisions and attempts, or a higher version of the same row). Without a replay
nothing shown is ahead of the stored rows, and of two snapshots one includes the
other; where both are of one revision and attempt, no version of a row fell in
between, so that equal sums are equal rows (`TaskGrows`).

**Services**. Each part's invariant is proved for the part and carried to
`Services!Spec`, whose other steps leave its variables alone. In `Access`, whoever
a request acts for had been given the authority when it was checked (`Backed`,
`Entitled`), and a command whose version is still that of the row has read its
state. In `SignIn`, a callback brings a code the provider gave, and one
that passed its check brings the cookie of that very attempt. In `Admission`, an
issue's version pays three moves for each attempt (`AttemptsOK`), and one import
feeds all that is scheduled (`ProjectionOK`). In `Evidence`, an ingest that may
save its row has seen the object, and it is there or its lock has ended
(`Stands`); whoever wrote the object of what has not expired finds it there under
its own lock (`Locked`). In `Clarification`, a request has read what
was there or less (`PendingOK`), so that one which mixes two states of a timeline
numbers its answer or its decision like one that exists, and its insert fails. In
`IssueWaves` (from `WavesAssumption`: keys are a finite set of integers, there is a
claim, and no path is also a resource), a wave is stated by what its loop leaves
behind: `Chosen` says that a ready issue is in it exactly when it conflicts with no
smaller one in it. `ChoiceIsThere` shows that such a set exists, by the smallest
counterexample; `SelectedFits` that no two of it conflict; `TouchingConflicts` that the
code's prefix tests see every two claims that share something. `WavesInv` says that
what is placed was placed once and after its dependencies. When nothing is ready,
every remaining issue needs a remaining one, which is the cycle of `HasCycle`; the
converse is `PlacedHasNoCycle`, by the first wave that holds an issue of the cycle.
The order of the compiler is a recursive function on sets of issues (`Place`). The
induction it needs is done by hand, from a smallest counterexample
(`SmallestIsThere`, from the well-founded order of finite subsets): `SortedIsThere`,
a finite set of keys has its sorted sequence; `PlaceIsThere`, there is a function
that satisfies the recursion, so that `Place` does; `PlaceLists`, it lists a set
without a cycle completely and after its dependencies.

**Worker pool** (from `QueueAssumption` and `PoolAssumption`). What the host's rows say and
what processes do are two things, and `HostLimits` is about the second. `PoolInv` has
five parts. `RequestsOK`: a living worker is in the queue exactly
with the request its step waits with; that the request is one, and
not whichever is at the head, is what a grant relies on. `RowsOK`: the active
leases are within the slots, the calls of each provider and one holder per
resource; it is an invariant of the rows alone, since a grant counts them in the
transaction that adds one. `LeasesFollow`: while no lease of a living
worker lapsed, whoever occupies the host has an active lease with the provider
and the resources it works with. With these `HostWithinLimits` is a matter of
counting. `AttemptsOK`: an attempt whose claim stands built what the claim was made
for, and goes on to finish only after a green review. `ClaimStands` itself is
inductive beside them: every step that moves a task but a human's either is by its holder
or names the task in `spent.exhausted`. `DoneWasReviewed` is an action property of
the same lemmas, one per action, and needs no condition on faults.

Only model-checked:

- Liveness: `LaunchedSettles`, `StopDrains`, `JournalDrains`, `LandingCompletes`,
  `WorkbenchCatchesUp`, `WaitersServed`. Liveness under fairness is out of the
  provers' reach.

## 6. Where code and documents differ

Met while modelling; the model follows the code.

- The state machines forbid unlisted edges (`domain/state-machines.ts`), but a
  timeout or a failed start takes a queued Run to failed. `CommittedMoves` has them.
- After a crash between `claimNext` and `acquireLease` the job stays claimed:
  reconciliation looks for leases and external ids, and it has neither.
- A stop marks a job cancelled although only the supervisor that spawned the
  child can signal it; another one signals nobody. The child goes on.
- `consecutive_failures` is never reset by a success, so that the third failure
  opens the circuit whether or not it is consecutive.
- A pending job that passes its deadline is neither claimed nor timed out; the
  last lines of a journal stay unread when inspection ends the job first.
- Delivery is documented to create no external result twice; a deliver delayed past
  the merge opens a second pull request. The branch may have been pushed although
  the candidate ends `local_ready`, when the policy changes meanwhile.
- A remediation draft that does not compile wedges its gap report: every
  confirmation finds the same draft. A failed verdict whose sections are all in
  order has no gap report ("must identify at least one criterion gap").
- Acceptance compares what the client saw by the version of the goal alone.
- A failed discovery of the provider stays cached until the server restarts
  (`oidc-service.ts`), while the answer says "Start a new sign-in attempt"
  (`oidc-http.ts`).
- An admission command that is late by a whole round of block and release still admits.
- "A change to any authoritative participant must invalidate a command"
  (`workbench-projection.ts:257-258`, on the version of the composite task): the version
  is a sum over the latest attempt, whose Run and job are inserted with version 1
  (`postgres-scheduler-admission-repository.ts:116-138`). One projector and one admission are enough. A page shows 4 + 2 + 3; the
  issue is admitted again and the old job still leads (equal tries, greater id), so
  that the task is of version 5 + 1 + 3 and the command fits. Or the new job leads and
  the sum falls to 5 + 1 + 1, which later steps raise to a value that was shown
  before: a stale command is accepted then, and where a receipt holds that version, a
  command on the new rows is answered "Another command already owns this task
  version" (`postgres-task-action-repository.ts:272-290`). Without its condition on revision and
  attempt, `CommandsFitTheTask` is violated in the run `workbench`. After a replay
  two snapshots can have one sum too.
- The revision of a page. `NeonWorkbenchReadStore` adds the visible revisions of the
  projects, which is what `VisibleRevision` models. With the P12 adapters
  (`workbench-repository-factory.ts:70-74`), `NodePostgresWorkbenchReadStore` takes their
  maximum (`node-postgres-workbench-store.ts:144-159`), which hides the move of a
  second project: the mutant.
- Artifacts are kept immutable for their retention, and a `legal_hold` until an
  authorized release (`docs/p11-recovery.md:17-24`). An ingest of bytes that are in
  the store returns before it could extend the lock or set the hold
  (`s3-object-store.ts:99-102`), while its row gets its own retention. The lifecycle
  may then clean the object away under a row that has not expired, and the download
  fails.
- "Automated finalize operations require those values as a CAS"
  (`src/autodev/README.md:448-450`, on owner, token and revision of a claim). The block
  of a task whose failure budget is exhausted passes `force_reconcile_block=True`
  (`controller.py:1551-1566`) and compares nothing (`queue_repository.py:765`). An
  attempt reads the task as exhausted, a human resets the budget, another attempt
  claims the task, the first blocks it. Without the human it needs an attempt that
  selected the task before its last failure; this is why `ClaimStands` leaves out the
  tasks in `spent.exhausted`. The settlement of a crashed worker compares
  the claim, but reads it anew just before (`controller.py:3557-3565`), so that it
  blocks whatever claim the task has by then.
- `transition_provider` with an empty provider raises a `PersistenceConflictError`
  that the caller's `except HostCapacityError` does not catch; the worker ends as if
  it had died.

## 7. Not modelled

Text generation by planners and verifiers; HTTP parsing and request security
(header checks); observability and alerting thresholds; rendering; the recovery
policy and migration report of the reliability gates (pure predicates a unit
test covers); AutoDev's notifications; its YAML queue and file brokers, which the
database mode replaces; import, cutover and shadow comparison (one-off tooling);
the dashboard (read-only). Reasons for each are in `PROJECT.json`.
