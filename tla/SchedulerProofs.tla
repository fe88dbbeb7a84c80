--------------------------- MODULE SchedulerProofs ---------------------------
(***************************************************************************)
(* Theorems about Scheduler, for every value of its constants.             *)
(***************************************************************************)
EXTENDS SchedulerPromises, SequenceTheorems, FiniteSetTheorems, TLAPS


-----------------------------------------------------------------------------
(* Types.  A supervisor between two calls of one tick has a job in hand, and *)
(* the attempt and the node that the next call will use.                     *)
OnJob == {"mark_stopped", "mark_timed_out", "reconcile_external", "select",
          "acquire", "release", "issue", "start", "start_failed", "mark_started"}
InHand ==
    \A s \in Supervisor :
      /\ sups[s].pc \in OnJob => sups[s].job \in Job
      /\ sups[s].pc \in {"select", "acquire", "issue", "start"}
           => sups[s].attempt \in 1..MaxAttempts
      /\ sups[s].pc = "acquire" => sups[s].node \in Node
SupsTyped == sups \in [Supervisor -> Locals] /\ InHand
Typed == TypeOK /\ InHand

LEMMA InitTyped == Init => Typed
BY SchedulerAssumption
DEF Init, Typed, TypeOK, InHand, OnJob, Resting, JobRow, JobState, RunTerminal,
    JobTerminal, RunStatus, NodeRow, ControlRow, Child, Locals, PC, Scope

LEMMA GotoTyped ==
    ASSUME SupsTyped, NEW s \in Supervisor, NEW pc \in PC, Goto(s, pc),
           pc \in OnJob => sups[s].job \in Job,
           pc \in {"select", "acquire", "issue", "start"}
             => sups[s].attempt \in 1..MaxAttempts,
           pc = "acquire" => sups[s].node \in Node
    PROVE  SupsTyped'
BY DEF SupsTyped, Goto, InHand, Locals

LEMMA RestingTyped ==
    ASSUME SupsTyped, NEW s \in Supervisor, NEW pc \in PC \ OnJob,
           sups' = [sups EXCEPT ![s] = Resting(pc)]
    PROVE  SupsTyped'
BY SchedulerAssumption DEF SupsTyped, Resting, InHand, OnJob, Locals

LEMMA EndTickTyped ==
    ASSUME SupsTyped, NEW s \in Supervisor, EndTick(s)
    PROVE  SupsTyped'
BY RestingTyped DEF EndTick, PC, OnJob

LEMMA AfterReconcileTyped ==
    ASSUME SupsTyped, NEW s \in Supervisor, AfterReconcile(s)
    PROVE  SupsTyped'
BY EndTickTyped, GotoTyped DEF AfterReconcile, PC, OnJob

LEMMA ThrowTyped ==
    ASSUME Typed, NEW s \in Supervisor, Throw(s)
    PROVE  Typed'
<1>1. SupsTyped'
  BY RestingTyped DEF Throw, Die, Typed, TypeOK, SupsTyped, PC, OnJob
<1>2. procs' \in [Job -> Child]
  BY DEF Throw, Die, Typed, TypeOK, Child
<1> QED
  BY <1>1, <1>2 DEF Throw, store, Typed, TypeOK, SupsTyped, InHand

LEMMA WriteTyped ==
    ASSUME jobs \in [Job -> JobRow], NEW j \in Job, NEW row \in JobRow, Write(j, row)
    PROVE  jobs' \in [Job -> JobRow]
<1>1. [row EXCEPT !.version = @ + 1] \in JobRow
  BY DEF JobRow
<1> QED
  BY <1>1 DEF Write

LEMMA PublishTyped ==
    ASSUME runs \in [Job -> RunStatus], outbox \in [Job -> Seq(RunStatus)],
           NEW j \in Job, NEW status \in RunStatus, Publish(j, status)
    PROVE  /\ runs' \in [Job -> RunStatus]
           /\ outbox' \in [Job -> Seq(RunStatus)]
<1>1. Append(outbox[j], status) \in Seq(RunStatus)
  OBVIOUS
<1> QED
  BY <1>1 DEF Publish

LEMMA RegisterNodeTyped ==
    ASSUME Typed, NEW s \in Supervisor, RegisterNode(s)
    PROVE  Typed'
<1>1. SupsTyped'
  BY GotoTyped DEF RegisterNode, Typed, TypeOK, SupsTyped, PC, OnJob
<1>2. [online |-> TRUE, offlineAfter |-> clock + NodeTtl] \in NodeRow
  BY SchedulerAssumption DEF NodeRow, Typed, TypeOK
<1>3. nodes' \in [Node -> NodeRow]
  BY <1>2 DEF RegisterNode, Typed, TypeOK
<1> QED
  BY <1>1, <1>3 DEF RegisterNode, world, Typed, TypeOK, SupsTyped

LEMMA FlaggedTyped ==
    ASSUME jobs \in [Job -> JobRow], NEW now
    PROVE  Flagged(now) \in [Job -> JobRow]
<1>1. ASSUME NEW j \in Job
      PROVE  [jobs[j] EXCEPT !.recon = TRUE, !.version = @ + 1] \in JobRow
  <2>1. jobs[j] \in JobRow /\ jobs[j].version + 1 \in Nat
    BY DEF JobRow
  <2> QED
    BY <2>1, Zenon DEF JobRow
<1> QED
  BY <1>1 DEF Flagged

LEMMA ListForReconciliationTyped ==
    ASSUME Typed, NEW s \in Supervisor, ListForReconciliation(s)
    PROVE  Typed'
<1> DEFINE rows == Flagged(clock)
           found == {[job |-> j, ext |-> rows[j].ext, stop |-> StopRequested(j)] :
                       j \in {i \in Job : NeedsReconciliation(i, rows[i], clock)}}
<1>1. rows \in [Job -> JobRow]
  BY FlaggedTyped DEF Typed, TypeOK
<1>2. found \subseteq Snapshot
  <2>1. \A j \in Job : rows[j].ext \in 0..MaxAttempts /\ StopRequested(j) \in BOOLEAN
    BY <1>1 DEF JobRow, StopRequested
  <2> HIDE DEF rows
  <2> QED
    BY <2>1 DEF Snapshot
<1>3. sups' = [sups EXCEPT ![s].now = clock, ![s].todo = found,
                 ![s].pc = IF found = {} THEN "heartbeat" ELSE "reconcile"]
  BY DEF ListForReconciliation
<1> HIDE DEF rows, found
<1>4. SupsTyped'
  <2>1. clock \in Nat
    BY SchedulerAssumption DEF Typed, TypeOK
  <2>2. PICK pc \in {"heartbeat", "reconcile"} :
          sups' = [sups EXCEPT ![s].now = clock, ![s].todo = found, ![s].pc = pc]
    BY <1>3
  <2>3. sups' = [sups EXCEPT ![s] =
                   [sups[s] EXCEPT !.now = clock, !.todo = found, !.pc = pc]]
    BY <2>2
  <2>4. [sups[s] EXCEPT !.now = clock, !.todo = found, !.pc = pc] \in Locals
    <3>1. sups[s] \in Locals /\ pc \in PC
      BY DEF Typed, TypeOK, PC
    <3> QED
      BY <3>1, <2>1, <1>2, Zenon DEF Locals
  <2>5. sups' \in [Supervisor -> Locals]
    BY <2>3, <2>4 DEF Typed, TypeOK
  <2>6. InHand'
    BY <2>3 DEF Typed, TypeOK, InHand, OnJob
  <2> QED
    BY <2>5, <2>6 DEF SupsTyped
<1>5. nodes' \in [Node -> NodeRow]
  BY DEF ListForReconciliation, Typed, TypeOK, NodeRow
<1>6. leases' \subseteq Lease /\ jobs' = rows
  BY DEF ListForReconciliation, Typed, TypeOK, rows
<1> QED
  BY <1>1, <1>4, <1>5, <1>6
  DEF ListForReconciliation, world, Typed, TypeOK, SupsTyped

LEMMA TakeTyped ==
    ASSUME SupsTyped, NEW s \in Supervisor, NEW r \in sups[s].todo,
           NEW pc \in {"mark_stopped", "mark_timed_out", "reconcile_external"},
           NEW seen \in {"starting", "unknown", "running"} \cup RunTerminal,
           Take(s, r, pc, seen)
    PROVE  SupsTyped'
<1>1. r \in Snapshot /\ r.job \in Job
  BY DEF SupsTyped, Locals, Snapshot
<1> QED
  BY <1>1 DEF Take, SupsTyped, Locals, PC, InHand, OnJob

LEMMA CancelExternalTyped ==
    ASSUME Typed, NEW s \in Supervisor, CancelExternal(s)
    PROVE  Typed'
<1>1. SupsTyped'
  BY TakeTyped DEF CancelExternal, Typed, TypeOK, SupsTyped
<1>2. \A child \in Child : [child EXCEPT !.signalled = TRUE] \in Child
  BY Zenon DEF Child
<1>3. procs' \in [Job -> Child]
  <2>1. PICK r \in sups[s].todo :
          procs' \in {procs, [procs EXCEPT ![r.job].signalled = TRUE]}
    BY DEF CancelExternal
  <2>2. procs \in [Job -> Child]
    BY DEF Typed, TypeOK
  <2> QED
    BY <1>2, <2>1, <2>2
<1> QED
  BY <1>1, <1>3 DEF CancelExternal, store, Typed, TypeOK, SupsTyped

LEMMA InspectExternalTyped ==
    ASSUME Typed, NEW s \in Supervisor, InspectExternal(s)
    PROVE  Typed'
<1>1. PICK r \in sups[s].todo : \E answer \in Inspections(r) :
              Take(s, r, "reconcile_external", answer)
  BY DEF InspectExternal
<1>2. PICK answer \in Inspections(r) : Take(s, r, "reconcile_external", answer)
  BY <1>1
<1>3. r.job \in Job
  <2>1. r \in Snapshot
    BY DEF Typed, TypeOK, Locals
  <2> QED
    BY <2>1 DEF Snapshot
<1>4. answer \in {"unknown", "running"} \cup RunTerminal
  BY <1>3 DEF Inspections, Typed, TypeOK, Child, RunTerminal
<1>5. SupsTyped'
  BY <1>2, <1>4, TakeTyped DEF Typed, TypeOK, SupsTyped
<1> QED
  BY <1>5 DEF InspectExternal, store, world, Typed, TypeOK, SupsTyped

LEMMA SettleTyped ==
    ASSUME Typed, NEW j \in Job, NEW state \in RunTerminal, Settle(j, state)
    PROVE  /\ jobs' \in [Job -> JobRow] /\ leases' \subseteq Lease
           /\ runs' \in [Job -> RunStatus] /\ outbox' \in [Job -> Seq(RunStatus)]
           /\ nodes' \in [Node -> NodeRow] /\ controls' \in [Scope -> ControlRow]
<1>1. [jobs[j] EXCEPT !.state = state, !.recon = FALSE] \in JobRow
  <2>1. jobs[j] \in JobRow /\ state \in JobState
    BY DEF Typed, TypeOK, JobState, RunTerminal
  <2> QED
    BY <2>1, Zenon DEF JobRow
<1>2. jobs' \in [Job -> JobRow]
  BY <1>1, WriteTyped DEF Settle, Typed, TypeOK
<1>3. runs' \in [Job -> RunStatus] /\ outbox' \in [Job -> Seq(RunStatus)]
  BY PublishTyped DEF Settle, Typed, TypeOK, RunStatus
<1> QED
  BY <1>2, <1>3 DEF Settle, Typed, TypeOK

LEMMA MarkStoppedTyped ==
    ASSUME Typed, NEW s \in Supervisor, MarkStopped(s)
    PROVE  Typed'
<1>1. sups[s].job \in Job
  BY DEF MarkStopped, At, Typed, InHand, OnJob
<1>2. CASE Ended(sups[s].job)
  BY <1>2, ThrowTyped DEF MarkStopped
<1>3. CASE ~Ended(sups[s].job)
  <2>1. SupsTyped'
    BY <1>3, AfterReconcileTyped DEF MarkStopped, Typed, TypeOK, SupsTyped
  <2>2. Settle(sups[s].job, "cancelled") /\ UNCHANGED <<clock, world, spent>>
    BY <1>3 DEF MarkStopped
  <2> QED
    BY <1>1, <2>1, <2>2, SettleTyped
    DEF world, Typed, TypeOK, SupsTyped, RunTerminal
<1> QED
  BY <1>2, <1>3

LEMMA MarkTimedOutTyped ==
    ASSUME Typed, NEW s \in Supervisor, MarkTimedOut(s)
    PROVE  Typed'
<1>1. sups[s].job \in Job
  BY DEF MarkTimedOut, At, Typed, InHand, OnJob
<1>2. CASE Ended(sups[s].job)
  BY <1>2, ThrowTyped DEF MarkTimedOut
<1>3. CASE ~Ended(sups[s].job)
  <2>1. SupsTyped'
    BY <1>3, AfterReconcileTyped DEF MarkTimedOut, Typed, TypeOK, SupsTyped
  <2>2. Settle(sups[s].job, "failed") /\ UNCHANGED <<clock, world, spent>>
    BY <1>3 DEF MarkTimedOut
  <2> QED
    BY <1>1, <2>1, <2>2, SettleTyped
    DEF world, Typed, TypeOK, SupsTyped, RunTerminal
<1> QED
  BY <1>2, <1>3

LEMMA CommitTyped ==
    ASSUME Typed, NEW j \in Job, NEW state \in RunTerminal \cup {"running", "blocked"},
           CommitExternalState(j, state)
    PROVE  /\ jobs' \in [Job -> JobRow] /\ leases' \subseteq Lease
           /\ runs' \in [Job -> RunStatus] /\ outbox' \in [Job -> Seq(RunStatus)]
           /\ nodes' \in [Node -> NodeRow] /\ controls' \in [Scope -> ControlRow]
<1>1. [jobs[j] EXCEPT !.state = state, !.recon = FALSE] \in JobRow
  <2>1. jobs[j] \in JobRow /\ state \in JobState
    BY DEF Typed, TypeOK, JobState, RunTerminal
  <2> QED
    BY <2>1, Zenon DEF JobRow
<1>2. jobs' \in [Job -> JobRow]
  BY <1>1, WriteTyped DEF CommitExternalState, Typed, TypeOK
<1>3. runs' \in [Job -> RunStatus] /\ outbox' \in [Job -> Seq(RunStatus)]
  BY PublishTyped DEF CommitExternalState, Typed, TypeOK, RunStatus
<1> QED
  BY <1>2, <1>3 DEF CommitExternalState, Typed, TypeOK

LEMMA ReconcileExternalTyped ==
    ASSUME Typed, NEW s \in Supervisor, ReconcileExternal(s)
    PROVE  Typed'
<1>1. sups[s].job \in Job
  BY DEF ReconcileExternal, At, Typed, InHand, OnJob
<1>2. CASE Ended(sups[s].job)
  BY <1>2, ThrowTyped DEF ReconcileExternal
<1>3. CASE ~Ended(sups[s].job)
  <2>1. SupsTyped'
    BY <1>3, AfterReconcileTyped DEF ReconcileExternal, Typed, TypeOK, SupsTyped
  <2>2. CommitExternalState(sups[s].job, MappedState(sups[s].seen))
    BY <1>3 DEF ReconcileExternal
  <2>3. MappedState(sups[s].seen) \in RunTerminal \cup {"running", "blocked"}
    BY DEF MappedState
  <2> QED
    BY <1>1, <1>3, <2>1, <2>2, <2>3, CommitTyped
    DEF ReconcileExternal, world, Typed, TypeOK, SupsTyped
<1> QED
  BY <1>2, <1>3

LEMMA MarkStartedTyped ==
    ASSUME Typed, NEW s \in Supervisor, MarkStarted(s)
    PROVE  Typed'
<1>1. sups[s].job \in Job
  BY DEF MarkStarted, At, Typed, InHand, OnJob
<1>2. CASE Ended(sups[s].job)
  BY <1>2, ThrowTyped DEF MarkStarted
<1>3. CASE ~Ended(sups[s].job)
  <2>1. SupsTyped'
    BY <1>3, EndTickTyped DEF MarkStarted, Typed, TypeOK, SupsTyped
  <2>2. CommitExternalState(sups[s].job, MappedState("starting"))
    BY <1>3 DEF MarkStarted
  <2>3. MappedState("starting") \in RunTerminal \cup {"running", "blocked"}
    BY DEF MappedState
  <2> QED
    BY <1>1, <1>3, <2>1, <2>2, <2>3, CommitTyped
    DEF MarkStarted, world, Typed, TypeOK, SupsTyped
<1> QED
  BY <1>2, <1>3

LEMMA HeartbeatOwnedTyped ==
    ASSUME Typed, NEW s \in Supervisor, HeartbeatOwned(s)
    PROVE  Typed'
<1>1. SupsTyped'
  BY GotoTyped DEF HeartbeatOwned, Typed, TypeOK, SupsTyped, PC, OnJob
<1>2. sups[s].now + LeaseDuration \in Nat
  BY SchedulerAssumption DEF Typed, TypeOK, Locals
<1>3. \A l \in leases : [l EXCEPT !.expires = sups[s].now + LeaseDuration] \in Lease
  <2>1. \A l \in leases : l \in Lease
    BY DEF Typed, TypeOK
  <2> QED
    BY <1>2, <2>1, Zenon DEF Lease
<1>4. leases' \subseteq Lease
  BY <1>3 DEF HeartbeatOwned, Typed, TypeOK
<1> QED
  BY <1>1, <1>4 DEF HeartbeatOwned, world, Typed, TypeOK, SupsTyped

LEMMA ClaimNextTyped ==
    ASSUME Typed, NEW s \in Supervisor, ClaimNext(s)
    PROVE  Typed'
<1>1. PICK j \in Job :
        /\ Write(j, [jobs[j] EXCEPT !.state = "claimed"])
        /\ sups' = [sups EXCEPT ![s].pc = "select", ![s].job = j,
                      ![s].version = jobs[j].version + 1,
                      ![s].attempt = jobs[j].attempt]
  BY DEF ClaimNext
<1>2. jobs[j] \in JobRow
  BY DEF Typed, TypeOK
<1>3. jobs' \in [Job -> JobRow]
  <2>1. [jobs[j] EXCEPT !.state = "claimed"] \in JobRow
    BY <1>2, Zenon DEF JobRow, JobState
  <2> QED
    BY <1>1, <2>1, WriteTyped DEF Typed, TypeOK
<1>4. SupsTyped'
  <2> DEFINE new == [sups[s] EXCEPT !.pc = "select", !.job = j,
                       !.version = jobs[j].version + 1, !.attempt = jobs[j].attempt]
  <2>1. sups' = [sups EXCEPT ![s] = new]
    BY <1>1
  <2>2. jobs[j].version + 1 \in Nat /\ jobs[j].attempt \in 1..MaxAttempts
    BY <1>2 DEF JobRow
  <2>3. new \in Locals
    <3>1. sups[s] \in Locals /\ jobs[j].attempt \in 0..MaxAttempts
      BY <2>2, SchedulerAssumption DEF Typed, TypeOK
    <3> QED
      BY <3>1, <2>2, Zenon DEF Locals, PC
  <2>4. sups' \in [Supervisor -> Locals]
    BY <2>1, <2>3 DEF Typed, TypeOK
  <2>5. InHand'
    BY <2>1, <2>2 DEF Typed, TypeOK, InHand, OnJob
  <2> QED
    BY <2>4, <2>5 DEF SupsTyped
<1> QED
  BY <1>3, <1>4 DEF ClaimNext, world, Typed, TypeOK, SupsTyped

LEMMA IdleTyped ==
    ASSUME Typed, NEW s \in Supervisor, Idle(s)
    PROVE  Typed'
<1>1. SupsTyped'
  BY EndTickTyped DEF Idle, Typed, TypeOK, SupsTyped
<1> QED
  BY <1>1 DEF Idle, store, world, Typed, TypeOK, SupsTyped

LEMMA SelectNodeTyped ==
    ASSUME Typed, NEW s \in Supervisor, SelectNode(s)
    PROVE  Typed'
<1>1. sups[s].job \in Job
  BY DEF SelectNode, At, Typed, InHand, OnJob
<1>2. SupsTyped'
  <2>1. CASE Goto(s, "release")
    BY <1>1, <2>1, GotoTyped DEF Typed, TypeOK, SupsTyped, PC
  <2>2. ASSUME NEW n \in Selectable(sups[s].job, sups[s].now),
               sups' = [sups EXCEPT ![s].pc = "acquire", ![s].node = n]
        PROVE  SupsTyped'
    <3>1. n \in Node
      BY <1>1, SchedulerAssumption DEF Selectable
    <3>2. sups[s].attempt \in 1..MaxAttempts
      BY DEF SelectNode, At, Typed, InHand
    <3>3. sups' = [sups EXCEPT ![s] = [sups[s] EXCEPT !.pc = "acquire", !.node = n]]
      BY <2>2
    <3>4. [sups[s] EXCEPT !.pc = "acquire", !.node = n] \in Locals
      <4>1. sups[s] \in Locals
        BY DEF Typed, TypeOK
      <4> QED
        BY <3>1, <4>1, Zenon DEF Locals, PC
    <3>5. sups' \in [Supervisor -> Locals]
      BY <3>3, <3>4 DEF Typed, TypeOK
    <3>6. InHand'
      BY <1>1, <3>1, <3>2, <3>3 DEF Typed, TypeOK, InHand, OnJob
    <3> QED
      BY <3>5, <3>6 DEF SupsTyped
  <2> QED
    BY <2>1, <2>2 DEF SelectNode
<1> QED
  BY <1>2 DEF SelectNode, store, world, Typed, TypeOK, SupsTyped

LEMMA AcquireLeaseTyped ==
    ASSUME Typed, NEW s \in Supervisor, AcquireLease(s)
    PROVE  Typed'
<1>1. sups[s].job \in Job /\ sups[s].node \in Node
  BY DEF AcquireLease, At, Typed, InHand, OnJob
<1>2. Goto(s, "issue") \/ Goto(s, "release")
  BY DEF AcquireLease
<1>3. SupsTyped'
  <2>1. sups[s].attempt \in 1..MaxAttempts
    BY DEF AcquireLease, At, Typed, InHand
  <2> QED
    BY <1>1, <1>2, <2>1, GotoTyped DEF Typed, TypeOK, SupsTyped, PC
<1>4. leases' \subseteq Lease
  <2>1. sups[s].now + LeaseDuration \in Nat
    BY SchedulerAssumption DEF Typed, TypeOK, Locals
  <2>2. [job |-> sups[s].job, node |-> sups[s].node, owner |-> s,
         expires |-> sups[s].now + LeaseDuration] \in Lease
    BY <1>1, <2>1 DEF Lease
  <2> QED
    BY <2>2 DEF AcquireLease, Kept, Typed, TypeOK
<1> QED
  BY <1>3, <1>4 DEF AcquireLease, world, Typed, TypeOK, SupsTyped

LEMMA ReleaseClaimTyped ==
    ASSUME Typed, NEW s \in Supervisor, ReleaseClaim(s)
    PROVE  Typed'
<1>1. sups[s].job \in Job
  BY DEF ReleaseClaim, At, Typed, InHand, OnJob
<1>2. [jobs[sups[s].job] EXCEPT !.state = "pending", !.nextAt = sups[s].now] \in JobRow
  <2>1. jobs[sups[s].job] \in JobRow /\ sups[s].now \in Nat
    BY <1>1 DEF Typed, TypeOK, Locals
  <2> QED
    BY <2>1, Zenon DEF JobRow, JobState
<1>3. jobs' \in [Job -> JobRow]
  BY <1>1, <1>2, WriteTyped DEF ReleaseClaim, Typed, TypeOK
<1>4. SupsTyped'
  BY EndTickTyped DEF ReleaseClaim, Typed, TypeOK, SupsTyped
<1> QED
  BY <1>3, <1>4 DEF ReleaseClaim, world, Typed, TypeOK, SupsTyped

LEMMA MarkExternalStartIssuedTyped ==
    ASSUME Typed, NEW s \in Supervisor, MarkExternalStartIssued(s)
    PROVE  Typed'
<1>1. sups[s].job \in Job /\ sups[s].attempt \in 1..MaxAttempts
  BY DEF MarkExternalStartIssued, At, Typed, InHand, OnJob
<1>2. CASE ~ClaimStands(s)
  BY <1>2, ThrowTyped DEF MarkExternalStartIssued
<1>3. CASE ClaimStands(s)
  <2>1. SupsTyped'
    BY <1>1, <1>3, GotoTyped DEF MarkExternalStartIssued, Typed, TypeOK, SupsTyped, PC
  <2>2. [jobs[sups[s].job] EXCEPT !.state = "starting", !.recon = TRUE,
                                  !.ext = sups[s].attempt] \in JobRow
    <3>1. jobs[sups[s].job] \in JobRow /\ sups[s].attempt \in 0..MaxAttempts
      BY <1>1, SchedulerAssumption DEF Typed, TypeOK
    <3> QED
      BY <3>1, Zenon DEF JobRow, JobState
  <2>3. jobs' \in [Job -> JobRow]
    BY <1>1, <1>3, <2>2, WriteTyped DEF MarkExternalStartIssued, Typed, TypeOK
  <2> QED
    BY <1>3, <2>1, <2>3 DEF MarkExternalStartIssued, world, Typed, TypeOK, SupsTyped
<1> QED
  BY <1>2, <1>3

LEMMA LaunchTyped ==
    ASSUME Typed, NEW s \in Supervisor, Launch(s)
    PROVE  Typed'
<1>1. sups[s].job \in Job /\ sups[s].attempt \in 1..MaxAttempts
  BY DEF Launch, At, Typed, InHand, OnJob
<1>2. SupsTyped'
  BY <1>1, GotoTyped DEF Launch, Typed, TypeOK, SupsTyped, PC
<1>3. procs' \in [Job -> Child]
  <2>1. [phase |-> "alive", gateway |-> s, signalled |-> FALSE,
         journal |-> "absent"] \in Child
    BY DEF Child
  <2> QED
    BY <2>1 DEF Launch, Typed, TypeOK
<1>4. launched' \in [Job -> Seq(1..MaxAttempts)]
  <2>1. Append(launched[sups[s].job], sups[s].attempt) \in Seq(1..MaxAttempts)
    BY <1>1 DEF Typed, TypeOK
  <2> QED
    BY <2>1 DEF Launch, Typed, TypeOK
<1> QED
  BY <1>2, <1>3, <1>4 DEF Launch, store, Typed, TypeOK, SupsTyped

LEMMA LaunchFailsTyped ==
    ASSUME Typed, NEW s \in Supervisor, LaunchFails(s)
    PROVE  Typed'
<1>1. sups[s].job \in Job
  BY DEF LaunchFails, At, Typed, InHand, OnJob
<1>2. SupsTyped'
  BY <1>1, GotoTyped DEF LaunchFails, Typed, TypeOK, SupsTyped, PC
<1> QED
  BY <1>2 DEF LaunchFails, store, Typed, TypeOK, SupsTyped

LEMMA HandleStartFailureTyped ==
    ASSUME Typed, NEW s \in Supervisor, HandleStartFailure(s)
    PROVE  Typed'
<1> DEFINE j == sups[s].job
           p == ProjectOf[j]
<1>1. j \in Job
  BY DEF HandleStartFailure, At, Typed, InHand, OnJob
<1>2. CASE jobs[j].state # "starting"
  BY <1>2, ThrowTyped DEF HandleStartFailure
<1>3. CASE jobs[j].state = "starting"
  <2>1. SupsTyped'
    BY <1>3, EndTickTyped DEF HandleStartFailure, Typed, TypeOK, SupsTyped
  <2>2. jobs' \in [Job -> JobRow]
    <3> DEFINE state == IF CanRetry(j) THEN "retry_wait" ELSE "failed"
               attempt == IF CanRetry(j) THEN jobs[j].attempt + 1 ELSE jobs[j].attempt
               nextAt == clock + RetryDelay
    <3>1. jobs[j] \in JobRow
      BY <1>1 DEF Typed, TypeOK
    <3>2. state \in JobState
      BY DEF JobState, JobTerminal, RunTerminal
    <3>3. attempt \in 1..MaxAttempts /\ 0 \in 0..MaxAttempts
      BY <3>1, SchedulerAssumption DEF CanRetry, JobRow
    <3>4. nextAt \in Nat
      BY SchedulerAssumption DEF Typed, TypeOK
    <3>5. Write(j, [jobs[j] EXCEPT !.state = state, !.attempt = attempt,
                      !.nextAt = nextAt, !.ext = 0, !.recon = FALSE])
      BY <1>3 DEF HandleStartFailure
    <3> HIDE DEF state, attempt, nextAt, j
    <3>6. [jobs[j] EXCEPT !.state = state, !.attempt = attempt, !.nextAt = nextAt,
                          !.ext = 0, !.recon = FALSE] \in JobRow
      BY <3>1, <3>2, <3>3, <3>4, Zenon DEF JobRow
    <3> QED
      BY <1>1, <3>5, <3>6, WriteTyped DEF Typed, TypeOK
  <2>3. controls' \in [Scope -> ControlRow]
    <3>1. p \in Scope
      BY <1>1, SchedulerAssumption DEF Scope
    <3>2. controls[p] \in ControlRow
      BY <3>1 DEF Typed, TypeOK
    <3> DEFINE openUntil == IF controls[p].failures + 1 >= CircuitThreshold
                            THEN clock + CircuitPeriod ELSE controls[p].openUntil
               failures == controls[p].failures + 1
    <3>3. failures \in Nat
      BY <3>2 DEF ControlRow
    <3>4. openUntil \in Nat
      <4>1. clock + CircuitPeriod \in Nat
        BY SchedulerAssumption DEF Typed, TypeOK
      <4>2. controls[p].openUntil \in Nat
        BY <3>2 DEF ControlRow
      <4> QED
        BY <4>1, <4>2
    <3>5. controls' = [controls EXCEPT ![p] =
            [controls[p] EXCEPT !.failures = failures, !.openUntil = openUntil]]
      BY <1>3, <3>1 DEF HandleStartFailure, Typed, TypeOK
    <3> HIDE DEF failures, openUntil, p
    <3>6. [controls[p] EXCEPT !.failures = failures, !.openUntil = openUntil]
            \in ControlRow
      BY <3>2, <3>3, <3>4, Zenon DEF ControlRow
    <3> QED
      BY <3>5, <3>6 DEF Typed, TypeOK
  <2>4. runs' \in [Job -> RunStatus] /\ outbox' \in [Job -> Seq(RunStatus)]
    <3>1. UNCHANGED <<runs, outbox>> \/ Publish(j, "failed")
      BY <1>3 DEF HandleStartFailure
    <3>2. "failed" \in RunStatus
      BY DEF RunStatus, RunTerminal
    <3> QED
      BY <1>1, <3>1, <3>2, PublishTyped DEF Typed, TypeOK
  <2> QED
    BY <1>3, <2>1, <2>2, <2>3, <2>4
    DEF HandleStartFailure, world, Typed, TypeOK, SupsTyped
<1> QED
  BY <1>2, <1>3

LEMMA ListExternalRunsTyped ==
    ASSUME Typed, NEW s \in Supervisor, ListExternalRuns(s)
    PROVE  Typed'
<1> DEFINE live == {j \in Job : jobs[j].ext # 0 /\ jobs[j].state \notin JobTerminal}
<1>1. PICK pc \in {"register", "poll"} :
        sups' = [sups EXCEPT ![s] = [sups[s] EXCEPT !.polls = live, !.pc = pc]]
  BY DEF ListExternalRuns
<1>2. [sups[s] EXCEPT !.polls = live, !.pc = pc] \in Locals
  <2>1. sups[s] \in Locals /\ live \in SUBSET Job /\ pc \in PC
    BY DEF Typed, TypeOK, PC
  <2> HIDE DEF live
  <2> QED
    BY <2>1, Zenon DEF Locals
<1> HIDE DEF live
<1>3. SupsTyped'
  BY <1>1, <1>2 DEF Typed, TypeOK, SupsTyped, InHand, OnJob
<1> QED
  BY <1>3 DEF ListExternalRuns, store, world, Typed, TypeOK, SupsTyped

LEMMA PollDoneTyped ==
    ASSUME Typed, NEW s \in Supervisor, PollDone(s)
    PROVE  Typed'
<1>1. PICK j \in sups[s].polls :
        sups' = IF sups[s].polls = {j}
                THEN [sups EXCEPT ![s] = Resting("register")]
                ELSE [sups EXCEPT ![s].polls = @ \ {j}]
  BY DEF PollDone
<1>2. CASE sups[s].polls = {j}
  <2>1. SupsTyped'
    BY <1>1, <1>2, RestingTyped DEF Typed, TypeOK, SupsTyped, PC, OnJob
  <2> QED
    BY <2>1 DEF PollDone, store, world, Typed, TypeOK, SupsTyped
<1>3. CASE sups[s].polls # {j}
  <2>1. sups' = [sups EXCEPT ![s] = [sups[s] EXCEPT !.polls = @ \ {j}]]
    BY <1>1, <1>3
  <2>2. [sups[s] EXCEPT !.polls = @ \ {j}] \in Locals
    BY DEF Typed, TypeOK, Locals
  <2>3. SupsTyped'
    BY <2>1, <2>2 DEF Typed, TypeOK, SupsTyped, InHand, OnJob
  <2> QED
    BY <2>3 DEF PollDone, store, world, Typed, TypeOK, SupsTyped
<1> QED
  BY <1>2, <1>3

\* The second event of a journal carries the outcome of the child.
LEMMA EventTyped ==
    ASSUME Typed, NEW j \in Job, jobs[j].seq # 0, jobs[j].seq < Events(j)
    PROVE  procs[j].journal \in RunTerminal
<1>1. jobs[j].seq \in 0..2 /\ procs[j].journal \in {"absent", "running"} \cup RunTerminal
  BY DEF Typed, TypeOK, JobRow, Child
<1> QED
  BY <1>1 DEF Events

LEMMA IngestTyped ==
    ASSUME Typed, NEW s \in Supervisor, Ingest(s)
    PROVE  Typed'
<1>1. PICK j \in sups[s].polls :
        LET event == IF jobs[j].seq = 0 THEN "running" ELSE procs[j].journal
            after == IF RunOver(j) THEN runs[j] ELSE event
        IN  /\ jobs[j].seq < Events(j)
            /\ Write(j, [jobs[j] EXCEPT !.seq = @ + 1, !.recon = FALSE, !.state = after])
            /\ runs' = [runs EXCEPT ![j] = after]
            /\ outbox' = [outbox EXCEPT ![j] =
                 IF RunOver(j) \/ runs[j] = event THEN @
                 ELSE IF runs[j] = "queued" /\ event # "running"
                      THEN @ \o <<"running", event>>
                      ELSE Append(@, event)]
            /\ leases' = IF after \in RunTerminal THEN leases \ Held(j) ELSE leases
  BY DEF Ingest
<1> DEFINE event == IF jobs[j].seq = 0 THEN "running" ELSE procs[j].journal
           after == IF RunOver(j) THEN runs[j] ELSE event
<1>2. j \in Job /\ jobs[j] \in JobRow
  BY DEF Typed, TypeOK, Locals
<1>3. event \in {"running"} \cup RunTerminal
  BY <1>1, <1>2, EventTyped
<1>4. after \in {"running"} \cup RunTerminal
  BY <1>3 DEF RunOver
<1> HIDE DEF event, after
<1>5. jobs' \in [Job -> JobRow]
  <2>1. jobs[j].seq + 1 \in 0..2
    BY <1>1, <1>2 DEF Events, JobRow
  <2>2. after \in JobState
    BY <1>4 DEF JobState, RunTerminal
  <2>3. [jobs[j] EXCEPT !.seq = @ + 1, !.recon = FALSE, !.state = after] \in JobRow
    BY <1>2, <2>1, <2>2, Zenon DEF JobRow
  <2> QED
    BY <1>1, <1>2, <2>3, WriteTyped DEF event, after, Typed, TypeOK
<1>6. runs' \in [Job -> RunStatus]
  BY <1>1, <1>2, <1>4 DEF event, after, RunStatus, Typed, TypeOK
<1>7. outbox' \in [Job -> Seq(RunStatus)]
  <2>1. outbox[j] \in Seq(RunStatus) /\ event \in RunStatus /\ "running" \in RunStatus
    BY <1>2, <1>3 DEF RunStatus, Typed, TypeOK
  <2>2. <<"running", event>> \in Seq(RunStatus)
    BY <2>1
  <2>3. /\ outbox[j] \o <<"running", event>> \in Seq(RunStatus)
        /\ Append(outbox[j], event) \in Seq(RunStatus)
    BY <2>1, <2>2
  <2>4. PICK new \in Seq(RunStatus) : outbox' = [outbox EXCEPT ![j] = new]
    BY <1>1, <2>1, <2>3 DEF event
  <2> QED
    BY <2>4 DEF Typed, TypeOK
<1>8. leases' \subseteq Lease
  BY <1>1 DEF Typed, TypeOK
<1> QED
  BY <1>5, <1>6, <1>7, <1>8 DEF Ingest, world, Typed, TypeOK, InHand

LEMMA CrashTyped ==
    ASSUME Typed, NEW s \in Supervisor, Crash(s)
    PROVE  Typed'
<1>1. SupsTyped'
  BY RestingTyped DEF Crash, Die, Typed, TypeOK, SupsTyped, PC, OnJob
<1>2. procs' \in [Job -> Child]
  BY DEF Crash, Die, Typed, TypeOK, Child
<1>3. spent' \in [crashes : 0..MaxCrashes, commands : 0..MaxCommands]
  <2>1. spent \in [crashes : 0..MaxCrashes, commands : 0..MaxCommands]
    BY DEF Typed, TypeOK
  <2>2. spent.crashes \in 0..MaxCrashes /\ spent.crashes < MaxCrashes
    BY <2>1 DEF Crash
  <2>3. spent.crashes + 1 \in 0..MaxCrashes
    BY <2>2, SchedulerAssumption
  <2>4. spent' = [spent EXCEPT !.crashes = spent.crashes + 1]
    BY DEF Crash
  <2> QED
    BY <2>1, <2>3, <2>4, Zenon
<1> QED
  BY <1>1, <1>2, <1>3 DEF Crash, store, Typed, TypeOK, SupsTyped

LEMMA RestartTyped ==
    ASSUME Typed, NEW s \in Supervisor, Restart(s)
    PROVE  Typed'
<1>1. SupsTyped'
  BY GotoTyped DEF Restart, Typed, TypeOK, SupsTyped, PC, OnJob
<1> QED
  BY <1>1 DEF Restart, store, world, Typed, TypeOK, SupsTyped

LEMMA CommandTyped ==
    ASSUME Typed, NEW c \in Scope, NEW op \in Operation, Command(c, op)
    PROVE  Typed'
<1>1. controls[c] \in ControlRow
  BY DEF Typed, TypeOK
<1>2. controls' \in [Scope -> ControlRow]
  <2> DEFINE new == [state |-> NextControlState(op),
                     failures |-> IF op \in {"start", "retry"} THEN 0
                                  ELSE controls[c].failures,
                     openUntil |-> IF op \in {"start", "retry"} THEN 0
                                   ELSE controls[c].openUntil]
  <2>1. NextControlState(op) \in {"active", "paused", "draining", "stopped"}
    BY DEF NextControlState
  <2>2. new \in ControlRow
    BY <1>1, <2>1 DEF ControlRow
  <2>3. controls' = [controls EXCEPT ![c] = new]
    BY DEF Command
  <2> QED
    BY <2>2, <2>3 DEF Typed, TypeOK
<1>3. spent' \in [crashes : 0..MaxCrashes, commands : 0..MaxCommands]
  <2>1. spent \in [crashes : 0..MaxCrashes, commands : 0..MaxCommands]
    BY DEF Typed, TypeOK
  <2>2. spent.commands \in 0..MaxCommands /\ spent.commands < MaxCommands
    BY <2>1 DEF Command
  <2>3. spent.commands + 1 \in 0..MaxCommands
    BY <2>2, SchedulerAssumption
  <2>4. spent' = [spent EXCEPT !.commands = spent.commands + 1]
    BY DEF Command
  <2> QED
    BY <2>1, <2>3, <2>4, Zenon
<1> QED
  BY <1>2, <1>3 DEF Command, world, Typed, TypeOK, InHand

LEMMA ChildReportsTyped ==
    ASSUME Typed, NEW j \in Job, ChildReports(j)
    PROVE  Typed'
<1>1. PICK status \in Outcome \cup {"running"} :
        procs' = [procs EXCEPT ![j] = [procs[j] EXCEPT !.journal = status]]
  BY DEF ChildReports
<1>2. [procs[j] EXCEPT !.journal = status] \in Child
  <2>1. procs[j] \in Child /\ status \in {"absent", "running"} \cup RunTerminal
    BY SchedulerAssumption DEF Typed, TypeOK
  <2> QED
    BY <2>1, Zenon DEF Child
<1> QED
  BY <1>1, <1>2 DEF ChildReports, store, Typed, TypeOK, InHand

LEMMA ChildExitsTyped ==
    ASSUME Typed, NEW j \in Job, ChildExits(j)
    PROVE  Typed'
<1>1. procs' = [procs EXCEPT ![j] = [procs[j] EXCEPT !.phase = "exited"]]
  BY DEF ChildExits
<1>2. [procs[j] EXCEPT !.phase = "exited"] \in Child
  <2>1. procs[j] \in Child
    BY DEF Typed, TypeOK
  <2> QED
    BY <2>1, Zenon DEF Child
<1> QED
  BY <1>1, <1>2 DEF ChildExits, store, Typed, TypeOK, InHand

LEMMA TickTyped == Typed /\ Tick => Typed'
BY SchedulerAssumption DEF Tick, store, world, Typed, TypeOK, InHand

LEMMA StepTyped ==
    ASSUME Typed, NEW s \in Supervisor, Step(s)
    PROVE  Typed'
BY RegisterNodeTyped, ListForReconciliationTyped, CancelExternalTyped,
   MarkStoppedTyped, MarkTimedOutTyped, InspectExternalTyped,
   ReconcileExternalTyped, HeartbeatOwnedTyped, ClaimNextTyped, IdleTyped,
   SelectNodeTyped, AcquireLeaseTyped, ReleaseClaimTyped,
   MarkExternalStartIssuedTyped, LaunchTyped, LaunchFailsTyped,
   HandleStartFailureTyped, MarkStartedTyped, ListExternalRunsTyped,
   IngestTyped, PollDoneTyped
DEF Step

LEMMA NextTyped == Typed /\ [Next]_vars => Typed'
<1> SUFFICES ASSUME Typed, [Next]_vars
             PROVE  Typed'
  OBVIOUS
<1>1. CASE UNCHANGED vars
  BY <1>1 DEF vars, Typed, TypeOK, InHand
<1>2. CASE Next
  BY <1>2, StepTyped, CrashTyped, RestartTyped, CommandTyped, ChildReportsTyped,
     ChildExitsTyped, TickTyped
  DEF Next
<1> QED
  BY <1>1, <1>2

\* Every column and every local variable of a supervisor stays in its domain,
\* whatever repository calls, crashes, retries and commands interleave.
THEOREM TypesHold == Spec => []TypeOK
<1>1. Spec => []Typed
  BY InitTyped, NextTyped, PTL DEF Spec
<1>2. Typed => TypeOK
  BY DEF Typed
<1> QED
  BY <1>1, <1>2, PTL

-----------------------------------------------------------------------------
(***************************************************************************)
(* One outcome per Run, published once: theorems about the two records of  *)
(* an outcome (job and Run), the outbox, and the refinement of             *)
(* RunLifecycle, for every value of the constants.                         *)
(***************************************************************************)

(* What a step may do to outcomes.  Either it is quiet: Runs and outbox stay *)
(* as they are, and a job that changes its state stays unfinished.  Or it    *)
(* tells the outcome of one unfinished job, to the job row, the Run and the  *)
(* outbox together.                                                          *)
SameOutcome(j) ==
    \/ jobs'[j].state = jobs[j].state
    \/ jobs[j].state \notin RunTerminal /\ jobs'[j].state \notin RunTerminal
Quiet == runs' = runs /\ outbox' = outbox /\ \A j \in Job : SameOutcome(j)

Said(j, to) ==
    \/ outbox' = [outbox EXCEPT ![j] = Append(@, to)]
    \/ /\ runs[j] = "queued" /\ to # "running"
       /\ outbox' = [outbox EXCEPT ![j] = @ \o <<"running", to>>]
Tells(j, to) ==
    /\ runs[j] \notin RunTerminal /\ runs[j] # to
    /\ runs' = [runs EXCEPT ![j] = to]
    /\ Said(j, to)
    /\ jobs'[j].state = to
    /\ \A k \in Job \ {j} : SameOutcome(k)
Told == \E j \in Job, to \in {"running"} \cup RunTerminal : Tells(j, to)

Agreed == Typed /\ OutcomesAgree

LEMMA InitAgreed == Init => OutcomesAgree
BY DEF Init, OutcomesAgree, RunTerminal

LEMMA SettleTold ==
    ASSUME Agreed, NEW j \in Job, ~Ended(j), NEW state \in {"failed", "cancelled"},
           Settle(j, state)
    PROVE  Told
<1>1. runs[j] \notin RunTerminal
  BY DEF Agreed, OutcomesAgree, Ended, JobTerminal
<1>2. runs' = [runs EXCEPT ![j] = state] /\ Said(j, state)
  BY <1>1 DEF Settle, Publish, RunOver, RunTerminal, Said
<1>3. jobs'[j].state = state /\ \A k \in Job \ {j} : SameOutcome(k)
  BY DEF Settle, Write, Agreed, Typed, TypeOK, JobRow, SameOutcome
<1> QED
  BY <1>1, <1>2, <1>3 DEF Told, Tells, RunTerminal

LEMMA CommitTold ==
    ASSUME Agreed, NEW j \in Job, ~Ended(j),
           NEW state \in {"running", "blocked"} \cup RunTerminal,
           CommitExternalState(j, state)
    PROVE  Quiet \/ Told
<1>1. runs[j] \notin RunTerminal /\ jobs[j].state \notin RunTerminal
  BY DEF Agreed, OutcomesAgree, Ended, JobTerminal
<1>2. jobs'[j].state = state /\ \A k \in Job \ {j} : SameOutcome(k)
  BY DEF CommitExternalState, Write, Agreed, Typed, TypeOK, JobRow, SameOutcome
<1>3. CASE state = "blocked" \/ runs[j] = state
  <2>1. runs' = runs /\ outbox' = outbox
    BY <1>3 DEF CommitExternalState, Publish
  <2>2. state \notin RunTerminal
    BY <1>1, <1>3 DEF RunTerminal
  <2> QED
    BY <1>1, <1>2, <2>1, <2>2 DEF Quiet, SameOutcome
<1>4. CASE state # "blocked" /\ runs[j] # state
  <2>1. runs' = [runs EXCEPT ![j] = state] /\ Said(j, state)
    BY <1>1, <1>4 DEF CommitExternalState, Publish, RunOver, Said
  <2> QED
    BY <1>1, <1>2, <1>4, <2>1 DEF Told, Tells
<1> QED
  BY <1>3, <1>4

LEMMA StillQuiet == UNCHANGED <<jobs, runs, outbox>> => Quiet
BY DEF Quiet, SameOutcome

LEMMA FlaggedQuiet ==
    ASSUME Agreed, NEW s \in Supervisor, ListForReconciliation(s)
    PROVE  Quiet
<1>1. ASSUME NEW j \in Job
      PROVE  SameOutcome(j)
  <2>1. jobs'[j] = jobs[j] \/ jobs'[j] = [jobs[j] EXCEPT !.recon = TRUE, !.version = @ + 1]
    BY DEF ListForReconciliation, Flagged
  <2> QED
    BY <2>1 DEF Agreed, Typed, TypeOK, JobRow, SameOutcome
<1> QED
  BY <1>1 DEF ListForReconciliation, Quiet

LEMMA ClaimNextQuiet ==
    ASSUME Agreed, NEW s \in Supervisor, ClaimNext(s)
    PROVE  Quiet
<1>1. PICK j \in Job : Claimable(j, sups[s].now)
                        /\ Write(j, [jobs[j] EXCEPT !.state = "claimed"])
  BY DEF ClaimNext
<1>2. jobs[j].state \notin RunTerminal
  BY <1>1 DEF Claimable, RunTerminal
<1>3. jobs'[j].state = "claimed" /\ \A k \in Job \ {j} : SameOutcome(k)
  BY <1>1 DEF Write, Agreed, Typed, TypeOK, JobRow, SameOutcome
<1> QED
  BY <1>2, <1>3 DEF ClaimNext, Quiet, SameOutcome, RunTerminal

LEMMA ReleaseClaimQuiet ==
    ASSUME Agreed, NEW s \in Supervisor, ReleaseClaim(s)
    PROVE  Quiet
<1> DEFINE j == sups[s].job
<1>1. CASE jobs[j].state = "claimed"
  <2>1. j \in Job
    BY DEF ReleaseClaim, At, Agreed, Typed, InHand, OnJob
  <2>2. Write(j, [jobs[j] EXCEPT !.state = "pending", !.nextAt = sups[s].now])
    BY <1>1 DEF ReleaseClaim
  <2>3. jobs'[j].state = "pending" /\ \A k \in Job \ {j} : SameOutcome(k)
    BY <2>1, <2>2 DEF Write, Agreed, Typed, TypeOK, JobRow, SameOutcome
  <2> QED
    BY <1>1, <2>1, <2>3 DEF ReleaseClaim, Quiet, SameOutcome, RunTerminal
<1>2. CASE jobs[j].state # "claimed"
  BY <1>2, StillQuiet DEF ReleaseClaim
<1> QED
  BY <1>1, <1>2

LEMMA IssueQuiet ==
    ASSUME Agreed, NEW s \in Supervisor, MarkExternalStartIssued(s)
    PROVE  Quiet
<1> DEFINE j == sups[s].job
<1>1. CASE ClaimStands(s)
  <2>1. j \in Job
    BY DEF MarkExternalStartIssued, At, Agreed, Typed, InHand, OnJob
  <2>2. Write(j, [jobs[j] EXCEPT !.state = "starting", !.recon = TRUE,
                                 !.ext = sups[s].attempt])
    BY <1>1 DEF MarkExternalStartIssued
  <2>3. jobs'[j].state = "starting" /\ \A k \in Job \ {j} : SameOutcome(k)
    BY <2>1, <2>2 DEF Write, Agreed, Typed, TypeOK, JobRow, SameOutcome
  <2> QED
    BY <1>1, <2>1, <2>3
    DEF MarkExternalStartIssued, ClaimStands, Quiet, SameOutcome, RunTerminal
<1>2. CASE ~ClaimStands(s)
  BY <1>2, StillQuiet DEF MarkExternalStartIssued, Throw, store
<1> QED
  BY <1>1, <1>2

LEMMA MarkStoppedTold ==
    ASSUME Agreed, NEW s \in Supervisor, MarkStopped(s)
    PROVE  Quiet \/ Told
<1>1. sups[s].job \in Job
  BY DEF MarkStopped, At, Agreed, Typed, InHand, OnJob
<1>2. CASE Ended(sups[s].job)
  BY <1>2, StillQuiet DEF MarkStopped, Throw, store
<1> QED
  BY <1>1, <1>2, SettleTold DEF MarkStopped

LEMMA MarkTimedOutTold ==
    ASSUME Agreed, NEW s \in Supervisor, MarkTimedOut(s)
    PROVE  Quiet \/ Told
<1>1. sups[s].job \in Job
  BY DEF MarkTimedOut, At, Agreed, Typed, InHand, OnJob
<1>2. CASE Ended(sups[s].job)
  BY <1>2, StillQuiet DEF MarkTimedOut, Throw, store
<1> QED
  BY <1>1, <1>2, SettleTold DEF MarkTimedOut

LEMMA MappedStates ==
    ASSUME NEW answer PROVE MappedState(answer) \in {"running", "blocked"} \cup RunTerminal
BY DEF MappedState

LEMMA ReconcileExternalTold ==
    ASSUME Agreed, NEW s \in Supervisor, ReconcileExternal(s)
    PROVE  Quiet \/ Told
<1>1. sups[s].job \in Job
  BY DEF ReconcileExternal, At, Agreed, Typed, InHand, OnJob
<1>2. CASE Ended(sups[s].job)
  BY <1>2, StillQuiet DEF ReconcileExternal, Throw, store
<1> QED
  BY <1>1, <1>2, CommitTold, MappedStates DEF ReconcileExternal

LEMMA MarkStartedTold ==
    ASSUME Agreed, NEW s \in Supervisor, MarkStarted(s)
    PROVE  Quiet \/ Told
<1>1. sups[s].job \in Job
  BY DEF MarkStarted, At, Agreed, Typed, InHand, OnJob
<1>2. CASE Ended(sups[s].job)
  BY <1>2, StillQuiet DEF MarkStarted, Throw, store
<1> QED
  BY <1>1, <1>2, CommitTold, MappedStates DEF MarkStarted

LEMMA HandleStartFailureTold ==
    ASSUME Agreed, NEW s \in Supervisor, HandleStartFailure(s)
    PROVE  Quiet \/ Told
<1> DEFINE j == sups[s].job
           again == CanRetry(j)
<1>1. j \in Job
  BY DEF HandleStartFailure, At, Agreed, Typed, InHand, OnJob
<1>2. CASE jobs[j].state # "starting"
  BY <1>2, StillQuiet DEF HandleStartFailure, Throw, store
<1>3. CASE jobs[j].state = "starting"
  <2>1. Write(j, [jobs[j] EXCEPT !.state = IF again THEN "retry_wait" ELSE "failed",
                                 !.attempt = IF again THEN @ + 1 ELSE @,
                                 !.nextAt = clock + RetryDelay,
                                 !.ext = 0, !.recon = FALSE])
    BY <1>3 DEF HandleStartFailure
  <2>2. /\ jobs'[j].state = IF again THEN "retry_wait" ELSE "failed"
        /\ \A k \in Job \ {j} : SameOutcome(k)
    BY <1>1, <2>1 DEF Write, Agreed, Typed, TypeOK, JobRow, SameOutcome
  <2>3. runs[j] \notin RunTerminal
    BY <1>1, <1>3 DEF Agreed, OutcomesAgree, RunTerminal
  <2>4. CASE again
    BY <1>1, <1>3, <2>2, <2>4
    DEF HandleStartFailure, Quiet, SameOutcome, RunTerminal
  <2>5. CASE ~again
    <3>1. Publish(j, "failed")
      BY <1>3, <2>5 DEF HandleStartFailure
    <3>2. runs' = [runs EXCEPT ![j] = "failed"] /\ Said(j, "failed")
      BY <2>3, <3>1 DEF Publish, RunOver, RunTerminal, Said
    <3> QED
      BY <1>1, <2>2, <2>3, <2>5, <3>2 DEF Told, Tells, RunTerminal
  <2> QED
    BY <2>4, <2>5
<1> QED
  BY <1>2, <1>3

LEMMA IngestTold ==
    ASSUME Agreed, NEW s \in Supervisor, Ingest(s)
    PROVE  Quiet \/ Told
<1>1. PICK j \in sups[s].polls :
        LET event == IF jobs[j].seq = 0 THEN "running" ELSE procs[j].journal
            after == IF RunOver(j) THEN runs[j] ELSE event
        IN  /\ jobs[j].seq < Events(j)
            /\ Write(j, [jobs[j] EXCEPT !.seq = @ + 1, !.recon = FALSE,
                                        !.state = after])
            /\ runs' = [runs EXCEPT ![j] = after]
            /\ outbox' = [outbox EXCEPT ![j] =
                 IF RunOver(j) \/ runs[j] = event THEN @
                 ELSE IF runs[j] = "queued" /\ event # "running"
                      THEN @ \o <<"running", event>>
                      ELSE Append(@, event)]
  BY DEF Ingest
<1> DEFINE event == IF jobs[j].seq = 0 THEN "running" ELSE procs[j].journal
           after == IF RunOver(j) THEN runs[j] ELSE event
<1>2. j \in Job
  BY DEF Agreed, Typed, TypeOK, Locals
<1>3. event \in {"running"} \cup RunTerminal
  BY <1>1, <1>2, EventTyped DEF Agreed, Typed
<1>4. jobs'[j].state = after /\ \A k \in Job \ {j} : SameOutcome(k)
  BY <1>1, <1>2 DEF Write, Agreed, Typed, TypeOK, JobRow, SameOutcome
<1>5. runs' = [runs EXCEPT ![j] = after]
  BY <1>1
<1> HIDE DEF event
<1>6. CASE RunOver(j) \/ runs[j] = event
  <2>1. runs' = runs /\ outbox' = outbox
    BY <1>1, <1>2, <1>5, <1>6 DEF Agreed, Typed, TypeOK, event
  <2>2. SameOutcome(j)
    BY <1>2, <1>3, <1>4, <1>6
    DEF Agreed, OutcomesAgree, RunOver, SameOutcome, RunTerminal
  <2> QED
    BY <1>4, <2>1, <2>2 DEF Quiet
<1>7. CASE ~RunOver(j) /\ runs[j] # event
  <2>1. Said(j, event)
    BY <1>1, <1>7 DEF Said, event
  <2> QED
    BY <1>2, <1>3, <1>4, <1>5, <1>7, <2>1 DEF Told, Tells, RunOver
<1> QED
  BY <1>6, <1>7

\* Every step of the system is quiet or tells one outcome.
LEMMA QuietOrTold == Agreed /\ [Next]_vars => Quiet \/ Told
<1> SUFFICES ASSUME Agreed, [Next]_vars
             PROVE  Quiet \/ Told
  OBVIOUS
<1>1. ASSUME NEW s \in Supervisor, Step(s)
      PROVE  Quiet \/ Told
  BY <1>1, FlaggedQuiet, ClaimNextQuiet, ReleaseClaimQuiet, IssueQuiet,
     MarkStoppedTold, MarkTimedOutTold, ReconcileExternalTold, MarkStartedTold,
     HandleStartFailureTold, IngestTold, StillQuiet
  DEF Step, RegisterNode, CancelExternal, InspectExternal, HeartbeatOwned, Idle,
      SelectNode, AcquireLease, Launch, LaunchFails, ListExternalRuns, PollDone,
      store
<1>2. ASSUME NEW s \in Supervisor, Crash(s) \/ Restart(s)
      PROVE  Quiet
  BY <1>2, StillQuiet DEF Crash, Restart, store
<1>3. ASSUME NEW c \in Scope, NEW op \in Operation, Command(c, op)
      PROVE  Quiet
  BY <1>3, StillQuiet DEF Command
<1>4. ASSUME NEW j \in Job, ChildReports(j) \/ ChildExits(j)
      PROVE  Quiet
  BY <1>4, StillQuiet DEF ChildReports, ChildExits, store
<1>5. CASE Tick \/ UNCHANGED vars
  BY <1>5, StillQuiet DEF Tick, store, vars
<1> QED
  BY <1>1, <1>2, <1>3, <1>4, <1>5 DEF Next
-----------------------------------------------------------------------------
(* The theorems.  The outbox of a Run is one of three histories; this is    *)
(* what makes OutboxTellsTheRun inductive.                                  *)
Chronicle ==
    \A j \in Job :
      \/ runs[j] = "queued" /\ outbox[j] = <<>>
      \/ runs[j] # "queued" /\ outbox[j] = <<runs[j]>>
      \/ runs[j] \in RunTerminal /\ outbox[j] = <<"running", runs[j]>>
Chronicled == Agreed /\ Chronicle

LEMMA AgreedStep == Agreed /\ (Quiet \/ Told) => OutcomesAgree'
<1> SUFFICES ASSUME Agreed, Quiet \/ Told, NEW k \in Job
             PROVE  /\ jobs'[k].state \in RunTerminal => runs'[k] = jobs'[k].state
                    /\ runs'[k] \in RunTerminal => jobs'[k].state = runs'[k]
  BY DEF OutcomesAgree
<1>1. CASE Quiet
  BY <1>1 DEF Quiet, SameOutcome, Agreed, OutcomesAgree
<1>2. CASE Told
  <2>1. PICK j \in Job, to \in {"running"} \cup RunTerminal : Tells(j, to)
    BY <1>2 DEF Told
  <2>2. CASE k = j
    BY <2>1, <2>2 DEF Tells, Agreed, Typed, TypeOK
  <2>3. CASE k # j
    BY <2>1, <2>3 DEF Tells, SameOutcome, Agreed, Typed, TypeOK, OutcomesAgree
  <2> QED
    BY <2>2, <2>3
<1> QED
  BY <1>1, <1>2

LEMMA AppendPair ==
    ASSUME NEW S, NEW a \in S, NEW b \in S
    PROVE  Append(<<a>>, b) = <<a, b>>
<1>1. <<a>> \in Seq(S) /\ <<a, b>> \in Seq(S) /\ Len(<<a>>) = 1
  OBVIOUS
<1>2. /\ Append(<<a>>, b) \in Seq(S)
      /\ Len(Append(<<a>>, b)) = 2
      /\ Append(<<a>>, b)[1] = <<a>>[1]
      /\ Append(<<a>>, b)[2] = b
  BY <1>1, AppendProperties, SMT
<1>3. Len(<<a, b>>) = 2 /\ \A i \in 1..2 : Append(<<a>>, b)[i] = <<a, b>>[i]
  BY <1>2
<1> QED
  BY <1>1, <1>2, <1>3, SeqEqual

LEMMA ChronicleStep == Chronicled /\ (Quiet \/ Told) => Chronicle'
<1> SUFFICES ASSUME Chronicled, Quiet \/ Told
             PROVE  Chronicle'
  OBVIOUS
<1>1. CASE Quiet
  BY <1>1 DEF Quiet, Chronicled, Chronicle
<1>2. CASE Told
  <2>1. PICK j \in Job, to \in {"running"} \cup RunTerminal : Tells(j, to)
    BY <1>2 DEF Told
  <2>2. runs' = [runs EXCEPT ![j] = to] /\ runs[j] \notin RunTerminal /\ runs[j] # to
    BY <2>1 DEF Tells
  <2>3. ASSUME NEW k \in Job, k # j
        PROVE  runs'[k] = runs[k] /\ outbox'[k] = outbox[k]
    BY <2>1, <2>3 DEF Tells, Said, Chronicled, Agreed, Typed, TypeOK
  <2>4. \/ outbox[j] = <<>> /\ runs[j] = "queued"
        \/ outbox[j] = <<"running">> /\ runs[j] = "running"
    BY <2>2 DEF Chronicled, Chronicle, Agreed, Typed, TypeOK, RunStatus
  <2>5. runs'[j] = to
    BY <2>2 DEF Chronicled, Agreed, Typed, TypeOK
  <2>6. CASE outbox' = [outbox EXCEPT ![j] = Append(@, to)]
    <3>1. outbox'[j] = Append(outbox[j], to)
      BY <2>6 DEF Chronicled, Agreed, Typed, TypeOK
    <3>2. CASE outbox[j] = <<>>
      <4>1. outbox'[j] = <<to>>
        BY <3>1, <3>2
      <4> QED
        BY <2>3, <2>5, <4>1 DEF Chronicle, Chronicled, RunTerminal
    <3>3. CASE outbox[j] = <<"running">> /\ runs[j] = "running"
      <4>1. Append(<<"running">>, to) = <<"running", to>>
        BY AppendPair, "running" \in {"running"} \cup RunTerminal, Zenon
      <4>2. outbox'[j] = <<"running", to>> /\ to \in RunTerminal
        BY <2>2, <3>1, <3>3, <4>1
      <4> QED
        BY <2>3, <2>5, <4>2 DEF Chronicle, Chronicled, RunTerminal
    <3> QED
      BY <2>4, <3>2, <3>3
  <2>7. CASE /\ runs[j] = "queued" /\ to # "running"
             /\ outbox' = [outbox EXCEPT ![j] = @ \o <<"running", to>>]
    <3>1. outbox'[j] = <<>> \o <<"running", to>>
      BY <2>4, <2>7 DEF Chronicled, Agreed, Typed, TypeOK
    <3>2. outbox'[j] = <<"running", to>>
      BY <3>1
    <3> QED
      BY <2>3, <2>5, <2>7, <3>2 DEF Chronicle, Chronicled, RunTerminal
  <2> QED
    BY <2>1, <2>6, <2>7 DEF Tells, Said
<1> QED
  BY <1>1, <1>2

LEMMA ChronicledAlways == Spec => []Chronicled
<1>1. Init => Chronicled
  BY InitTyped, InitAgreed DEF Chronicled, Agreed, Chronicle, Init
<1>2. Chronicled /\ [Next]_vars => Chronicled'
  BY NextTyped, QuietOrTold, AgreedStep, ChronicleStep DEF Chronicled, Agreed
<1> QED
  BY <1>1, <1>2, PTL DEF Spec

\* Job and Run never tell two outcomes, although the scheduler guards its
\* writes by the job's state and the event inbox by the Run's status.
THEOREM OutcomesAlwaysAgree == Spec => []OutcomesAgree
<1>1. Chronicled => OutcomesAgree
  BY DEF Chronicled, Agreed
<1> QED
  BY <1>1, ChronicledAlways, PTL

\* The outbox rows of a Run are its history: no status twice, none missing.
THEOREM OutboxTellsTheHistory == Spec => []OutboxTellsTheRun
<1>1. Chronicled => OutboxTellsTheRun
  <2> SUFFICES ASSUME Chronicled, NEW j \in Job
               PROVE  /\ runs[j] = IF outbox[j] = <<>> THEN "queued"
                                   ELSE outbox[j][Len(outbox[j])]
                      /\ Len(outbox[j]) <= 2
                      /\ Len(outbox[j]) = 2 => /\ outbox[j][1] = "running"
                                               /\ outbox[j][2] \in RunTerminal
    BY DEF OutboxTellsTheRun
  <2>1. CASE runs[j] = "queued" /\ outbox[j] = <<>>
    BY <2>1
  <2>2. CASE runs[j] # "queued" /\ outbox[j] = <<runs[j]>>
    BY <2>2
  <2>3. CASE runs[j] \in RunTerminal /\ outbox[j] = <<"running", runs[j]>>
    BY <2>3
  <2> QED
    BY <2>1, <2>2, <2>3 DEF Chronicled, Chronicle
<1> QED
  BY <1>1, ChronicledAlways, PTL

\* A finished Run is final, whichever repository writes next.
THEOREM RunsAreFinal == Spec => RunsNeverRegress
<1>1. Agreed /\ [Next]_vars =>
        [\A j \in Job : runs[j] \in RunTerminal =>
           runs'[j] = runs[j] /\ outbox'[j] = outbox[j]]_vars
  <2> SUFFICES ASSUME Agreed, [Next]_vars, NEW j \in Job, runs[j] \in RunTerminal
               PROVE  runs'[j] = runs[j] /\ outbox'[j] = outbox[j]
    OBVIOUS
  <2>1. CASE Quiet
    BY <2>1 DEF Quiet
  <2>2. CASE Told
    BY <2>2 DEF Told, Tells, Said, Agreed, Typed, TypeOK
  <2> QED
    BY <2>1, <2>2, QuietOrTold
<1>2. Chronicled => Agreed
  BY DEF Chronicled
<1> QED
  BY <1>1, <1>2, ChronicledAlways, PTL DEF Spec, RunsNeverRegress

\* All the writers of a Run together implement RunLifecycle: a Run moves
\* forward only, and each move is published with the step that makes it.
THEOREM RunsImplementLifecycle == Spec => CommittedRun
<1>1. Init => Committed!Init
  BY DEF Init, Committed!Init
<1>2. Agreed /\ [Next]_vars => [Committed!Next]_<<runs, outbox>>
  <2> SUFFICES ASSUME Agreed, Told
               PROVE  Committed!Next
    BY QuietOrTold DEF Quiet
  <2>1. PICK j \in Job, to \in {"running"} \cup RunTerminal : Tells(j, to)
    BY DEF Told
  <2>2. runs[j] \in {"queued", "running"} /\ runs[j] # to
    BY <2>1 DEF Tells, Agreed, Typed, TypeOK, RunStatus
  <2>3. <<runs[j], to>> \in CommittedMoves
    BY <2>2 DEF CommittedMoves
  <2>4. CASE outbox' = [outbox EXCEPT ![j] = Append(@, to)]
    <3>1. Committed!Move(j, <<runs[j], to>>[2])
      BY <2>1, <2>3, <2>4 DEF Committed!Move, Tells
    <3> QED
      BY <2>3, <3>1 DEF Committed!Next
  <2>5. CASE /\ runs[j] = "queued" /\ to # "running"
             /\ outbox' = [outbox EXCEPT ![j] = @ \o <<"running", to>>]
    <3> DEFINE m == <<"running", to>>
    <3>1. m \in CommittedMoves /\ <<runs[j], "running">> \in CommittedMoves
      BY <2>5 DEF CommittedMoves
    <3>2. Committed!MoveTwice(j, m[1], m[2])
      BY <2>1, <2>5, <3>1 DEF Committed!MoveTwice, Tells
    <3> QED
      BY <3>1, <3>2 DEF Committed!Next
  <2> QED
    BY <2>1, <2>4, <2>5 DEF Tells, Said
<1>3. Chronicled => Agreed
  BY DEF Chronicled
<1> QED
  BY <1>1, <1>2, <1>3, ChronicledAlways, PTL DEF Spec, CommittedRun, Committed!Spec

-----------------------------------------------------------------------------
(***************************************************************************)
(* The lease table: at most one active lease per Run, and never more on a  *)
(* node than it has places, for every value of the constants.              *)
(***************************************************************************)

LeasesSingle == \A l, m \in leases : l.job = m.job => l = m
LeasesOn(n) == {l \in leases : l.node = n}
LeasesFit == IsFiniteSet(leases) /\ CapacityRespected

LEMMA LeasesInit == Init => LeasesSingle /\ LeasesFit
<1> SUFFICES ASSUME Init, NEW n \in Node
             PROVE  LeasesSingle /\ IsFiniteSet(leases)
                    /\ Cardinality({l \in leases : l.node = n}) <= Capacity[n]
  BY FS_EmptySet DEF LeasesFit, CapacityRespected, LeasesSingle, Init
<1>1. leases = {} /\ {l \in leases : l.node = n} = {}
  BY DEF Init
<1>2. Capacity[n] \in Nat
  BY SchedulerAssumption
<1> QED
  BY <1>1, <1>2, FS_EmptySet DEF LeasesSingle

\* Only a heartbeat and a grant do anything but remove leases.
LEMMA LeasesStep ==
    [Next]_vars => \/ leases' \subseteq leases
                   \/ \E s \in Supervisor : HeartbeatOwned(s) \/ AcquireLease(s)
<1>1. ASSUME NEW s \in Supervisor, Step(s), ~HeartbeatOwned(s), ~AcquireLease(s)
      PROVE  leases' \subseteq leases
  BY <1>1
  DEF Step, RegisterNode, ListForReconciliation, CancelExternal, InspectExternal,
      MarkStopped, MarkTimedOut, Settle, ReconcileExternal, MarkStarted,
      CommitExternalState, Throw, Idle, ClaimNext, SelectNode, ReleaseClaim,
      MarkExternalStartIssued, Launch, LaunchFails, HandleStartFailure,
      ListExternalRuns, Ingest, PollDone, store
<1>2. ASSUME NEW s \in Supervisor, Crash(s) \/ Restart(s)
      PROVE  leases' = leases
  BY <1>2 DEF Crash, Restart, store
<1>3. ASSUME NEW c \in Scope, NEW op \in Operation, Command(c, op)
      PROVE  leases' = leases
  BY <1>3 DEF Command
<1>4. ASSUME NEW j \in Job, ChildReports(j) \/ ChildExits(j)
      PROVE  leases' = leases
  BY <1>4 DEF ChildReports, ChildExits, store
<1>5. Tick \/ UNCHANGED vars => leases' = leases
  BY DEF Tick, store, vars
<1> QED
  BY <1>1, <1>2, <1>3, <1>4, <1>5 DEF Next

\* The lease l after a heartbeat of s.
Beaten(s, l) ==
    IF l.owner = s /\ l.expires > sups[s].now
    THEN [l EXCEPT !.expires = sups[s].now + LeaseDuration]
    ELSE l

LEMMA HeartbeatBeats ==
    ASSUME Typed, NEW s \in Supervisor, HeartbeatOwned(s)
    PROVE  /\ leases' = {Beaten(s, l) : l \in leases}
           /\ \A l \in leases : Beaten(s, l).job = l.job /\ Beaten(s, l).node = l.node
<1>1. leases' = {Beaten(s, l) : l \in leases}
  BY DEF HeartbeatOwned, Beaten
<1> QED
  BY <1>1 DEF Beaten, Typed, TypeOK, Lease

LEMMA AcquireGrants ==
    ASSUME Typed, NEW s \in Supervisor, AcquireLease(s), leases' # leases
    PROVE  \E new : LET j == sups[s].job
                        n == sups[s].node
                        now == sups[s].now
                    IN  /\ Grantable(j, n, now)
                        /\ new.job = j /\ new.node = n
                        /\ leases' = Kept(j, n, now) \cup {new}
<1> DEFINE new == [job |-> sups[s].job, node |-> sups[s].node, owner |-> s,
                   expires |-> sups[s].now + LeaseDuration]
<1>1. new.job = sups[s].job /\ new.node = sups[s].node
  OBVIOUS
<1>2. /\ Grantable(sups[s].job, sups[s].node, sups[s].now)
      /\ leases' = Kept(sups[s].job, sups[s].node, sups[s].now) \cup {new}
  BY DEF AcquireLease
<1> HIDE DEF new
<1> QED
  BY <1>1, <1>2

LEMMA SingleStep == Typed /\ LeasesSingle /\ [Next]_vars => LeasesSingle'
<1> SUFFICES ASSUME Typed, LeasesSingle, [Next]_vars
             PROVE  LeasesSingle'
  OBVIOUS
<1>1. CASE leases' \subseteq leases
  BY <1>1 DEF LeasesSingle
<1>2. ASSUME NEW s \in Supervisor, HeartbeatOwned(s)
      PROVE  LeasesSingle'
  BY <1>2, HeartbeatBeats DEF LeasesSingle
<1>3. ASSUME NEW s \in Supervisor, AcquireLease(s), leases' # leases
      PROVE  LeasesSingle'
  BY <1>3, AcquireGrants DEF Grantable, Kept, LeasesSingle
<1> QED
  BY <1>1, <1>2, <1>3, LeasesStep

LEMMA FewerFit ==
    ASSUME LeasesFit, NEW kept, kept \subseteq leases, NEW n \in Node
    PROVE  /\ IsFiniteSet({l \in kept : l.node = n})
           /\ Cardinality({l \in kept : l.node = n}) \in Nat
           /\ Cardinality({l \in kept : l.node = n}) <= Capacity[n]
<1>1. IsFiniteSet(LeasesOn(n)) /\ Cardinality(LeasesOn(n)) <= Capacity[n]
  BY FS_Subset DEF LeasesFit, CapacityRespected, LeasesOn
<1>2. {l \in kept : l.node = n} \in SUBSET LeasesOn(n)
  BY DEF LeasesOn
<1>3. /\ IsFiniteSet({l \in kept : l.node = n})
      /\ Cardinality({l \in kept : l.node = n}) <= Cardinality(LeasesOn(n))
  BY <1>1, <1>2, FS_Subset
<1>4. Cardinality({l \in kept : l.node = n}) \in Nat /\ Cardinality(LeasesOn(n)) \in Nat
  BY <1>1, <1>3, FS_CardinalityType
<1>5. Capacity[n] \in Nat
  BY SchedulerAssumption
<1> QED
  BY <1>1, <1>3, <1>4, <1>5

LEMMA HeartbeatFits ==
    ASSUME Typed, LeasesFit, NEW s \in Supervisor, HeartbeatOwned(s)
    PROVE  LeasesFit'
<1>1. ASSUME NEW S, IsFiniteSet(S)
      PROVE  LET T == {Beaten(s, l) : l \in S}
             IN  IsFiniteSet(T) /\ Cardinality(T) <= Cardinality(S)
  <2> DEFINE T == {Beaten(s, l) : l \in S}
             f == [l \in S |-> Beaten(s, l)]
  <2>1. f \in Surjection(S, T)
    BY DEF Surjection
  <2> HIDE DEF f, T
  <2>2. IsFiniteSet(T) /\ Cardinality(T) <= Cardinality(S)
    BY <1>1, <2>1, FS_Surjection
  <2> QED
    BY <2>2 DEF T
<1>2. IsFiniteSet(leases')
  BY <1>1, HeartbeatBeats DEF LeasesFit
<1>3. ASSUME NEW n \in Node
      PROVE  Cardinality({l \in leases' : l.node = n}) <= Capacity[n]
  <2>1. /\ IsFiniteSet(LeasesOn(n)) /\ Cardinality(LeasesOn(n)) \in Nat
        /\ Cardinality(LeasesOn(n)) <= Capacity[n]
    BY FewerFit DEF LeasesOn
  <2>2. {l \in leases' : l.node = n} = {Beaten(s, l) : l \in LeasesOn(n)}
    BY HeartbeatBeats DEF LeasesOn
  <2>3. /\ IsFiniteSet({l \in leases' : l.node = n})
        /\ Cardinality({l \in leases' : l.node = n}) <= Cardinality(LeasesOn(n))
    BY <1>1, <2>1, <2>2
  <2>4. Cardinality({l \in leases' : l.node = n}) \in Nat /\ Capacity[n] \in Nat
    BY <2>3, FS_CardinalityType, SchedulerAssumption
  <2> QED
    BY <2>1, <2>3, <2>4
<1> QED
  BY <1>2, <1>3 DEF LeasesFit, CapacityRespected

\* acquireLease counts the live leases of the node; those of the node that it
\* does not count are expired by the same transaction.
LEMMA AcquireFits ==
    ASSUME Typed, LeasesFit, NEW s \in Supervisor, AcquireLease(s)
    PROVE  LeasesFit'
<1> SUFFICES ASSUME leases' # leases
             PROVE  LeasesFit'
  BY DEF LeasesFit, CapacityRespected
<1> DEFINE j == sups[s].job
           n == sups[s].node
           now == sups[s].now
           kept == Kept(j, n, now)
<1>1. PICK new : /\ Grantable(j, n, now) /\ new.node = n
                 /\ leases' = kept \cup {new}
  BY AcquireGrants
<1>2. kept \subseteq leases
  BY DEF Kept
<1>3. n \in Node
  BY DEF AcquireLease, At, Typed, InHand
<1>4. {l \in kept : l.node = n} = {l \in leases : l.node = n /\ l.expires > now}
  BY DEF Kept
<1>5. Cardinality({l \in kept : l.node = n}) < Capacity[n]
  BY <1>1, <1>4 DEF Grantable, Load
<1> HIDE DEF kept, j, n, now
<1>6. IsFiniteSet(leases')
  BY <1>1, <1>2, FS_Subset, FS_AddElement DEF LeasesFit
<1>7. ASSUME NEW m \in Node
      PROVE  Cardinality({l \in leases' : l.node = m}) <= Capacity[m]
  <2>1. CASE m # n
    <3>1. {l \in leases' : l.node = m} = {l \in kept : l.node = m}
      BY <1>1, <2>1
    <3> QED
      BY <1>2, <3>1, FewerFit
  <2>2. CASE m = n
    <3>1. {l \in leases' : l.node = n} = {l \in kept : l.node = n} \cup {new}
      BY <1>1
    <3>2. /\ IsFiniteSet({l \in kept : l.node = n})
          /\ Cardinality({l \in kept : l.node = n}) \in Nat
      BY <1>2, <1>3, FewerFit
    <3>3. \/ Cardinality({l \in leases' : l.node = n})
               = Cardinality({l \in kept : l.node = n})
          \/ Cardinality({l \in leases' : l.node = n})
               = Cardinality({l \in kept : l.node = n}) + 1
      BY <3>1, <3>2, FS_AddElement
    <3>4. Capacity[n] \in Nat
      BY <1>3, SchedulerAssumption
    <3> QED
      BY <1>5, <2>2, <3>2, <3>3, <3>4
  <2> QED
    BY <2>1, <2>2
<1> QED
  BY <1>6, <1>7 DEF LeasesFit, CapacityRespected

LEMMA FitStep == Typed /\ LeasesFit /\ [Next]_vars => LeasesFit'
<1> SUFFICES ASSUME Typed, LeasesFit, [Next]_vars
             PROVE  LeasesFit'
  OBVIOUS
<1>1. CASE leases' \subseteq leases
  BY <1>1, FewerFit, FS_Subset DEF LeasesFit, CapacityRespected
<1> QED
  BY <1>1, LeasesStep, HeartbeatFits, AcquireFits

LEMMA LeasesAlways == Spec => []LeasesSingle
<1>1. Spec => []Typed
  BY InitTyped, NextTyped, PTL DEF Spec
<1> QED
  BY <1>1, LeasesInit, SingleStep, PTL DEF Spec

\* The lease table never oversells a node, whatever old clock readings the
\* supervisors count and expire leases with.
THEOREM CapacityHolds == Spec => []CapacityRespected
<1>1. Spec => []Typed
  BY InitTyped, NextTyped, PTL DEF Spec
<1>2. Spec => []LeasesFit
  BY <1>1, LeasesInit, FitStep, PTL DEF Spec
<1>3. LeasesFit => CapacityRespected
  BY DEF LeasesFit
<1> QED
  BY <1>2, <1>3, PTL

-----------------------------------------------------------------------------
(***************************************************************************)
(* One owner, one launch: theorems about claims and launches, for every    *)
(* value of the constants.                                                 *)
(***************************************************************************)

(* The inductive invariant.  A claim is held by a supervisor between        *)
(* claimNext and markExternalStartIssued, a launch from there to the spawn  *)
(* or the recorded failure; a fresh job has no external identity.           *)
Claiming(s) == sups[s].pc \in {"select", "acquire", "release", "issue"}
Launching(s) == sups[s].pc \in {"start", "start_failed"}
Fresh(j) == jobs[j].state \in {"pending", "claimed", "retry_wait"}
Grips(s, j) == sups[s].job = j

\* The row version never falls behind a claim; a claim that still stands has
\* not been flagged, and is the only one for its job.
ClaimsOld ==
    \A s \in Supervisor, j \in Job :
      Claiming(s) /\ Grips(s, j) => sups[s].version <= jobs[j].version
ClaimsClean ==
    \A s \in Supervisor, j \in Job :
      Claiming(s) /\ Grips(s, j) /\ ClaimStands(s) => ~jobs[j].recon
ClaimsSingle ==
    \A s, t \in Supervisor, j \in Job :
      /\ Claiming(s) /\ Grips(s, j) /\ ClaimStands(s)
      /\ Claiming(t) /\ Grips(t, j) /\ ClaimStands(t)
      => s = t
\* The launch of a job has one holder, under the recorded identity, and the
\* job cannot be claimed meanwhile.
LaunchesSingle ==
    \A s, t \in Supervisor, j \in Job :
      Launching(s) /\ Grips(s, j) /\ Launching(t) /\ Grips(t, j) => s = t
LaunchesIssued ==
    \A s \in Supervisor, j \in Job :
      Launching(s) /\ Grips(s, j) =>
        ~Fresh(j) /\ launched[j] = <<>> /\ jobs[j].ext = sups[s].attempt
FreshUnlaunched == \A j \in Job : Fresh(j) => launched[j] = <<>>
LaunchedUnderId == \A j \in Job : launched[j] = <<>> \/ launched[j] = <<jobs[j].ext>>
ChildrenLaunched == \A j \in Job : procs[j].phase # "none" => launched[j] # <<>>
Owned ==
    /\ ClaimsOld /\ ClaimsClean /\ ClaimsSingle
    /\ LaunchesSingle /\ LaunchesIssued
    /\ FreshUnlaunched /\ LaunchedUnderId /\ ChildrenLaunched
-----------------------------------------------------------------------------
(* What a step may do to ownership: an ordinary step, or one of the four     *)
(* steps of a launch: claim, issue, start, fail.                             *)
RowStill(j) == jobs'[j] = jobs[j]
RowMoved(j) ==
    /\ jobs'[j].version = jobs[j].version + 1
    /\ jobs'[j].ext = jobs[j].ext
    /\ Fresh(j)' => Fresh(j)
    /\ jobs'[j].state = "starting" => jobs[j].state = "starting"
SupStill(t) ==
    /\ sups'[t].job = sups[t].job
    /\ sups'[t].version = sups[t].version
    /\ sups'[t].attempt = sups[t].attempt
    /\ Claiming(t)' => Claiming(t)
    /\ Launching(t)' => Launching(t)
SupFree(t) == ~Claiming(t)' /\ ~Launching(t)'
NoNewChild == \A j \in Job : procs'[j].phase = "none" \/ procs[j].phase # "none"

Ordinary ==
    /\ \A t \in Supervisor : SupStill(t) \/ SupFree(t)
    /\ \A j \in Job : RowStill(j) \/ RowMoved(j)
    /\ launched' = launched
    /\ NoNewChild
OnlyRow(j) == \A k \in Job \ {j} : RowStill(k)
OnlySup(s) == \A t \in Supervisor \ {s} : sups'[t] = sups[t]
Claims(s, j) ==
    /\ Fresh(j) /\ ~jobs[j].recon
    /\ jobs'[j].version = jobs[j].version + 1
    /\ jobs'[j].ext = jobs[j].ext
    /\ jobs'[j].recon = jobs[j].recon
    /\ jobs'[j].state = "claimed"
    /\ OnlyRow(j)
    /\ sups'[s].job = j /\ ~Launching(s)'
    /\ sups'[s].version = jobs'[j].version
    /\ OnlySup(s)
    /\ launched' = launched /\ procs' = procs
Issues(s, j) ==
    /\ Claiming(s) /\ Grips(s, j) /\ ClaimStands(s)
    /\ jobs'[j].version = jobs[j].version + 1
    /\ jobs'[j].ext = sups[s].attempt
    /\ jobs'[j].state = "starting"
    /\ OnlyRow(j)
    /\ sups'[s].job = j /\ sups'[s].attempt = sups[s].attempt /\ ~Claiming(s)'
    /\ OnlySup(s)
    /\ launched' = launched /\ procs' = procs
Starts(s, j) ==
    /\ Launching(s) /\ Grips(s, j)
    /\ jobs' = jobs
    /\ launched' = [launched EXCEPT ![j] = Append(@, sups[s].attempt)]
    /\ \A k \in Job \ {j} : procs'[k] = procs[k]
    /\ SupFree(s) /\ OnlySup(s)
Fails(s, j) ==
    /\ Launching(s) /\ Grips(s, j)
    /\ jobs'[j].version = jobs[j].version + 1
    /\ jobs'[j].ext = 0
    /\ OnlyRow(j)
    /\ SupFree(s) /\ OnlySup(s)
    /\ launched' = launched /\ procs' = procs
Handled ==
    \/ Ordinary
    \/ \E s \in Supervisor, j \in Job :
         Claims(s, j) \/ Issues(s, j) \/ Starts(s, j) \/ Fails(s, j)

LEMMA OrdinaryOwned == Typed /\ Owned /\ Ordinary => Owned'
<1> SUFFICES ASSUME Typed, Owned, Ordinary PROVE Owned'
  OBVIOUS
<1> USE DEF Ordinary
<1>1. ASSUME NEW s \in Supervisor, NEW j \in Job, Claiming(s)', Grips(s, j)'
      PROVE  /\ Claiming(s) /\ Grips(s, j)
             /\ sups'[s].version = sups[s].version
             /\ sups'[s].version <= jobs'[j].version
             /\ ClaimStands(s)' => ClaimStands(s) /\ jobs'[j] = jobs[j]
  <2>1. Claiming(s) /\ Grips(s, j) /\ sups'[s].version = sups[s].version
    BY <1>1 DEF SupStill, SupFree, Grips
  <2>2. sups[s].version <= jobs[j].version
    BY <2>1 DEF Owned, ClaimsOld
  <2>3. sups[s].version \in Nat /\ jobs[j].version \in Nat
    BY DEF Typed, TypeOK, Locals, JobRow
  <2>4. CASE RowStill(j)
    BY <1>1, <2>1, <2>2, <2>3, <2>4 DEF RowStill, ClaimStands, Grips
  <2>5. CASE RowMoved(j)
    BY <1>1, <2>1, <2>2, <2>3, <2>5 DEF RowMoved, ClaimStands, Grips
  <2> QED
    BY <2>4, <2>5
<1>2. ASSUME NEW s \in Supervisor, NEW j \in Job, Launching(s)', Grips(s, j)'
      PROVE  Launching(s) /\ Grips(s, j) /\ sups'[s].attempt = sups[s].attempt
  BY <1>2 DEF SupStill, SupFree, Grips
<1>3. \A j \in Job : jobs'[j].ext = jobs[j].ext /\ (Fresh(j)' => Fresh(j))
  BY DEF RowStill, RowMoved, Fresh
<1>4. ClaimsOld'
  BY <1>1 DEF ClaimsOld
<1>5. ClaimsClean'
  BY <1>1 DEF Owned, ClaimsClean
<1>6. ClaimsSingle'
  BY <1>1 DEF Owned, ClaimsSingle
<1>7. LaunchesSingle'
  BY <1>2 DEF Owned, LaunchesSingle
<1>8. LaunchesIssued'
  BY <1>2, <1>3 DEF Owned, LaunchesIssued
<1>9. FreshUnlaunched' /\ LaunchedUnderId' /\ ChildrenLaunched'
  BY <1>3 DEF Owned, FreshUnlaunched, LaunchedUnderId, ChildrenLaunched, NoNewChild
<1> QED
  BY <1>4, <1>5, <1>6, <1>7, <1>8, <1>9 DEF Owned

LEMMA ClaimsOwned ==
    ASSUME Typed, Owned, NEW s \in Supervisor, NEW j \in Job, Claims(s, j)
    PROVE  Owned'
<1> USE DEF Claims, OnlyRow, OnlySup, RowStill
<1>1. ASSUME NEW t \in Supervisor, NEW k \in Job, Claiming(t)', Grips(t, k)'
      PROVE  /\ sups'[t].version <= jobs'[k].version
             /\ ClaimStands(t)' => /\ ~jobs'[k].recon
                                   /\ k = j => t = s
                                   /\ k # j => /\ t # s /\ jobs'[k] = jobs[k]
                                               /\ Claiming(t) /\ Grips(t, k)
                                               /\ ClaimStands(t)
  <2>1. CASE t = s
    BY <1>1, <2>1 DEF Grips, Typed, TypeOK, JobRow
  <2>2. CASE t # s
    <3>1. sups'[t] = sups[t] /\ Claiming(t) /\ Grips(t, k)
      BY <1>1, <2>2 DEF Claiming, Grips
    <3>2. sups[t].version <= jobs[k].version
      BY <3>1 DEF Owned, ClaimsOld
    <3>3. sups[t].version \in Nat /\ jobs[k].version \in Nat
      BY DEF Typed, TypeOK, Locals, JobRow
    <3>4. CASE k = j
      BY <1>1, <2>2, <3>1, <3>2, <3>3, <3>4 DEF ClaimStands, Grips
    <3>5. CASE k # j
      BY <1>1, <2>2, <3>1, <3>2, <3>3, <3>5
      DEF ClaimStands, Grips, Owned, ClaimsClean
    <3> QED
      BY <3>4, <3>5
  <2> QED
    BY <2>1, <2>2
<1>2. ASSUME NEW t \in Supervisor, NEW k \in Job, Launching(t)', Grips(t, k)'
      PROVE  /\ Launching(t) /\ Grips(t, k) /\ sups'[t] = sups[t]
             /\ jobs'[k] = jobs[k]
  <2>1. t # s /\ sups'[t] = sups[t] /\ Launching(t) /\ Grips(t, k)
    BY <1>2 DEF Launching, Grips
  <2>2. k # j
    BY <2>1 DEF Owned, LaunchesIssued
  <2> QED
    BY <2>1, <2>2
<1>3. \A k \in Job : jobs'[k].ext = jobs[k].ext /\ (Fresh(k)' => Fresh(k))
  BY DEF Fresh
<1>4. ClaimsOld' /\ ClaimsClean'
  BY <1>1 DEF ClaimsOld, ClaimsClean
<1>6. ClaimsSingle'
  BY <1>1 DEF Owned, ClaimsSingle
<1>7. LaunchesSingle'
  BY <1>2 DEF Owned, LaunchesSingle
<1>8. LaunchesIssued'
  BY <1>2 DEF Owned, LaunchesIssued, Fresh
<1>9. FreshUnlaunched' /\ LaunchedUnderId' /\ ChildrenLaunched'
  BY <1>3 DEF Owned, FreshUnlaunched, LaunchedUnderId, ChildrenLaunched
<1> QED
  BY <1>4, <1>6, <1>7, <1>8, <1>9 DEF Owned

LEMMA IssuesOwned ==
    ASSUME Typed, Owned, NEW s \in Supervisor, NEW j \in Job, Issues(s, j)
    PROVE  Owned'
<1> USE DEF Issues, OnlyRow, OnlySup, RowStill
<1>1. ASSUME NEW t \in Supervisor, NEW k \in Job, Claiming(t)', Grips(t, k)'
      PROVE  /\ sups'[t].version <= jobs'[k].version
             /\ ClaimStands(t)' => /\ jobs'[k] = jobs[k]
                                   /\ Claiming(t) /\ Grips(t, k) /\ ClaimStands(t)
  <2>1. sups'[t] = sups[t] /\ Claiming(t) /\ Grips(t, k)
    BY <1>1 DEF SupFree, Claiming, Grips
  <2>2. sups[t].version <= jobs[k].version
    BY <2>1 DEF Owned, ClaimsOld
  <2>3. sups[t].version \in Nat /\ jobs[k].version \in Nat
    BY DEF Typed, TypeOK, Locals, JobRow
  <2>4. CASE k = j
    BY <1>1, <2>1, <2>2, <2>3, <2>4 DEF ClaimStands, Grips
  <2>5. CASE k # j
    BY <1>1, <2>1, <2>2, <2>3, <2>5 DEF ClaimStands, Grips
  <2> QED
    BY <2>4, <2>5
<1>2. Fresh(j) /\ launched[j] = <<>>
  BY DEF ClaimStands, Grips, Fresh, Owned, FreshUnlaunched
<1>3. ASSUME NEW t \in Supervisor, NEW k \in Job, Launching(t)', Grips(t, k)'
      PROVE  \/ t = s /\ k = j
             \/ /\ t # s /\ k # j
                /\ Launching(t) /\ Grips(t, k) /\ sups'[t] = sups[t]
  <2>1. CASE t = s
    BY <1>3, <2>1 DEF Grips
  <2>2. CASE t # s
    <3>1. Launching(t) /\ Grips(t, k) /\ sups'[t] = sups[t]
      BY <1>3, <2>2 DEF Launching, Grips
    <3>2. k # j
      BY <1>2, <3>1 DEF Owned, LaunchesIssued
    <3> QED
      BY <2>2, <3>1, <3>2
  <2> QED
    BY <2>1, <2>2
<1>4. ClaimsOld'
  BY <1>1 DEF ClaimsOld
<1>5. ClaimsClean'
  BY <1>1 DEF Owned, ClaimsClean
<1>6. ClaimsSingle'
  BY <1>1 DEF Owned, ClaimsSingle
<1>7. LaunchesSingle'
  BY <1>3 DEF Owned, LaunchesSingle
<1>8. LaunchesIssued'
  BY <1>2, <1>3 DEF Owned, LaunchesIssued, Fresh
<1>9. FreshUnlaunched' /\ LaunchedUnderId' /\ ChildrenLaunched'
  BY <1>2 DEF Owned, FreshUnlaunched, LaunchedUnderId, ChildrenLaunched, Fresh
<1> QED
  BY <1>4, <1>5, <1>6, <1>7, <1>8, <1>9 DEF Owned

LEMMA StartsOwned ==
    ASSUME Typed, Owned, NEW s \in Supervisor, NEW j \in Job, Starts(s, j)
    PROVE  Owned'
<1> USE DEF Starts, OnlySup
<1>1. ASSUME NEW t \in Supervisor, Claiming(t)' \/ Launching(t)'
      PROVE  t # s /\ sups'[t] = sups[t] /\ (Claiming(t)' => Claiming(t))
             /\ (Launching(t)' => Launching(t))
  BY <1>1 DEF SupFree, Claiming, Launching
<1>2. /\ ~Fresh(j) /\ launched[j] = <<>> /\ jobs[j].ext = sups[s].attempt
      /\ \A t \in Supervisor : Launching(t) /\ Grips(t, j) => t = s
  BY DEF Owned, LaunchesIssued, LaunchesSingle
<1>3. /\ launched'[j] = <<jobs[j].ext>>
      /\ \A k \in Job \ {j} : launched'[k] = launched[k]
  BY <1>2 DEF Typed, TypeOK
<1>4. ClaimsOld' /\ ClaimsClean'
  BY <1>1 DEF Owned, ClaimsOld, ClaimsClean, Grips, ClaimStands
<1>5. ClaimsSingle'
  BY <1>1 DEF Owned, ClaimsSingle, Grips, ClaimStands
<1>6. LaunchesSingle'
  BY <1>1 DEF Owned, LaunchesSingle, Grips
<1>7. LaunchesIssued'
  <2> SUFFICES ASSUME NEW t \in Supervisor, NEW k \in Job,
                      Launching(t)', Grips(t, k)'
               PROVE  /\ ~Fresh(k)' /\ launched'[k] = <<>>
                      /\ jobs'[k].ext = sups'[t].attempt
    BY DEF LaunchesIssued
  <2>1. t # s /\ sups'[t] = sups[t] /\ Launching(t) /\ Grips(t, k)
    BY <1>1 DEF Grips
  <2>2. k # j
    BY <1>2, <2>1
  <2> QED
    BY <1>3, <2>1, <2>2 DEF Owned, LaunchesIssued, Fresh
<1>8. FreshUnlaunched'
  BY <1>2, <1>3 DEF Owned, FreshUnlaunched, Fresh
<1>9. LaunchedUnderId'
  BY <1>3 DEF Owned, LaunchedUnderId
<1>10. ChildrenLaunched'
  BY <1>3 DEF Owned, ChildrenLaunched
<1> QED
  BY <1>4, <1>5, <1>6, <1>7, <1>8, <1>9, <1>10 DEF Owned

LEMMA FailsOwned ==
    ASSUME Typed, Owned, NEW s \in Supervisor, NEW j \in Job, Fails(s, j)
    PROVE  Owned'
<1> USE DEF Fails, OnlyRow, OnlySup, RowStill
<1>1. ASSUME NEW t \in Supervisor, NEW k \in Job, Claiming(t)', Grips(t, k)'
      PROVE  /\ sups'[t].version <= jobs'[k].version
             /\ ClaimStands(t)' => /\ jobs'[k] = jobs[k]
                                   /\ Claiming(t) /\ Grips(t, k) /\ ClaimStands(t)
  <2>1. sups'[t] = sups[t] /\ Claiming(t) /\ Grips(t, k)
    BY <1>1 DEF SupFree, Claiming, Grips
  <2>2. sups[t].version <= jobs[k].version
    BY <2>1 DEF Owned, ClaimsOld
  <2>3. sups[t].version \in Nat /\ jobs[k].version \in Nat
    BY DEF Typed, TypeOK, Locals, JobRow
  <2>4. CASE k = j
    BY <1>1, <2>1, <2>2, <2>3, <2>4 DEF ClaimStands, Grips
  <2>5. CASE k # j
    BY <1>1, <2>1, <2>2, <2>3, <2>5 DEF ClaimStands, Grips
  <2> QED
    BY <2>4, <2>5
<1>2. ASSUME NEW t \in Supervisor, NEW k \in Job, Launching(t)', Grips(t, k)'
      PROVE  /\ k # j /\ sups'[t] = sups[t]
             /\ Launching(t) /\ Grips(t, k)
  <2>1. t # s /\ sups'[t] = sups[t] /\ Launching(t) /\ Grips(t, k)
    BY <1>2 DEF SupFree, Launching, Grips
  <2> QED
    BY <2>1 DEF Owned, LaunchesSingle
<1>3. launched[j] = <<>>
  BY DEF Owned, LaunchesIssued
<1>4. ClaimsOld'
  BY <1>1 DEF ClaimsOld
<1>5. ClaimsClean'
  BY <1>1 DEF Owned, ClaimsClean
<1>6. ClaimsSingle'
  BY <1>1 DEF Owned, ClaimsSingle
<1>7. LaunchesSingle'
  BY <1>2 DEF Owned, LaunchesSingle
<1>8. LaunchesIssued'
  BY <1>2 DEF Owned, LaunchesIssued, Fresh
<1>9. FreshUnlaunched' /\ LaunchedUnderId' /\ ChildrenLaunched'
  BY <1>3 DEF Owned, FreshUnlaunched, LaunchedUnderId, ChildrenLaunched, Fresh
<1> QED
  BY <1>4, <1>5, <1>6, <1>7, <1>8, <1>9 DEF Owned
-----------------------------------------------------------------------------
(* Every step of the system is one of these.                                *)
RowsOrdinary == \A j \in Job : RowStill(j) \/ RowMoved(j)
SupOrdinary(s) == OnlySup(s) /\ (SupStill(s) \/ SupFree(s))

LEMMA OneSup ==
    ASSUME NEW s \in Supervisor, SupOrdinary(s), RowsOrdinary,
           launched' = launched, NoNewChild
    PROVE  Ordinary
BY DEF SupOrdinary, OnlySup, SupStill, Claiming, Launching, RowsOrdinary, Ordinary

LEMMA SameRows == jobs' = jobs => RowsOrdinary
BY DEF RowsOrdinary, RowStill

LEMMA SameChildren == procs' = procs => NoNewChild
BY DEF NoNewChild

LEMMA SameSups ==
    ASSUME sups' = sups, RowsOrdinary, launched' = launched, NoNewChild
    PROVE  Ordinary
BY DEF SupStill, Claiming, Launching, RowsOrdinary, Ordinary

LEMMA GotoFree ==
    ASSUME Typed, NEW s \in Supervisor, NEW pc, Goto(s, pc),
           pc \notin {"select", "acquire", "release", "issue", "start", "start_failed"}
    PROVE  SupOrdinary(s)
BY DEF Goto, SupOrdinary, OnlySup, SupFree, Claiming, Launching, Typed, TypeOK, Locals

LEMMA RestingFree ==
    ASSUME Typed, NEW s \in Supervisor,
           NEW pc \in {"down", "register", "list_external"},
           sups' = [sups EXCEPT ![s] = Resting(pc)]
    PROVE  SupOrdinary(s)
BY DEF Resting, SupOrdinary, OnlySup, SupFree, Claiming, Launching, Typed, TypeOK

LEMMA AfterReconcileFree ==
    ASSUME Typed, NEW s \in Supervisor, AfterReconcile(s)
    PROVE  SupOrdinary(s)
BY RestingFree, GotoFree DEF AfterReconcile, EndTick

LEMMA ThrowOrdinary ==
    ASSUME Typed, NEW s \in Supervisor, Throw(s)
    PROVE  Ordinary
<1>1. SupOrdinary(s)
  BY RestingFree DEF Throw, Die
<1>2. NoNewChild
  <2> SUFFICES ASSUME NEW j \in Job
               PROVE  procs'[j].phase = procs[j].phase
    BY DEF NoNewChild
  <2> QED
    BY DEF Throw, Die, Typed, TypeOK, Child
<1> QED
  BY <1>1, <1>2, SameRows, OneSup DEF Throw, store

LEMMA RegisterNodeOrdinary ==
    ASSUME Typed, NEW s \in Supervisor, RegisterNode(s)
    PROVE  Ordinary
BY GotoFree, SameRows, SameChildren, OneSup DEF RegisterNode, world

LEMMA ListForReconciliationOrdinary ==
    ASSUME Typed, NEW s \in Supervisor, ListForReconciliation(s)
    PROVE  Ordinary
<1>1. RowsOrdinary
  <2> SUFFICES ASSUME NEW j \in Job
               PROVE  RowStill(j) \/ RowMoved(j)
    BY DEF RowsOrdinary
  <2>1. \/ jobs'[j] = jobs[j]
        \/ jobs'[j] = [jobs[j] EXCEPT !.recon = TRUE, !.version = @ + 1]
    BY DEF ListForReconciliation, Flagged
  <2> QED
    BY <2>1 DEF RowStill, RowMoved, Fresh, Typed, TypeOK, JobRow
<1>2. SupOrdinary(s)
  <2>1. PICK todo : \E pc \in {"heartbeat", "reconcile"} :
          sups' = [sups EXCEPT ![s].now = clock, ![s].todo = todo, ![s].pc = pc]
    BY Zenon DEF ListForReconciliation
  <2>2. PICK pc \in {"heartbeat", "reconcile"} : sups' = [sups EXCEPT ![s] =
                   [sups[s] EXCEPT !.now = clock, !.todo = todo, !.pc = pc]]
    BY <2>1
  <2> QED
    BY <2>2 DEF SupOrdinary, OnlySup, SupFree, Claiming, Launching, Typed, TypeOK, Locals
<1> QED
  BY <1>1, <1>2, SameChildren, OneSup DEF ListForReconciliation, world

LEMMA TakeFree ==
    ASSUME Typed, NEW s \in Supervisor, NEW r, NEW seen,
           NEW pc \in {"mark_stopped", "mark_timed_out", "reconcile_external"},
           Take(s, r, pc, seen)
    PROVE  SupOrdinary(s)
<1>1. sups' = [sups EXCEPT ![s] = [sups[s] EXCEPT !.pc = pc, !.todo = @ \ {r},
                                                  !.job = r.job, !.seen = seen]]
  BY DEF Take
<1> QED
  BY <1>1 DEF SupOrdinary, OnlySup, SupFree, Claiming, Launching, Typed, TypeOK, Locals

LEMMA CancelExternalOrdinary ==
    ASSUME Typed, NEW s \in Supervisor, CancelExternal(s)
    PROVE  Ordinary
<1>1. PICK r \in sups[s].todo :
        /\ procs' = procs \/ procs' = [procs EXCEPT ![r.job].signalled = TRUE]
        /\ Take(s, r, IF r.stop THEN "mark_stopped" ELSE "mark_timed_out", "starting")
  BY DEF CancelExternal
<1>2. SupOrdinary(s)
  BY <1>1, TakeFree
<1>3. NoNewChild
  <2> SUFFICES ASSUME NEW k \in Job
               PROVE  procs'[k].phase = procs[k].phase
    BY DEF NoNewChild
  <2>1. procs'[k] = procs[k] \/ procs'[k] = [procs[k] EXCEPT !.signalled = TRUE]
    <3>1. CASE procs' = procs
      BY <3>1
    <3>2. CASE procs' = [procs EXCEPT ![r.job].signalled = TRUE]
      <4>1. procs' = [procs EXCEPT ![r.job] = [procs[r.job] EXCEPT !.signalled = TRUE]]
        BY <3>2
      <4>2. procs \in [Job -> Child]
        BY DEF Typed, TypeOK
      <4>3. CASE k = r.job
        BY <4>1, <4>2, <4>3, Zenon
      <4>4. CASE k # r.job
        BY <4>1, <4>2, <4>4
      <4> QED
        BY <4>3, <4>4
    <3> QED
      BY <1>1, <3>1, <3>2
  <2> QED
    BY <2>1 DEF Typed, TypeOK, Child
<1> QED
  BY <1>2, <1>3, SameRows, OneSup DEF CancelExternal, store

LEMMA InspectExternalOrdinary ==
    ASSUME Typed, NEW s \in Supervisor, InspectExternal(s)
    PROVE  Ordinary
BY TakeFree, SameRows, SameChildren, OneSup DEF InspectExternal, store, world

LEMMA SettleRows ==
    ASSUME Typed, NEW j \in Job, NEW state \in {"failed", "cancelled"}, Settle(j, state)
    PROVE  RowsOrdinary
BY DEF Settle, Write, RowsOrdinary, RowStill, RowMoved, Fresh, Typed, TypeOK, JobRow

LEMMA MarkStoppedOrdinary ==
    ASSUME Typed, NEW s \in Supervisor, MarkStopped(s)
    PROVE  Ordinary
<1>1. sups[s].job \in Job
  BY DEF MarkStopped, At, Typed, InHand, OnJob
<1> QED
  BY <1>1, ThrowOrdinary, SettleRows, AfterReconcileFree, SameChildren, OneSup
  DEF MarkStopped, world

LEMMA MarkTimedOutOrdinary ==
    ASSUME Typed, NEW s \in Supervisor, MarkTimedOut(s)
    PROVE  Ordinary
<1>1. sups[s].job \in Job
  BY DEF MarkTimedOut, At, Typed, InHand, OnJob
<1> QED
  BY <1>1, ThrowOrdinary, SettleRows, AfterReconcileFree, SameChildren, OneSup
  DEF MarkTimedOut, world

LEMMA CommitRows ==
    ASSUME Typed, NEW j \in Job, NEW answer, CommitExternalState(j, MappedState(answer))
    PROVE  RowsOrdinary
<1>1. MappedState(answer) \notin {"pending", "claimed", "retry_wait", "starting"}
  BY DEF MappedState, RunTerminal
<1> QED
  BY <1>1 DEF CommitExternalState, Write, RowsOrdinary, RowStill, RowMoved, Fresh,
              Typed, TypeOK, JobRow

LEMMA ReconcileExternalOrdinary ==
    ASSUME Typed, NEW s \in Supervisor, ReconcileExternal(s)
    PROVE  Ordinary
<1>1. sups[s].job \in Job
  BY DEF ReconcileExternal, At, Typed, InHand, OnJob
<1> QED
  BY <1>1, ThrowOrdinary, CommitRows, AfterReconcileFree, SameChildren, OneSup
  DEF ReconcileExternal, world

LEMMA MarkStartedOrdinary ==
    ASSUME Typed, NEW s \in Supervisor, MarkStarted(s)
    PROVE  Ordinary
<1>1. sups[s].job \in Job
  BY DEF MarkStarted, At, Typed, InHand, OnJob
<1> QED
  BY <1>1, ThrowOrdinary, CommitRows, RestingFree, SameChildren, OneSup
  DEF MarkStarted, EndTick, world

LEMMA ReleaseClaimOrdinary ==
    ASSUME Typed, NEW s \in Supervisor, ReleaseClaim(s)
    PROVE  Ordinary
<1> DEFINE j == sups[s].job
<1>1. RowsOrdinary
  <2>1. CASE jobs[j].state = "claimed"
    <3>1. j \in Job
      BY DEF ReleaseClaim, At, Typed, InHand, OnJob
    <3>2. Write(j, [jobs[j] EXCEPT !.state = "pending", !.nextAt = sups[s].now])
      BY <2>1 DEF ReleaseClaim
    <3> QED
      BY <2>1, <3>1, <3>2 DEF Write, RowsOrdinary, RowStill, RowMoved, Fresh,
                              Typed, TypeOK, JobRow
  <2>2. CASE jobs[j].state # "claimed"
    BY <2>2, SameRows DEF ReleaseClaim
  <2> QED
    BY <2>1, <2>2
<1> QED
  BY <1>1, RestingFree, SameChildren, OneSup DEF ReleaseClaim, EndTick, world

LEMMA HeartbeatOwnedOrdinary ==
    ASSUME Typed, NEW s \in Supervisor, HeartbeatOwned(s)
    PROVE  Ordinary
BY GotoFree, SameRows, SameChildren, OneSup DEF HeartbeatOwned, world

LEMMA IdleOrdinary ==
    ASSUME Typed, NEW s \in Supervisor, Idle(s)
    PROVE  Ordinary
BY RestingFree, SameRows, SameChildren, OneSup DEF Idle, EndTick, store, world

\* From one of the steps that hold a claim to another: the claim is the same.
LEMMA GripKept ==
    ASSUME Typed, NEW s \in Supervisor, Claiming(s), NEW pc \in {"release", "issue"},
           Goto(s, pc)
    PROVE  SupOrdinary(s)
BY DEF Goto, SupOrdinary, OnlySup, SupStill, Claiming, Launching, Typed, TypeOK, Locals

LEMMA SelectNodeOrdinary ==
    ASSUME Typed, NEW s \in Supervisor, SelectNode(s)
    PROVE  Ordinary
<1>1. SupOrdinary(s)
  <2>1. Claiming(s)
    BY DEF SelectNode, At, Claiming
  <2>2. CASE Goto(s, "release")
    BY <2>1, <2>2, GripKept
  <2>3. ASSUME NEW n, sups' = [sups EXCEPT ![s].pc = "acquire", ![s].node = n]
        PROVE  SupOrdinary(s)
    <3>1. sups' = [sups EXCEPT ![s] = [sups[s] EXCEPT !.pc = "acquire", !.node = n]]
      BY <2>3
    <3> QED
      BY <2>1, <3>1
      DEF SupOrdinary, OnlySup, SupStill, Claiming, Launching, Typed, TypeOK, Locals
  <2> QED
    BY <2>2, <2>3 DEF SelectNode
<1> QED
  BY <1>1, SameRows, SameChildren, OneSup DEF SelectNode, store, world

LEMMA AcquireLeaseOrdinary ==
    ASSUME Typed, NEW s \in Supervisor, AcquireLease(s)
    PROVE  Ordinary
<1>1. Claiming(s)
  BY DEF AcquireLease, At, Claiming
<1>2. Goto(s, "issue") \/ Goto(s, "release")
  BY DEF AcquireLease
<1> QED
  BY <1>1, <1>2, GripKept, SameRows, SameChildren, OneSup DEF AcquireLease, world

LEMMA ClaimNextHandled ==
    ASSUME Typed, NEW s \in Supervisor, ClaimNext(s)
    PROVE  \E j \in Job : Claims(s, j)
<1>1. PICK j \in Job :
        /\ Claimable(j, sups[s].now)
        /\ Write(j, [jobs[j] EXCEPT !.state = "claimed"])
        /\ sups' = [sups EXCEPT ![s].pc = "select", ![s].job = j,
                      ![s].version = jobs[j].version + 1, ![s].attempt = jobs[j].attempt]
  BY DEF ClaimNext
<1>2. /\ jobs'[j].version = jobs[j].version + 1
      /\ jobs'[j].ext = jobs[j].ext /\ jobs'[j].recon = jobs[j].recon
      /\ jobs'[j].state = "claimed"
      /\ OnlyRow(j)
  BY <1>1 DEF Write, OnlyRow, RowStill, Typed, TypeOK, JobRow
<1>3. sups' = [sups EXCEPT ![s] =
                [sups[s] EXCEPT !.pc = "select", !.job = j,
                   !.version = jobs[j].version + 1, !.attempt = jobs[j].attempt]]
  BY <1>1
<1>4. /\ sups'[s].pc = "select" /\ sups'[s].job = j
      /\ sups'[s].version = jobs[j].version + 1
      /\ OnlySup(s)
  BY <1>3 DEF OnlySup, Typed, TypeOK, Locals
<1>5. Fresh(j) /\ ~jobs[j].recon
  BY <1>1 DEF Claimable, Fresh
<1> QED
  BY <1>2, <1>4, <1>5 DEF Claims, Launching, ClaimNext, world

LEMMA IssueHandled ==
    ASSUME Typed, NEW s \in Supervisor, MarkExternalStartIssued(s)
    PROVE  Ordinary \/ \E j \in Job : Issues(s, j)
<1> DEFINE j == sups[s].job
<1>1. CASE ClaimStands(s)
  <2>1. j \in Job /\ Claiming(s)
    BY DEF MarkExternalStartIssued, At, Typed, InHand, OnJob, Claiming
  <2>2. Write(j, [jobs[j] EXCEPT !.state = "starting", !.recon = TRUE,
                                 !.ext = sups[s].attempt])
    BY <1>1 DEF MarkExternalStartIssued
  <2>3. /\ jobs'[j].version = jobs[j].version + 1 /\ jobs'[j].state = "starting"
        /\ jobs'[j].ext = sups[s].attempt /\ OnlyRow(j)
    BY <2>1, <2>2 DEF Write, OnlyRow, RowStill, Typed, TypeOK, JobRow
  <2>4. /\ sups'[s].pc = "start" /\ sups'[s].job = j
        /\ sups'[s].attempt = sups[s].attempt /\ OnlySup(s)
    BY <1>1 DEF MarkExternalStartIssued, Goto, OnlySup, Typed, TypeOK, Locals
  <2> QED
    BY <1>1, <2>1, <2>3, <2>4
    DEF Issues, Grips, Claiming, MarkExternalStartIssued, world
<1>2. CASE ~ClaimStands(s)
  BY <1>2, ThrowOrdinary DEF MarkExternalStartIssued
<1> QED
  BY <1>1, <1>2

LEMMA LaunchHandled ==
    ASSUME Typed, NEW s \in Supervisor, Launch(s)
    PROVE  \E j \in Job : Starts(s, j)
<1> DEFINE j == sups[s].job
<1>1. j \in Job /\ Launching(s)
  BY DEF Launch, At, Typed, InHand, OnJob, Launching
<1>2. SupFree(s) /\ OnlySup(s)
  BY DEF Launch, Goto, SupFree, OnlySup, Claiming, Launching, Typed, TypeOK, Locals
<1>3. \A k \in Job \ {j} : procs'[k] = procs[k]
  BY DEF Launch, Typed, TypeOK
<1> QED
  BY <1>1, <1>2, <1>3 DEF Starts, Grips, Launch, store

LEMMA LaunchFailsOrdinary ==
    ASSUME Typed, NEW s \in Supervisor, LaunchFails(s)
    PROVE  Ordinary
<1>1. SupOrdinary(s)
  BY DEF LaunchFails, At, Goto, SupOrdinary, OnlySup, SupStill, Claiming, Launching,
         Typed, TypeOK, Locals
<1> QED
  BY <1>1, SameRows, SameChildren, OneSup DEF LaunchFails, store

LEMMA HandleStartFailureHandled ==
    ASSUME Typed, NEW s \in Supervisor, HandleStartFailure(s)
    PROVE  Ordinary \/ \E j \in Job : Fails(s, j)
<1> DEFINE j == sups[s].job
           again == CanRetry(j)
<1>1. CASE jobs[j].state # "starting"
  BY <1>1, ThrowOrdinary DEF HandleStartFailure
<1>2. CASE jobs[j].state = "starting"
  <2>1. j \in Job /\ Launching(s)
    BY DEF HandleStartFailure, At, Typed, InHand, OnJob, Launching
  <2>2. Write(j, [jobs[j] EXCEPT !.state = IF again THEN "retry_wait" ELSE "failed",
                                 !.attempt = IF again THEN @ + 1 ELSE @,
                                 !.nextAt = clock + RetryDelay,
                                 !.ext = 0, !.recon = FALSE])
    BY <1>2 DEF HandleStartFailure
  <2>3. jobs'[j].version = jobs[j].version + 1 /\ jobs'[j].ext = 0 /\ OnlyRow(j)
    BY <2>1, <2>2 DEF Write, OnlyRow, RowStill, Typed, TypeOK, JobRow
  <2>4. SupFree(s) /\ OnlySup(s)
    BY <1>2 DEF HandleStartFailure, EndTick, Resting, SupFree, OnlySup, Claiming,
                Launching, Typed, TypeOK
  <2> QED
    BY <1>2, <2>1, <2>3, <2>4 DEF Fails, Grips, HandleStartFailure, world
<1> QED
  BY <1>1, <1>2

LEMMA ListExternalRunsOrdinary ==
    ASSUME Typed, NEW s \in Supervisor, ListExternalRuns(s)
    PROVE  Ordinary
<1>1. PICK live : \E pc \in {"register", "poll"} :
        sups' = [sups EXCEPT ![s].polls = live, ![s].pc = pc]
  BY Zenon DEF ListExternalRuns
<1>2. PICK pc \in {"register", "poll"} :
        sups' = [sups EXCEPT ![s] = [sups[s] EXCEPT !.polls = live, !.pc = pc]]
  BY <1>1
<1>3. SupOrdinary(s)
  BY <1>2 DEF SupOrdinary, OnlySup, SupFree, Claiming, Launching, Typed, TypeOK, Locals
<1> QED
  BY <1>3, SameRows, SameChildren, OneSup DEF ListExternalRuns, store, world

LEMMA PollDoneOrdinary ==
    ASSUME Typed, NEW s \in Supervisor, PollDone(s)
    PROVE  Ordinary
<1>1. SupOrdinary(s)
  <2>1. CASE sups' = [sups EXCEPT ![s] = Resting("register")]
    BY <2>1, RestingFree
  <2>2. ASSUME NEW left, sups' = [sups EXCEPT ![s].polls = left]
        PROVE  SupOrdinary(s)
    <3>1. sups' = [sups EXCEPT ![s] = [sups[s] EXCEPT !.polls = left]]
      BY <2>2
    <3> QED
      BY <3>1
      DEF SupOrdinary, OnlySup, SupStill, Claiming, Launching, Typed, TypeOK, Locals
  <2> QED
    BY <2>1, <2>2 DEF PollDone
<1> QED
  BY <1>1, SameRows, SameChildren, OneSup DEF PollDone, store, world

LEMMA IngestOrdinary ==
    ASSUME Typed, NEW s \in Supervisor, Ingest(s)
    PROVE  Ordinary
<1>1. PICK j \in sups[s].polls :
        LET event == IF jobs[j].seq = 0 THEN "running" ELSE procs[j].journal
            after == IF RunOver(j) THEN runs[j] ELSE event
        IN  /\ jobs[j].seq < Events(j)
            /\ Write(j, [jobs[j] EXCEPT !.seq = @ + 1, !.recon = FALSE,
                                        !.state = after])
  BY DEF Ingest
<1> DEFINE event == IF jobs[j].seq = 0 THEN "running" ELSE procs[j].journal
           after == IF RunOver(j) THEN runs[j] ELSE event
<1>2. j \in Job
  BY DEF Typed, TypeOK, Locals
<1>3. event \in {"running"} \cup RunTerminal
  BY <1>1, <1>2, EventTyped
<1>4. after \notin {"pending", "claimed", "retry_wait", "starting"}
  BY <1>3 DEF RunOver, RunTerminal
<1>5. Write(j, [jobs[j] EXCEPT !.seq = @ + 1, !.recon = FALSE, !.state = after])
  BY <1>1
<1> HIDE DEF after
<1>6. RowsOrdinary
  BY <1>2, <1>4, <1>5 DEF Write, RowsOrdinary, RowStill, RowMoved, Fresh,
                          Typed, TypeOK, JobRow
<1> QED
  BY <1>6, SameChildren, SameSups DEF Ingest, world

LEMMA CrashOrdinary ==
    ASSUME Typed, NEW s \in Supervisor, Crash(s)
    PROVE  Ordinary
<1>1. SupOrdinary(s)
  BY RestingFree DEF Crash, Die
<1>2. NoNewChild
  <2> SUFFICES ASSUME NEW j \in Job
               PROVE  procs'[j].phase = procs[j].phase
    BY DEF NoNewChild
  <2> QED
    BY DEF Crash, Die, Typed, TypeOK, Child
<1> QED
  BY <1>1, <1>2, SameRows, OneSup DEF Crash, store

LEMMA RestartOrdinary ==
    ASSUME Typed, NEW s \in Supervisor, Restart(s)
    PROVE  Ordinary
BY GotoFree, SameRows, SameChildren, OneSup DEF Restart, store, world

LEMMA ChildOrdinary ==
    ASSUME Typed, NEW j \in Job, ChildReports(j) \/ ChildExits(j)
    PROVE  Ordinary
<1>1. procs[j].phase # "none" /\ \A k \in Job \ {j} : procs'[k] = procs[k]
  BY DEF ChildReports, ChildExits, Typed, TypeOK
<1>2. NoNewChild
  BY <1>1 DEF NoNewChild
<1> QED
  BY <1>2, SameRows, SameSups DEF ChildReports, ChildExits, store

LEMMA StepHandled ==
    ASSUME Typed, NEW s \in Supervisor, Step(s)
    PROVE  Handled
BY RegisterNodeOrdinary, ListForReconciliationOrdinary, CancelExternalOrdinary,
   MarkStoppedOrdinary, MarkTimedOutOrdinary, InspectExternalOrdinary,
   ReconcileExternalOrdinary, HeartbeatOwnedOrdinary, ClaimNextHandled,
   IdleOrdinary, SelectNodeOrdinary, AcquireLeaseOrdinary, ReleaseClaimOrdinary,
   IssueHandled, LaunchHandled, LaunchFailsOrdinary, HandleStartFailureHandled,
   MarkStartedOrdinary, ListExternalRunsOrdinary, IngestOrdinary, PollDoneOrdinary
DEF Step, Handled

LEMMA NextHandled == Typed /\ [Next]_vars => Handled
<1> SUFFICES ASSUME Typed, [Next]_vars
             PROVE  Handled
  OBVIOUS
<1>1. CASE Tick \/ UNCHANGED vars
  BY <1>1, SameRows, SameChildren, SameSups DEF Tick, store, world, vars, Handled
<1>2. ASSUME NEW c \in Scope, NEW op \in Operation, Command(c, op)
      PROVE  Handled
  BY <1>2, SameRows, SameChildren, SameSups DEF Command, world, Handled
<1> QED
  BY <1>1, <1>2, StepHandled, CrashOrdinary, RestartOrdinary, ChildOrdinary
  DEF Next, Handled

LEMMA InitOwned == Init => Owned
BY DEF Init, Owned, ClaimsOld, ClaimsClean, ClaimsSingle, LaunchesSingle,
       LaunchesIssued, FreshUnlaunched, LaunchedUnderId, ChildrenLaunched,
       Claiming, Launching, Resting

LEMMA OwnedAlways == Spec => [](Typed /\ Owned)
<1>1. Init => Typed /\ Owned
  BY InitTyped, InitOwned
<1>2. Typed /\ Owned /\ [Next]_vars => Typed' /\ Owned'
  <2> SUFFICES ASSUME Typed, Owned, [Next]_vars
               PROVE  Owned'
    BY NextTyped
  <2> QED
    BY NextHandled, OrdinaryOwned, ClaimsOwned, IssuesOwned, StartsOwned, FailsOwned
    DEF Handled
<1> QED
  BY <1>1, <1>2, PTL DEF Spec
-----------------------------------------------------------------------------
(* The theorems.                                                            *)

\* Two supervisors never work on the same live claim or launch, and a Run has
\* at most one active lease.
THEOREM OneOwner == Spec => []SingleOwner
<1>1. Owned /\ LeasesSingle => SingleOwner
  <2> SUFFICES ASSUME Owned, LeasesSingle, NEW j \in Job,
                      NEW s \in Supervisor, NEW t \in Supervisor,
                      WorksOn(s, j), WorksOn(t, j)
               PROVE  s = t
    BY DEF SingleOwner, LeasesSingle
  <2> QED
    BY DEF WorksOn, ClaimStands, Owned, ClaimsSingle, LaunchesSingle, Claiming,
           Launching, Grips
<1> QED
  BY <1>1, LeasesAlways, OwnedAlways, PTL

\* A Run is launched at most once, whatever crashes, retries and takeovers.
THEOREM OneLaunch == Spec => []LaunchedOnce
<1>1. Owned => LaunchedOnce
  <2> SUFFICES ASSUME NEW j \in Job, launched[j] = <<>> \/ launched[j] = <<jobs[j].ext>>
               PROVE  Len(launched[j]) <= 1
    BY DEF Owned, LaunchedUnderId, LaunchedOnce
  <2>1. CASE launched[j] = <<>>
    BY <2>1
  <2>2. CASE launched[j] = <<jobs[j].ext>>
    BY <2>2
  <2> QED
    BY <2>1, <2>2
<1> QED
  BY <1>1, OwnedAlways, PTL

\* A child runs only under the identity recorded in its job row, and its job
\* can never be claimed again.
THEOREM IdentityIsFirst == Spec => []IdentityBeforeLaunch
<1>1. Owned => IdentityBeforeLaunch
  <2> SUFFICES ASSUME Owned, NEW j \in Job, procs[j].phase # "none"
               PROVE  /\ jobs[j].ext = launched[j][Len(launched[j])]
                      /\ jobs[j].state \notin {"pending", "claimed", "retry_wait"}
    BY DEF IdentityBeforeLaunch
  <2>1. launched[j] = <<jobs[j].ext>>
    BY DEF Owned, LaunchedUnderId, ChildrenLaunched
  <2>2. jobs[j].state \notin {"pending", "claimed", "retry_wait"}
    BY <2>1 DEF Owned, FreshUnlaunched, Fresh
  <2> QED
    BY <2>1, <2>2
<1> QED
  BY <1>1, OwnedAlways, PTL

\* A claim that reconciliation has flagged is never started: the flag came
\* with a new row version, so the claim does not stand any more.
THEOREM FlaggedIsNotStarted == Spec => FlaggedNeverStarts
<1>1. Typed /\ Owned /\ [Next]_vars =>
        [\A j \in Job : jobs[j].state = "claimed" /\ jobs[j].recon
                          => jobs'[j].state # "starting"]_vars
  <2> SUFFICES ASSUME Typed, Owned, [Next]_vars, NEW j \in Job,
                      jobs[j].state = "claimed", jobs[j].recon
               PROVE  jobs'[j].state # "starting"
    OBVIOUS
  <2>1. CASE Ordinary
    BY <2>1 DEF Ordinary, RowStill, RowMoved
  <2>2. ASSUME NEW s \in Supervisor, NEW k \in Job, Claims(s, k)
        PROVE  jobs'[j].state # "starting"
    BY <2>2 DEF Claims, OnlyRow, RowStill
  <2>3. ASSUME NEW s \in Supervisor, NEW k \in Job, Issues(s, k)
        PROVE  jobs'[j].state # "starting"
    <3>1. k # j
      BY <2>3 DEF Issues, Owned, ClaimsClean
    <3> QED
      BY <2>3, <3>1 DEF Issues, OnlyRow, RowStill
  <2>4. ASSUME NEW s \in Supervisor, NEW k \in Job, Fails(s, k)
        PROVE  jobs'[j].state # "starting"
    <3>1. k # j
      BY <2>4 DEF Fails, Owned, LaunchesIssued, Fresh
    <3> QED
      BY <2>4, <3>1 DEF Fails, OnlyRow, RowStill
  <2>5. ASSUME NEW s \in Supervisor, NEW k \in Job, Starts(s, k)
        PROVE  jobs'[j].state # "starting"
    BY <2>5 DEF Starts
  <2> QED
    BY <2>1, <2>2, <2>3, <2>4, <2>5, NextHandled DEF Handled
<1> QED
  BY <1>1, OwnedAlways, PTL DEF Spec, FlaggedNeverStarts
=============================================================================
