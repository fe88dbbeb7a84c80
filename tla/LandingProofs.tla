---------------------------- MODULE LandingProofs ----------------------------
(***************************************************************************)
(* Theorems about LandingLane, for any number of runs, tasks, supervisors  *)
(* and faults.                                                             *)
(***************************************************************************)
EXTENDS LandingLane, TLAPS

\* The steps that are about one candidate.
WithRun == {"classify", "retry", "abandon", "land"} \cup Found \cup InLane

\* What the stores say of each other.
RunGood(r) ==
    /\ runs[r].status # "absent" => runs[r].base <= runs[r].head /\ runs[r].head <= Len(ref)
    /\ ledger[r].state # "absent" =>
         runs[r].status # "absent" /\ ledger[r].expected = ledger[r].cand
    /\ InRef(r) => ledger[r].state # "absent" /\ Landed(r, ledger[r].cand)
    /\ ledger[r].state \in {"integrated", "queue_finalized"} => InRef(r)
    /\ ledger[r].state = "queue_finalized" => tasks[TaskOf[r]].status = "done"
TaskGood(t) ==
    tasks[t].mode = "autodev_reviewed" =>
        tasks[t].status = "done" /\ \E r \in Run : TaskOf[r] = t /\ InRef(r)
BranchGood == \A i, j \in 1 .. Len(ref) : ref[i] = ref[j] /\ ref[i] # None => i = j

\* What a supervisor between two writes knows of them.
SupGood(s) ==
    LET r == sups[s].run
        pc == sups[s].pc
    IN  /\ \A item \in sups[s].todo : runs[item[1]].status # "absent"
        /\ pc \in WithRun => r \in Run /\ runs[r].status # "absent"
        /\ pc \in InLane => lane = s /\ sups[s].at <= Len(ref)
        /\ pc \in {"verify", "prepare"} => runs[r].head = sups[s].at
        /\ pc = "cas" => /\ ledger[r].state # "absent" /\ ledger[r].cand = sups[s].at
                         /\ ~InRef(r)
        /\ pc \in AfterSwap \cup Found \/ (pc = "classify" /\ sups[s].has) => InRef(r)
        /\ pc \in {"mark", "close", "landed", "finalized"} => tasks[TaskOf[r]].status = "done"

LaneInv ==
    /\ TypeOK /\ BranchGood
    /\ \A r \in Run : RunGood(r)
    /\ \A t \in Task : TaskGood(t)
    /\ \A s \in Supervisor : SupGood(s)

LEMMA LaneInit == Init => LaneInv
<1> SUFFICES ASSUME Init PROVE LaneInv
  OBVIOUS
<1> USE LandingAssumption DEF LandingAssumption, Init, Idle
<1>1. TypeOK
  BY DEF TypeOK, StoresTyped, TasksTyped, RunsTyped, LedgerTyped, SupState, TaskStatus, RunState, LedgerState, PC, Tip
<1>2. BranchGood /\ \A r \in Run : RunGood(r)
  BY DEF BranchGood, RunGood, InRef, Landed
<1>3. \A t \in Task : TaskGood(t)
  BY DEF TaskGood
<1>4. \A s \in Supervisor : SupGood(s)
  BY DEF SupGood, WithRun, InLane, AfterSwap, Found
<1> QED BY <1>1, <1>2, <1>3, <1>4 DEF LaneInv

-----------------------------------------------------------------------------
(* What every step does to the stores, as far as a supervisor can rely on   *)
(* it that is between two writes.                                           *)
Grows ==
    /\ \A r \in Run : runs[r].status # "absent" => runs'[r].status # "absent"
    /\ \A r \in Run : ledger[r].state # "absent" => ledger'[r].state # "absent"
    /\ \A r \in Run : InRef(r) => InRef(r)'
    /\ Len(ref) \in Nat /\ Len(ref') \in Nat /\ Len(ref) <= Len(ref')
    /\ \A t \in Task : tasks[t].status = "done" => tasks'[t].status = "done"
\* What only the holder of the lane changes.
Steady ==
    \A r \in Run :
        /\ runs[r].status # "absent" => runs'[r].head = runs[r].head
        /\ ledger'[r].cand = ledger[r].cand
        /\ InRef(r)' => InRef(r)

LEMMA StaysGood ==
    ASSUME TypeOK, Grows, NEW s \in Supervisor, SupGood(s), sups'[s] = sups[s],
           lane = s => lane' = s,
           lane = s => Steady
    PROVE  SupGood(s)'
<1> DEFINE r == sups[s].run
           pc == sups[s].pc
<1> USE LandingAssumption DEF LandingAssumption
<1>0. /\ \A t \in Run : TaskOf[t] \in Task
      /\ sups[s].todo \subseteq Run \X Nat /\ sups[s].at \in Nat
  BY DEF TypeOK, StoresTyped, TasksTyped, RunsTyped, LedgerTyped, SupState, Tip
<1>1. \A item \in sups[s].todo : runs'[item[1]].status # "absent"
  BY <1>0 DEF SupGood, Grows
<1>2. pc \in WithRun => r \in Run /\ runs'[r].status # "absent"
  BY DEF SupGood, Grows
<1>3. pc \in InLane => lane' = s /\ sups[s].at <= Len(ref')
  BY <1>0 DEF SupGood, Grows
<1>4. pc \in {"verify", "prepare"} => runs'[r].head = sups[s].at
  BY DEF SupGood, Steady, InLane, WithRun
<1>5. pc = "cas" => ledger'[r].state # "absent" /\ ledger'[r].cand = sups[s].at /\ ~InRef(r)'
  BY DEF SupGood, Steady, Grows, InLane, WithRun
<1>6. pc \in AfterSwap \cup Found \/ (pc = "classify" /\ sups[s].has) => InRef(r)'
  BY DEF SupGood, Grows, WithRun, InLane
<1>7. pc \in {"mark", "close", "landed", "finalized"} => tasks'[TaskOf[r]].status = "done"
  BY <1>0 DEF SupGood, Grows, WithRun, InLane, Found, AfterSwap
<1> QED BY <1>1, <1>2, <1>3, <1>4, <1>5, <1>6, <1>7 DEF SupGood

LEMMA BranchSame ==
    ASSUME ref' = ref
    PROVE  /\ \A r : InRef(r)' <=> InRef(r)
           /\ \A r, n : Landed(r, n)' <=> Landed(r, n)
           /\ BranchGood' <=> BranchGood
  BY DEF InRef, Landed, BranchGood

\* What a step of s has to show, v being what s becomes: then everybody else is
\* as good as before.
LEMMA LaneKept ==
    ASSUME LaneInv, NEW s \in Supervisor, NEW v \in SupState,
           sups' = [sups EXCEPT ![s] = v],
           StoresTyped', lease' \in Supervisor \cup {None}, spent' = spent \/ spent' \in [{"foreign", "operator", "crashes", "lapses"} -> 0 .. MaxFaults],
           Grows, lane \notin {s, None} => Steady,
           lane' = lane \/ (lane = None /\ lane' = s) \/ (lane = s /\ lane' = None),
           lane' = s => v.pc \in InLane,
           BranchGood', \A r \in Run : RunGood(r)', \A t \in Task : TaskGood(t)',
           SupGood(s)'
    PROVE  LaneInv'
<1> USE LandingAssumption DEF LandingAssumption, LaneInv
<1>1. sups'[s] = v /\ \A t \in Supervisor \ {s} : sups'[t] = sups[t]
  BY DEF TypeOK
<1>2. TypeOK'
  BY <1>1 DEF TypeOK
<1>3. ASSUME NEW t \in Supervisor \ {s} PROVE SupGood(t)'
  <2>1. lane = t => lane' = t /\ Steady
    OBVIOUS
  <2> QED BY <1>1, <2>1, StaysGood
<1>4. \A t \in Supervisor : SupGood(t)'
  BY <1>3
<1> QED BY <1>2, <1>4

\* Steps that write no store.
LEMMA StoresSame ==
    ASSUME LaneInv, UNCHANGED stores
    PROVE  /\ Grows /\ Steady /\ BranchGood' /\ StoresTyped'
           /\ \A r \in Run : RunGood(r)' /\ (InRef(r)' <=> InRef(r))
           /\ \A t \in Task : TaskGood(t)'
<1> USE DEF LaneInv, stores
<1>1. BranchGood' /\ \A r : (InRef(r)' <=> InRef(r)) /\ \A n : Landed(r, n)' <=> Landed(r, n)
  BY BranchSame
<1>2. Grows /\ Steady
  BY <1>1 DEF Grows, Steady, TypeOK, StoresTyped, TasksTyped, RunsTyped, LedgerTyped
<1>3. \A r \in Run : RunGood(r)'
  BY <1>1 DEF RunGood
<1>4. \A t \in Task : TaskGood(t)'
  BY <1>1 DEF TaskGood
<1>5. StoresTyped'
  BY DEF StoresTyped, TasksTyped, RunsTyped, LedgerTyped, TypeOK
<1> QED BY <1>1, <1>2, <1>3, <1>4, <1>5

\* A step that writes no store and takes no lock; v is what the supervisor becomes.
LEMMA QuietKept ==
    ASSUME LaneInv, UNCHANGED stores, NEW s \in Supervisor, NEW v \in SupState,
           sups' = [sups EXCEPT ![s] = v],
           lease' \in Supervisor \cup {None},
           spent' = spent
             \/ spent' \in [{"foreign", "operator", "crashes", "lapses"} -> 0 .. MaxFaults],
           lane' = lane \/ (lane = s /\ lane' = None),
           v.pc \notin InLane, sups[s].pc \in InLane => lane' = None,
           \A item \in v.todo : runs[item[1]].status # "absent",
           v.pc \in WithRun => v.run \in Run /\ runs[v.run].status # "absent",
           v.pc \in Found => InRef(v.run),
           v.pc = "classify" /\ v.has => InRef(v.run),
           v.pc \in {"mark", "close"} => tasks[TaskOf[v.run]].status = "done"
    PROVE  LaneInv'
<1>1. /\ Grows /\ Steady /\ BranchGood' /\ StoresTyped'
      /\ \A r \in Run : RunGood(r)' /\ (InRef(r)' <=> InRef(r))
      /\ \A t \in Task : TaskGood(t)'
  BY StoresSame
<1>2. sups'[s] = v
  BY DEF LaneInv, TypeOK
<1>3. SupGood(s)'
  <2>1. \A item \in v.todo : runs'[item[1]].status # "absent"
    BY DEF stores
  <2>2. v.pc \notin AfterSwap /\ v.pc \notin {"verify", "prepare", "cas"}
    BY DEF InLane
  <2> QED BY <1>1, <1>2, <2>1, <2>2 DEF SupGood, stores, WithRun, InLane, AfterSwap, Found
<1>4. lane' = s => v.pc \in InLane
  BY LandingAssumption DEF LandingAssumption, LaneInv, TypeOK
<1> QED BY <1>1, <1>3, <1>4, LaneKept

Quiet(s) ==
    \/ StartLoop(s) \/ Crash(s) \/ ReadGit(s) \/ RetryOrAbandon(s) \/ LedgersDone(s)
    \/ OrphansDone(s) \/ LandOne(s) \/ LoopEnds(s)

\* The locals of a supervisor that has stopped.
LEMMA IdleTyped == Idle \in SupState
  BY DEF Idle, SupState, PC, Tip
\* What a supervisor walks through are runs that were started.
LEMMA ListsTyped ==
    ASSUME LaneInv
    PROVE  /\ Pending \subseteq Run \X Nat /\ Listed \subseteq Run \X Nat
           /\ \A item \in Pending \cup Listed : runs[item[1]].status # "absent"
  BY DEF LaneInv, RunGood, Pending, Listed, TypeOK, StoresTyped, TasksTyped, RunsTyped, LedgerTyped, Tip
LEMMA SupTyped ==
    ASSUME TypeOK, NEW s \in Supervisor
    PROVE  sups[s] \in SupState
  BY DEF TypeOK

LEMMA QuietKeepsLane ==
    ASSUME LaneInv, NEW s \in Supervisor, Quiet(s)
    PROVE  LaneInv'
<1>0. sups[s] \in SupState /\ SupGood(s) /\ TypeOK
  BY SupTyped DEF LaneInv
<1>1. sups[s].pc \in InLane => lane = s
  BY <1>0 DEF SupGood
<1>2. CASE StartLoop(s)
  <2> DEFINE v == [Idle EXCEPT !.pc = "ledgers", !.todo = Pending]
  <2>1. v \in SupState /\ v.pc = "ledgers" /\ v.todo = Pending
    BY ListsTyped DEF Idle, SupState, PC, Tip
  <2> QED BY <1>0, <1>1, <1>2, <2>1, ListsTyped, QuietKept
          DEF StartLoop, At, InLane, AfterSwap, Found, WithRun, TypeOK
<1>3. CASE Crash(s)
  <2>1. spent' \in [{"foreign", "operator", "crashes", "lapses"} -> 0 .. MaxFaults]
    BY <1>0, <1>3, LandingAssumption DEF Crash, Fault, FaultsLeft, TypeOK, LandingAssumption
  <2>2. Idle.pc = "down" /\ Idle.todo = {}
    BY DEF Idle
  <2> QED BY <1>0, <1>1, <1>3, <2>1, <2>2, IdleTyped, QuietKept
          DEF Crash, InLane, AfterSwap, Found, WithRun, TypeOK
<1>4. CASE ReadGit(s)
  <2>1. PICK item \in sups[s].todo :
          sups' = [sups EXCEPT ![s] = [sups[s] EXCEPT !.pc = "classify", !.run = item[1],
                     !.at = Len(ref), !.has = Landed(item[1], item[2]), !.todo = @ \ {item}]]
    BY <1>4 DEF ReadGit
  <2> DEFINE v == [sups[s] EXCEPT !.pc = "classify", !.run = item[1], !.at = Len(ref),
                     !.has = Landed(item[1], item[2]), !.todo = @ \ {item}]
  <2>2. item[1] \in Run /\ item[2] \in Nat /\ Len(ref) \in Nat
    <3>1. item \in Run \X Nat
      BY <1>0 DEF SupState, Tip
    <3>2. Len(ref) \in Nat
      BY <1>0 DEF TypeOK, StoresTyped
    <3> QED BY <3>1, <3>2
  <2>3. Landed(item[1], item[2]) \in BOOLEAN
    BY DEF Landed
  <2>4. Landed(item[1], item[2]) => InRef(item[1])
    BY <2>2 DEF Landed, InRef
  <2>5. v \in SupState
    BY <1>0, <2>2, <2>3 DEF SupState, PC, Tip
  <2>6. /\ v.pc = "classify" /\ v.run = item[1] /\ v.has = Landed(item[1], item[2])
        /\ v.todo \subseteq sups[s].todo
    BY <1>0 DEF SupState
  <2>7. \A i \in sups[s].todo : runs[i[1]].status # "absent"
    BY <1>0 DEF SupGood
  <2> HIDE DEF v
  <2>8. sups' = [sups EXCEPT ![s] = v]
    BY <2>1 DEF v
  <2>9. /\ UNCHANGED stores /\ UNCHANGED <<lease, lane, spent>> /\ sups[s].pc \notin InLane
    BY <1>4 DEF ReadGit, At, InLane, AfterSwap
  <2> QED BY <1>0, <2>2, <2>4, <2>5, <2>6, <2>7, <2>8, <2>9, QuietKept
          DEF InLane, AfterSwap, Found, WithRun, TypeOK
<1>5. CASE RetryOrAbandon(s)
  <2>1. sups[s].pc = "retry" /\ sups[s].run \in Run /\ runs[sups[s].run].status # "absent"
    BY <1>0, <1>5 DEF RetryOrAbandon, At, SupGood, WithRun
  <2>2. \A i \in sups[s].todo : runs[i[1]].status # "absent"
    BY <1>0 DEF SupGood
  <2>3. PICK v \in {[sups[s] EXCEPT !.pc = "land", !.from = "ledgers"],
                    [sups[s] EXCEPT !.pc = "abandon"]} : sups' = [sups EXCEPT ![s] = v]
    BY <1>5 DEF RetryOrAbandon, Goto
  <2>4. /\ v \in SupState /\ v.pc \in {"land", "abandon"} /\ v.run = sups[s].run
        /\ v.todo = sups[s].todo
    BY <1>0 DEF SupState, PC
  <2> QED BY <1>0, <1>5, <2>1, <2>2, <2>3, <2>4, QuietKept
          DEF RetryOrAbandon, InLane, AfterSwap, Found, WithRun, TypeOK
<1>6. CASE LedgersDone(s) \/ OrphansDone(s) \/ LoopEnds(s)
  <2>1. PICK v \in {Idle, [sups[s] EXCEPT !.pc = "orphans", !.todo = Listed],
                    [sups[s] EXCEPT !.pc = "serve"]} : sups' = [sups EXCEPT ![s] = v]
    BY <1>6 DEF LedgersDone, OrphansDone, LoopEnds, Stops, Goto
  <2>2. /\ v \in SupState /\ v.pc \in {"down", "orphans", "serve"}
        /\ v.todo \in {{}, Listed, sups[s].todo}
    <3>1. CASE v = Idle
      BY <3>1, IdleTyped DEF Idle
    <3>2. CASE v = [sups[s] EXCEPT !.pc = "orphans", !.todo = Listed]
      BY <3>2, <1>0, ListsTyped DEF SupState, PC, Tip
    <3>3. CASE v = [sups[s] EXCEPT !.pc = "serve"]
      BY <3>3, <1>0 DEF SupState, PC
    <3> QED BY <2>1, <3>1, <3>2, <3>3
  <2>3. \A i \in v.todo : runs[i[1]].status # "absent"
    BY <1>0, <2>2, ListsTyped DEF SupGood
  <2>4. /\ UNCHANGED stores /\ sups[s].pc \notin InLane /\ spent' = spent
        /\ lease' \in {lease, None} /\ lane' \in {lane, None} /\ (lane' # lane => lane = s)
    BY <1>6 DEF LedgersDone, OrphansDone, LoopEnds, Stops, At, InLane, AfterSwap
  <2> QED BY <1>0, <2>1, <2>2, <2>3, <2>4, QuietKept
          DEF InLane, AfterSwap, Found, WithRun, TypeOK
<1>7. CASE LandOne(s)
  <2>1. PICK r \in sups[s].wave :
          /\ runs[r].status = "candidate_ready"
          /\ sups' = [sups EXCEPT ![s] = [sups[s] EXCEPT !.pc = "land", !.from = "serve", !.run = r,
                                                   !.wave = @ \ {r}]]
    BY <1>7 DEF LandOne
  <2> DEFINE v == [sups[s] EXCEPT !.pc = "land", !.from = "serve", !.run = r,
                                  !.wave = @ \ {r}]
  <2>2. /\ r \in Run /\ v \in SupState /\ v.pc = "land" /\ v.run = r
        /\ v.todo = sups[s].todo
    BY <1>0 DEF SupState, PC
  <2>3. \A i \in sups[s].todo : runs[i[1]].status # "absent"
    BY <1>0 DEF SupGood
  <2> HIDE DEF v
  <2>4. sups' = [sups EXCEPT ![s] = v]
    BY <2>1 DEF v
  <2>5. /\ UNCHANGED stores /\ UNCHANGED <<lease, lane, spent>> /\ sups[s].pc \notin InLane
    BY <1>7 DEF LandOne, At, InLane, AfterSwap
  <2>6. v.run \in Run /\ runs[v.run].status # "absent"
    BY <2>1, <2>2
  <2> QED BY <1>0, <2>2, <2>3, <2>4, <2>5, <2>6, QuietKept
          DEF InLane, AfterSwap, Found, WithRun, TypeOK
<1> QED BY <1>2, <1>3, <1>4, <1>5, <1>6, <1>7 DEF Quiet

-----------------------------------------------------------------------------
(* Steps that write tasks, runs and landings, and leave the branch and the  *)
(* identity of a landing alone.                                             *)
TaskWrite(t) ==
    \/ tasks'[t] = tasks[t]
    \/ /\ tasks[t].status # "done"
       /\ tasks'[t].mode = "autodev_reviewed" =>
            tasks'[t].status = "done" /\ \E r \in Run : TaskOf[r] = t /\ InRef(r)
RunWrite(r) ==
    /\ runs'[r].base = runs[r].base /\ runs'[r].head = runs[r].head
    /\ runs[r].status = "absent" <=> runs'[r].status = "absent"
LedgerWrite(r) ==
    /\ ledger'[r].expected = ledger[r].expected /\ ledger'[r].cand = ledger[r].cand
    /\ ledger[r].state = "absent" <=> ledger'[r].state = "absent"
    /\ ledger'[r].state # ledger[r].state =>
         /\ ledger'[r].state \in {"integrated", "queue_finalized"} => InRef(r)
         /\ ledger'[r].state = "queue_finalized" => tasks[TaskOf[r]].status = "done"
Writes ==
    /\ \A t \in Task : TaskWrite(t)
    /\ \A r \in Run : RunWrite(r) /\ LedgerWrite(r)
    /\ ref' = ref /\ TasksTyped' /\ RunsTyped' /\ LedgerTyped'

LEMMA WritesKeep ==
    ASSUME LaneInv, Writes
    PROVE  /\ Grows /\ Steady /\ BranchGood' /\ StoresTyped'
           /\ \A r \in Run : RunGood(r)' /\ (InRef(r)' <=> InRef(r))
           /\ \A t \in Task : TaskGood(t)'
<1>1. /\ \A r : InRef(r)' <=> InRef(r)
      /\ \A r, n : Landed(r, n)' <=> Landed(r, n)
      /\ BranchGood'
  BY BranchSame DEF LaneInv, Writes
<1>2. /\ \A r \in Run : TaskOf[r] \in Task
      /\ ref \in Seq(Run \cup {None}) /\ Len(ref) \in Nat /\ Len(ref') = Len(ref)
      /\ \A r \in Run : RunWrite(r) /\ LedgerWrite(r) /\ RunGood(r)
      /\ \A t \in Task : TaskWrite(t) /\ TaskGood(t)
  BY LandingAssumption DEF LandingAssumption, LaneInv, TypeOK, StoresTyped, Writes
<1>3. \A t \in Task : tasks[t].status = "done" => tasks'[t].status = "done"
  BY <1>2 DEF TaskWrite
<1>4. Grows /\ Steady
  BY <1>1, <1>2, <1>3 DEF Grows, Steady, RunWrite, LedgerWrite
<1>5. ASSUME NEW r \in Run PROVE RunGood(r)'
  BY <1>1, <1>2, <1>3 DEF RunGood, RunWrite, LedgerWrite
<1>6. ASSUME NEW t \in Task PROVE TaskGood(t)'
  <2>1. CASE tasks'[t] = tasks[t]
    BY <1>1, <1>2, <2>1 DEF TaskGood
  <2>2. CASE tasks'[t] # tasks[t]
    BY <1>1, <1>2, <2>2 DEF TaskGood, TaskWrite
  <2> QED BY <2>1, <2>2
<1>7. StoresTyped'
  BY <1>2 DEF Writes, StoresTyped
<1> QED BY <1>1, <1>4, <1>5, <1>6, <1>7

\* v is what the supervisor becomes.
LEMMA WroteKept ==
    ASSUME LaneInv, Writes, NEW s \in Supervisor, NEW v \in SupState,
           sups' = [sups EXCEPT ![s] = v], spent' = spent,
           lease' \in Supervisor \cup {None},
           lane' = lane \/ (lane = s /\ lane' = None),
           v.pc # "cas", v.pc \in InLane <=> (sups[s].pc \in InLane /\ lane' = lane),
           v.todo \subseteq sups[s].todo, v.pc \in InLane => v.at = sups[s].at,
           v.pc \in WithRun =>
             v.run \in Run /\ runs[v.run].status # "absent",
           v.pc \in {"verify", "prepare"} => runs[v.run].head = v.at,
           v.pc \in AfterSwap \cup Found => InRef(v.run),
           v.pc = "classify" /\ v.has => InRef(v.run),
           v.pc \in {"mark", "close", "landed", "finalized"} =>
             tasks'[TaskOf[v.run]].status = "done"
    PROVE  LaneInv'
<1>1. /\ Grows /\ Steady /\ BranchGood' /\ StoresTyped'
      /\ \A r \in Run : RunGood(r)' /\ (InRef(r)' <=> InRef(r))
      /\ \A t \in Task : TaskGood(t)'
  BY WritesKeep
<1>2. sups'[s] = v
  BY DEF LaneInv, TypeOK
<1>3. SupGood(s)'
  <2>1. \A item \in v.todo : item[1] \in Run /\ runs[item[1]].status # "absent"
    BY DEF LaneInv, SupGood, TypeOK, SupState
  <2>2. \A r \in Run : RunWrite(r)
    BY DEF Writes
  <2>3. \A item \in v.todo : runs'[item[1]].status # "absent"
    BY <2>1, <2>2 DEF RunWrite
  <2>4. v.pc \in InLane => lane' = s /\ v.at <= Len(ref')
    BY DEF LaneInv, SupGood, Writes
  <2>5. v.pc \in WithRun => v.run \in Run /\ runs'[v.run].status # "absent"
    BY <2>2 DEF RunWrite
  <2>6. v.pc \in {"verify", "prepare"} => runs'[v.run].head = v.at
    BY <2>2 DEF RunWrite, WithRun, InLane
  <2>7. v.pc \in AfterSwap \cup Found \/ (v.pc = "classify" /\ v.has) => InRef(v.run)'
    BY <1>1, <2>5 DEF WithRun, InLane
  <2> QED BY <1>2, <2>3, <2>4, <2>5, <2>6, <2>7 DEF SupGood
<1>4. lane' = s => v.pc \in InLane
  BY LandingAssumption DEF LandingAssumption, LaneInv, TypeOK
<1> QED BY <1>1, <1>3, <1>4, LaneKept

\* What the helpers of the actions write.
LEMMA UnchangedWrites ==
    ASSUME TypeOK
    PROVE  /\ UNCHANGED tasks => TasksTyped' /\ \A t \in Task : TaskWrite(t)
           /\ UNCHANGED runs => RunsTyped' /\ \A r \in Run : RunWrite(r)
           /\ UNCHANGED ledger => LedgerTyped' /\ \A r \in Run : LedgerWrite(r)
  BY DEF TypeOK, StoresTyped, TasksTyped, RunsTyped, LedgerTyped, TaskWrite, RunWrite, LedgerWrite

LEMMA EndsWrites ==
    ASSUME TypeOK, NEW t \in Task, NEW status \in {"pending", "blocked", "done"},
           NEW mode \in {"none", "manual_reconcile", "autodev_reviewed"},
           Ends(t, status, mode), tasks[t].status # "done",
           mode = "autodev_reviewed" =>
             status = "done" /\ \E r \in Run : TaskOf[r] = t /\ InRef(r)
    PROVE  /\ TasksTyped' /\ \A u \in Task : TaskWrite(u)
           /\ tasks'[t].status = status /\ tasks'[t].holder = None
           /\ \A u \in Task \ {t} : tasks'[u] = tasks[u]
<1>1. tasks' = [tasks EXCEPT ![t] = [status |-> status, holder |-> None, mode |-> mode]]
  BY DEF Ends
<1>2. /\ tasks'[t] = [status |-> status, holder |-> None, mode |-> mode]
      /\ \A u \in Task \ {t} : tasks'[u] = tasks[u]
  BY <1>1 DEF TypeOK, StoresTyped, TasksTyped
<1>3. TasksTyped'
  BY <1>1, <1>2 DEF TypeOK, StoresTyped, TasksTyped, TaskStatus
<1> QED BY <1>2, <1>3 DEF TaskWrite

LEMMA FinishWrites ==
    ASSUME TypeOK, NEW r \in Run, NEW status \in {"pending", "blocked"}, FinishClaim(r, status)
    PROVE  /\ TasksTyped' /\ \A t \in Task : TaskWrite(t)
           /\ ~ClaimLive(r)'
           /\ \A q \in Run : ClaimLive(q)' => ClaimLive(q)
           /\ \A t \in Task : tasks[t].status # "in_progress" => tasks'[t] = tasks[t]
           /\ \A t \in Task : tasks'[t] # tasks[t] => t = TaskOf[r] /\ ClaimLive(r) /\ tasks'[t].status = status
<1>0. TaskOf[r] \in Task /\ \A q \in Run : TaskOf[q] \in Task
  BY LandingAssumption DEF LandingAssumption
<1>1. CASE ClaimLive(r)
  <2>1. Ends(TaskOf[r], status, "none") /\ tasks[TaskOf[r]].status = "in_progress"
    BY <1>1 DEF FinishClaim, ClaimLive
  <2>2. /\ TasksTyped' /\ \A u \in Task : TaskWrite(u)
        /\ tasks'[TaskOf[r]].status = status
        /\ \A u \in Task \ {TaskOf[r]} : tasks'[u] = tasks[u]
    BY <1>0, <2>1, EndsWrites
  <2> QED BY <1>0, <1>1, <2>1, <2>2 DEF ClaimLive
<1>2. CASE ~ClaimLive(r)
  BY <1>2, UnchangedWrites DEF FinishClaim, ClaimLive
<1> QED BY <1>1, <1>2

LEMMA BecomesWrites ==
    ASSUME TypeOK, NEW r \in Run, runs[r].status # "absent",
           NEW status \in RunState \ {"absent"}, Becomes(r, status)
    PROVE  /\ RunsTyped' /\ \A q \in Run : RunWrite(q)
           /\ runs'[r].status = status
           /\ \A q \in Run \ {r} : runs'[q] = runs[q]
  BY DEF TypeOK, StoresTyped, RunsTyped, RunWrite, Becomes

LEMMA LedgerWrites ==
    ASSUME TypeOK, NEW r \in Run, ledger[r].state # "absent",
           NEW state \in {"integrated", "queue_finalized", "abandoned"},
           ledger' = [ledger EXCEPT ![r].state = state],
           state \in {"integrated", "queue_finalized"} => InRef(r),
           state = "queue_finalized" => tasks[TaskOf[r]].status = "done"
    PROVE  /\ LedgerTyped' /\ \A q \in Run : LedgerWrite(q)
           /\ ledger'[r].state = state
           /\ \A q \in Run \ {r} : ledger'[q] = ledger[q]
  BY DEF TypeOK, StoresTyped, LedgerTyped, LedgerWrite, LedgerState

LEMMA PushWrites ==
    ASSUME TypeOK, NEW r \in Run, RecordPushed(r)
    PROVE  /\ LedgerTyped' /\ \A q \in Run : LedgerWrite(q)
           /\ \A q \in Run : ledger'[q].state = ledger[q].state
  BY DEF TypeOK, StoresTyped, LedgerTyped, LedgerWrite, RecordPushed

-----------------------------------------------------------------------------
(* The worker, the operator, other committers, the lease.                   *)
Outside ==
    \/ LeaseExpires \/ ForeignCommit
    \/ \E r \in Run : WorkerFinishes(r)
    \/ \E t \in Task : Operator(t)

\* A step that no supervisor takes.
LEMMA OutsideKept ==
    ASSUME LaneInv, UNCHANGED <<lane, sups>>, Grows, Steady, lease' \in Supervisor \cup {None},
           spent' = spent
             \/ spent' \in [{"foreign", "operator", "crashes", "lapses"} -> 0 .. MaxFaults],
           StoresTyped', BranchGood', \A r \in Run : RunGood(r)', \A t \in Task : TaskGood(t)'
    PROVE  LaneInv'
<1>1. TypeOK'
  BY DEF LaneInv, TypeOK
<1>2. \A s \in Supervisor : SupGood(s)'
  BY StaysGood DEF LaneInv
<1> QED BY <1>1, <1>2 DEF LaneInv

LEMMA FaultTyped ==
    ASSUME TypeOK, FaultsLeft, NEW kind \in {"foreign", "operator", "crashes", "lapses"},
           Fault(kind)
    PROVE  /\ spent' \in [{"foreign", "operator", "crashes", "lapses"} -> 0 .. MaxFaults]
           /\ spent'[kind] = spent[kind] + 1
  BY LandingAssumption DEF TypeOK, FaultsLeft, Fault, LandingAssumption

LEMMA OutsideKeepsLane ==
    ASSUME LaneInv, Outside
    PROVE  LaneInv'
<1>0. TypeOK
  BY DEF LaneInv
<1>1. CASE LeaseExpires
  <2>1. UNCHANGED <<lane, sups>> /\ UNCHANGED stores /\ lease' = None
    BY <1>1 DEF LeaseExpires
  <2>2. spent' = spent
          \/ spent' \in [{"foreign", "operator", "crashes", "lapses"} -> 0 .. MaxFaults]
    BY <1>0, <1>1, FaultTyped DEF LeaseExpires
  <2> QED BY <2>1, <2>2, StoresSame, OutsideKept
<1>2. CASE ForeignCommit
  <2>1. /\ UNCHANGED <<lane, sups, tasks, runs, ledger, lease>> /\ ref' = Append(ref, None)
        /\ spent' \in [{"foreign", "operator", "crashes", "lapses"} -> 0 .. MaxFaults]
    BY <1>0, <1>2, FaultTyped DEF ForeignCommit
  <2>2. /\ ref \in Seq(Run \cup {None}) /\ Len(ref) \in Nat /\ Len(ref') = Len(ref) + 1
        /\ ref' \in Seq(Run \cup {None})
        /\ \A i \in 1 .. Len(ref) : ref'[i] = ref[i]
        /\ ref'[Len(ref) + 1] = None
    BY <1>0, <2>1 DEF TypeOK, StoresTyped
  <2>3. \A r \in Run : InRef(r)' <=> InRef(r)
    BY <2>2, LandingAssumption DEF InRef, LandingAssumption
  <2>4. \A r \in Run : \A n \in Nat : Landed(r, n) => Landed(r, n)'
    BY <2>2 DEF Landed
  <2>5. BranchGood'
    BY <2>2 DEF LaneInv, BranchGood
  <2>6. Grows /\ Steady
    BY <2>1, <2>2, <2>3 DEF Grows, Steady
  <2>7. ASSUME NEW r \in Run PROVE RunGood(r)'
    <3>1. ledger[r].cand \in Nat /\ runs[r].head \in Nat
      BY <1>0 DEF TypeOK, StoresTyped, LedgerTyped, RunsTyped, Tip
    <3> QED BY <2>1, <2>2, <2>3, <2>4, <3>1 DEF LaneInv, RunGood
  <2>8. ASSUME NEW t \in Task PROVE TaskGood(t)'
    BY <2>1, <2>3 DEF LaneInv, TaskGood
  <2>9. StoresTyped'
    BY <1>0, <2>1, <2>2 DEF TypeOK, StoresTyped, TasksTyped, RunsTyped, LedgerTyped
  <2>10. lease' \in Supervisor \cup {None}
    BY <1>0, <2>1 DEF TypeOK
  <2> QED BY <2>1, <2>5, <2>6, <2>7, <2>8, <2>9, <2>10, OutsideKept
<1>3. ASSUME NEW r \in Run, WorkerFinishes(r) PROVE LaneInv'
  <2>1. /\ TasksTyped' /\ \A t \in Task : TaskWrite(t)
        /\ RunsTyped' /\ \A q \in Run : RunWrite(q)
    <3>1. runs[r].status # "absent"
      BY <1>3 DEF WorkerFinishes
    <3>2. PICK status \in {"candidate_ready", "failed"} : Becomes(r, status)
      BY <1>3 DEF WorkerFinishes
    <3>3. TasksTyped' /\ \A t \in Task : TaskWrite(t)
      BY <1>0, <1>3, FinishWrites, UnchangedWrites DEF WorkerFinishes
    <3>4. status \in RunState \ {"absent"}
      BY DEF RunState
    <3> QED BY <1>0, <3>1, <3>2, <3>3, <3>4, BecomesWrites
  <2>2. Writes
    BY <1>0, <1>3, <2>1, UnchangedWrites DEF WorkerFinishes, Writes
  <2> QED BY <1>0, <1>3, <2>2, WritesKeep, OutsideKept DEF WorkerFinishes, TypeOK
<1>4. ASSUME NEW t \in Task, Operator(t) PROVE LaneInv'
  <2>1. TasksTyped' /\ \A u \in Task : TaskWrite(u)
    BY <1>0, <1>4, EndsWrites DEF Operator
  <2>2. Writes
    BY <1>0, <1>4, <2>1, UnchangedWrites DEF Operator, Writes
  <2>3. spent' \in [{"foreign", "operator", "crashes", "lapses"} -> 0 .. MaxFaults]
    BY <1>0, <1>4, FaultTyped DEF Operator
  <2> QED BY <1>0, <1>4, <2>2, <2>3, WritesKeep, OutsideKept DEF Operator, TypeOK
<1> QED BY <1>1, <1>2, <1>3, <1>4 DEF Outside

-----------------------------------------------------------------------------
(* The supervisor.  It goes on with its candidate, or leaves it.            *)
LEMMA GotoIs ==
    ASSUME TypeOK, NEW s \in Supervisor, NEW pc \in PC, Goto(s, pc)
    PROVE  \E v \in SupState :
             /\ sups' = [sups EXCEPT ![s] = v]
             /\ v.pc = pc /\ v.run = sups[s].run /\ v.at = sups[s].at /\ v.todo = sups[s].todo
             /\ v.from = sups[s].from /\ v.wave = sups[s].wave /\ v.failed = sups[s].failed
<1> DEFINE v == [sups[s] EXCEPT !.pc = pc]
<1>1. sups[s] \in SupState
  BY DEF TypeOK
<1>2. /\ v \in SupState /\ v.pc = pc /\ v.run = sups[s].run /\ v.at = sups[s].at
      /\ v.todo = sups[s].todo /\ v.from = sups[s].from /\ v.wave = sups[s].wave
      /\ v.failed = sups[s].failed
  BY <1>1 DEF SupState
<1>3. sups' = [sups EXCEPT ![s] = v]
  BY DEF Goto
<1> QED BY <1>2, <1>3

Away == {"down", "ledgers", "orphans", "serve"}

LEMMA AwayIs ==
    ASSUME TypeOK, NEW s \in Supervisor,
           \/ \E f \in BOOLEAN : NextItem(s, f) \/ NextLedger(s, f)
           \/ sups' = [sups EXCEPT ![s] = Idle]
    PROVE  \E v \in SupState :
             /\ sups' = [sups EXCEPT ![s] = v]
             /\ v.pc \in Away /\ v.todo \subseteq sups[s].todo
<1>1. sups[s] \in SupState /\ sups[s].from \in {"ledgers", "orphans", "serve"}
  BY DEF TypeOK, SupState
<1>2. ASSUME NEW f \in BOOLEAN, NextItem(s, f) \/ NextLedger(s, f)
      PROVE  \E v \in SupState :
               /\ sups' = [sups EXCEPT ![s] = v]
               /\ v.pc \in Away /\ v.todo \subseteq sups[s].todo
  <2>1. PICK pc \in {"ledgers", "orphans", "serve"} :
          sups' = [sups EXCEPT ![s].pc = pc, ![s].run = None, ![s].failed = @ \/ f]
    BY <1>1, <1>2 DEF NextItem, NextLedger
  <2> DEFINE v == [sups[s] EXCEPT !.pc = pc, !.run = None, !.failed = @ \/ f]
  <2>2. v \in SupState /\ v.pc = pc /\ v.todo = sups[s].todo
    BY <1>1 DEF SupState, PC
  <2>3. sups' = [sups EXCEPT ![s] = v]
    BY <2>1
  <2> QED BY <2>2, <2>3 DEF Away
<1>3. CASE sups' = [sups EXCEPT ![s] = Idle]
  BY <1>3, IdleTyped DEF Idle, Away
<1> QED BY <1>2, <1>3

LEMMA AwayKept ==
    ASSUME LaneInv, Writes, NEW s \in Supervisor,
           \/ \E f \in BOOLEAN : NextItem(s, f) \/ NextLedger(s, f)
           \/ sups' = [sups EXCEPT ![s] = Idle],
           spent' = spent, lease' \in {lease, None},
           \/ lane' = lane /\ sups[s].pc \notin InLane
           \/ LeaveLane(s)
    PROVE  LaneInv'
<1>1. PICK v \in SupState :
        sups' = [sups EXCEPT ![s] = v] /\ v.pc \in Away /\ v.todo \subseteq sups[s].todo
  BY AwayIs DEF LaneInv
<1>2. /\ v.pc \notin WithRun /\ v.pc \notin InLane /\ v.pc \notin AfterSwap /\ v.pc \notin Found
      /\ v.pc # "cas" /\ v.pc \notin {"classify", "mark", "close", "landed", "finalized"}
      /\ v.pc \notin {"verify", "prepare"}
  BY <1>1 DEF Away, WithRun, InLane, AfterSwap, Found
<1>3. /\ sups[s].pc \in InLane => lane = s
      /\ lane # None => sups[lane].pc \in InLane
      /\ lease' \in Supervisor \cup {None} /\ None \notin Supervisor
  BY LandingAssumption DEF LandingAssumption, LaneInv, TypeOK, SupGood
<1>4. /\ lane' = lane \/ (lane = s /\ lane' = None)
      /\ ~(sups[s].pc \in InLane /\ lane' = lane)
  BY <1>3 DEF LeaveLane
<1> QED BY <1>1, <1>2, <1>3, <1>4, WroteKept

LEMMA OnKept ==
    ASSUME LaneInv, Writes, NEW s \in Supervisor, NEW pc \in WithRun \ {"classify", "cas"},
           Goto(s, pc), UNCHANGED <<lease, lane, spent>>, sups[s].pc \in WithRun,
           pc \in InLane <=> sups[s].pc \in InLane,
           pc \in {"verify", "prepare"} => runs[sups[s].run].head = sups[s].at,
           pc \in AfterSwap \cup Found => InRef(sups[s].run),
           pc \in {"mark", "close", "landed", "finalized"} =>
             tasks'[TaskOf[sups[s].run]].status = "done"
    PROVE  LaneInv'
<1>1. pc \in PC
  BY DEF PC, WithRun
<1>2. PICK v \in SupState :
        /\ sups' = [sups EXCEPT ![s] = v] /\ v.pc = pc /\ v.run = sups[s].run
        /\ v.at = sups[s].at /\ v.todo = sups[s].todo
  BY <1>1, GotoIs DEF LaneInv
<1>3. sups[s].run \in Run /\ runs[sups[s].run].status # "absent" /\ lease \in Supervisor \cup {None}
  BY DEF LaneInv, SupGood, TypeOK
<1> QED BY <1>2, <1>3, WroteKept

Reconciling(s) ==
    \/ Classify(s) \/ Abandon(s) \/ PushAgain(s) \/ FinalizeQueue(s) \/ MarkReconciled(s)
    \/ CloseLedger(s) \/ Orphan(s)

LEMMA ReconcilingKeepsLane ==
    ASSUME LaneInv, NEW s \in Supervisor, Reconciling(s)
    PROVE  LaneInv'
<1> DEFINE r == sups[s].run
<1>0. /\ TypeOK /\ sups[s] \in SupState /\ SupGood(s) /\ UNCHANGED <<ref, lease, lane, spent>>
      /\ sups[s].pc \in {"classify", "abandon", "orphans"} \cup Found
      /\ sups[s].pc \notin InLane
      /\ sups[s].pc # "orphans" =>
           /\ sups[s].pc \in WithRun /\ r \in Run /\ runs[r].status # "absent" /\ RunGood(r)
           /\ TaskOf[r] \in Task
  BY SupTyped, LandingAssumption
     DEF LaneInv, Reconciling, Classify, Abandon, PushAgain, FinalizeQueue, MarkReconciled,
         CloseLedger, Orphan, At, InLane, AfterSwap, Found, SupGood, WithRun, LandingAssumption
<1>U. /\ UNCHANGED tasks => TasksTyped' /\ \A t \in Task : TaskWrite(t)
      /\ UNCHANGED runs => RunsTyped' /\ \A q \in Run : RunWrite(q)
      /\ UNCHANGED ledger => LedgerTyped' /\ \A q \in Run : LedgerWrite(q)
  BY <1>0, UnchangedWrites
<1>1. CASE Classify(s)
  <2>1. sups[s].pc = "classify" /\ UNCHANGED <<tasks, runs>> /\ (sups[s].has => InRef(r))
    BY <1>0, <1>1 DEF Classify, At, SupGood
  <2>2. CASE ledger[r].state = "prepared" /\ sups[s].at = ledger[r].expected
    <3>1. UNCHANGED ledger /\ sups' = [sups EXCEPT ![s].pc = "land", ![s].from = "ledgers"]
      BY <1>1, <2>2 DEF Classify
    <3> DEFINE v == [sups[s] EXCEPT !.pc = "land", !.from = "ledgers"]
    <3>2. v \in SupState /\ v.pc = "land" /\ v.run = r /\ v.todo = sups[s].todo
      BY <1>0 DEF SupState, PC
    <3>3. sups' = [sups EXCEPT ![s] = v]
      BY <3>1
    <3>4. \A i \in sups[s].todo : runs[i[1]].status # "absent"
      BY <1>0 DEF SupGood
    <3>5. UNCHANGED stores /\ r \in Run /\ runs[r].status # "absent" /\ lease' \in Supervisor \cup {None}
      BY <1>0, <2>1, <3>1 DEF stores, TypeOK
    <3> HIDE DEF v
    <3> QED BY <1>0, <3>2, <3>3, <3>4, <3>5, QuietKept
            DEF InLane, AfterSwap, Found, WithRun
  <2>3. CASE ledger[r].state = "prepared" /\ sups[s].at # ledger[r].expected /\ ~sups[s].has
    <3>1. UNCHANGED ledger /\ Goto(s, "retry")
      BY <1>1, <2>3 DEF Classify
    <3>2. Writes
      BY <1>0, <1>U, <2>1, <3>1 DEF Writes
    <3> QED BY <1>0, <2>1, <3>1, <3>2, OnKept DEF WithRun, InLane, AfterSwap, Found
  <2>4. CASE ledger[r].state = "prepared" /\ sups[s].at # ledger[r].expected /\ sups[s].has
    <3>1. ledger' = [ledger EXCEPT ![r].state = "integrated"] /\ Goto(s, "push")
      BY <1>1, <2>4 DEF Classify
    <3>2. Writes
      BY <1>0, <1>U, <2>1, <2>4, <3>1, LedgerWrites DEF Writes
    <3> QED BY <1>0, <2>1, <2>4, <3>1, <3>2, OnKept DEF WithRun, InLane, AfterSwap, Found
  <2>5. CASE ledger[r].state # "prepared"
    <3>1. /\ UNCHANGED ledger
          /\ IF sups[s].has \/ ledger[r].state = "queue_finalized"
             THEN Goto(s, "push") ELSE NextLedger(s, TRUE)
      BY <1>1, <2>5 DEF Classify
    <3>2. Writes
      BY <1>0, <1>U, <2>1, <3>1 DEF Writes
    <3>3. CASE sups[s].has \/ ledger[r].state = "queue_finalized"
      <4>1. InRef(r)
        BY <1>0, <2>1, <3>3 DEF RunGood
      <4> QED BY <1>0, <2>1, <3>1, <3>2, <3>3, <4>1, OnKept DEF WithRun, InLane, AfterSwap, Found
    <3>4. CASE ~(sups[s].has \/ ledger[r].state = "queue_finalized")
      BY <1>0, <3>1, <3>2, <3>4, AwayKept
    <3> QED BY <3>3, <3>4
  <2> QED BY <2>2, <2>3, <2>4, <2>5
<1>2. CASE Abandon(s)
  <2>1. sups[s].pc = "abandon" /\ UNCHANGED tasks /\ (NextLedger(s, FALSE) \/ NextLedger(s, TRUE))
    BY <1>2 DEF Abandon, At
  <2>2. CASE UNCHANGED <<ledger, runs>>
    <3>1. Writes
      BY <1>0, <1>U, <2>1, <2>2 DEF Writes
    <3> QED BY <1>0, <2>1, <3>1, AwayKept
  <2>3. CASE /\ ledger' = [ledger EXCEPT ![r].state = "abandoned"] /\ Becomes(r, "cas_failed")
             /\ ledger[r].state = "prepared"
    <3>1. "cas_failed" \in RunState \ {"absent"}
      BY DEF RunState
    <3>2. LedgerTyped' /\ \A q \in Run : LedgerWrite(q)
      BY <1>0, <2>1, <2>3, LedgerWrites
    <3>3. RunsTyped' /\ \A q \in Run : RunWrite(q)
      BY <1>0, <2>1, <2>3, <3>1, BecomesWrites
    <3>4. Writes
      BY <1>0, <1>U, <2>1, <3>2, <3>3 DEF Writes
    <3> QED BY <1>0, <2>1, <3>4, AwayKept
  <2> QED BY <1>2, <2>2, <2>3 DEF Abandon
<1>3. CASE PushAgain(s)
  <2>1. /\ sups[s].pc = "push" /\ UNCHANGED <<tasks, runs>> /\ InRef(r)
        /\ Goto(s, "finalize") \/ NextLedger(s, TRUE)
        /\ UNCHANGED ledger \/ RecordPushed(r)
    BY <1>0, <1>3 DEF PushAgain, At, SupGood, Found
  <2>2. Writes
    BY <1>0, <1>U, <2>1, PushWrites DEF Writes, Found
  <2> QED BY <1>0, <2>1, <2>2, OnKept, AwayKept DEF WithRun, InLane, AfterSwap, Found
<1>4. CASE FinalizeQueue(s)
  <2>1. sups[s].pc = "finalize" /\ UNCHANGED <<runs, ledger>> /\ InRef(r)
    BY <1>0, <1>4 DEF FinalizeQueue, At, SupGood, Found
  <2>2. \/ tasks[TaskOf[r]].status = "done" /\ Goto(s, "mark") /\ UNCHANGED tasks
        \/ ClaimLive(r) /\ Ends(TaskOf[r], "done", "autodev_reviewed") /\ Goto(s, "mark")
        \/ NextLedger(s, TRUE) /\ UNCHANGED tasks
    BY <1>4 DEF FinalizeQueue
  <2>3. TasksTyped' /\ \A t \in Task : TaskWrite(t)
    BY <1>0, <1>U, <2>1, <2>2, EndsWrites DEF ClaimLive, Found
  <2>4. Goto(s, "mark") => tasks'[TaskOf[r]].status = "done" \/ NextLedger(s, TRUE)
    BY <1>0, <2>1, <2>2, EndsWrites DEF ClaimLive, Found
  <2>5. Writes
    BY <1>0, <1>U, <2>1, <2>3 DEF Writes
  <2> QED BY <1>0, <2>1, <2>2, <2>4, <2>5, OnKept, AwayKept DEF WithRun, InLane, AfterSwap, Found
<1>5. CASE MarkReconciled(s)
  <2>1. /\ sups[s].pc = "mark" /\ UNCHANGED <<tasks, ledger>> /\ InRef(r)
        /\ tasks[TaskOf[r]].status = "done" /\ Becomes(r, "done") /\ Goto(s, "close")
    BY <1>0, <1>5 DEF MarkReconciled, At, SupGood, Found
  <2>2. "done" \in RunState \ {"absent"}
    BY DEF RunState
  <2>3. Writes
    BY <1>0, <1>U, <2>1, <2>2, BecomesWrites DEF Writes, Found
  <2> QED BY <1>0, <2>1, <2>3, OnKept DEF WithRun, InLane, AfterSwap, Found
<1>6. CASE CloseLedger(s)
  <2>1. /\ sups[s].pc = "close" /\ UNCHANGED <<tasks, runs>> /\ InRef(r)
        /\ tasks[TaskOf[r]].status = "done"
        /\ NextLedger(s, FALSE) \/ NextLedger(s, TRUE)
        /\ \/ UNCHANGED ledger
           \/ /\ ledger[r].state = "integrated"
              /\ ledger' = [ledger EXCEPT ![r].state = "queue_finalized"]
    BY <1>0, <1>6 DEF CloseLedger, At, SupGood, Found
  <2>2. Writes
    BY <1>0, <1>U, <2>1, LedgerWrites DEF Writes, Found
  <2> QED BY <1>0, <2>1, <2>2, AwayKept
<1>7. CASE Orphan(s)
  <2>1. PICK item \in sups[s].todo :
          LET q == item[1]
              next == [sups[s] EXCEPT !.todo = @ \ {item}]
          IN  /\ sups' = [sups EXCEPT ![s] =
                    IF runs[q].status # "candidate_ready" \/ tasks[TaskOf[q]].status = "done"
                    THEN next
                    ELSE IF ClaimLive(q)
                    THEN [next EXCEPT !.pc = "land", !.from = "orphans", !.run = q]
                    ELSE [next EXCEPT !.failed = TRUE]]
              /\ IF runs[q].status = "candidate_ready" /\ tasks[TaskOf[q]].status = "done"
                 THEN Becomes(q, "done") ELSE UNCHANGED runs
    BY <1>7 DEF Orphan
  <2> DEFINE q == item[1]
             next == [sups[s] EXCEPT !.todo = @ \ {item}]
  <2>2. q \in Run /\ runs[q].status # "absent" /\ sups[s].pc = "orphans" /\ UNCHANGED <<tasks, ledger>>
    BY <1>0, <1>7 DEF Orphan, At, SupState, SupGood
  <2>3. PICK v \in {next, [next EXCEPT !.pc = "land", !.from = "orphans", !.run = q],
                    [next EXCEPT !.failed = TRUE]} : sups' = [sups EXCEPT ![s] = v]
    BY <2>1
  <2>4. next \in SupState /\ next.pc = "orphans" /\ next.todo \subseteq sups[s].todo
    BY <1>0, <2>2 DEF SupState
  <2>5. v \in SupState /\ v.todo \subseteq sups[s].todo /\ v.pc \in {"orphans", "land"}
        /\ (v.pc = "land" => v.run = q)
    <3> HIDE DEF next
    <3> QED BY <2>2, <2>3, <2>4 DEF SupState, PC
  <2>6. "done" \in RunState \ {"absent"}
    BY DEF RunState
  <2>7. RunsTyped' /\ \A p \in Run : RunWrite(p)
    BY <1>0, <1>U, <2>1, <2>2, <2>6, BecomesWrites
  <2>8. Writes
    BY <1>0, <1>U, <2>2, <2>7 DEF Writes
  <2> HIDE DEF next
  <2> QED BY <1>0, <2>2, <2>3, <2>5, <2>8, WroteKept
          DEF InLane, AfterSwap, Found, WithRun, TypeOK
<1> QED BY <1>1, <1>2, <1>3, <1>4, <1>5, <1>6, <1>7 DEF Reconciling

(* Serving the queue.                                                       *)
LEMMA ServingKeepsLane ==
    ASSUME LaneInv, NEW s \in Supervisor, ReadResult(s) \/ CancelCandidate(s)
    PROVE  LaneInv'
<1>0. /\ TypeOK /\ sups[s] \in SupState /\ sups[s].pc = "serve" /\ lease \in Supervisor \cup {None}
      /\ UNCHANGED <<ledger, ref, lease, lane, spent>>
  BY SupTyped DEF LaneInv, TypeOK, ReadResult, CancelCandidate, At
<1>U. /\ UNCHANGED tasks => TasksTyped' /\ \A t \in Task : TaskWrite(t)
      /\ UNCHANGED runs => RunsTyped' /\ \A q \in Run : RunWrite(q)
      /\ UNCHANGED ledger => LedgerTyped' /\ \A q \in Run : LedgerWrite(q)
  BY <1>0, UnchangedWrites
<1>1. /\ Writes
      /\ \E r \in Run : LeaveWave(s, r)
  <2>1. CASE ReadResult(s)
    <3>1. PICK r \in sups[s].wave :
            /\ \/ UNCHANGED tasks
               \/ tasks[TaskOf[r]].status = "blocked" /\ Ends(TaskOf[r], "pending", "none")
            /\ LeaveWave(s, r)
      BY <2>1 DEF ReadResult
    <3>2. r \in Run /\ TaskOf[r] \in Task /\ UNCHANGED runs
      BY <1>0, <2>1, LandingAssumption DEF SupState, LandingAssumption, ReadResult
    <3>3. TasksTyped' /\ \A t \in Task : TaskWrite(t)
      BY <1>0, <1>U, <3>1, <3>2, EndsWrites
    <3> QED BY <1>0, <1>U, <3>1, <3>2, <3>3 DEF Writes
  <2>2. CASE CancelCandidate(s)
    <3>1. PICK r \in sups[s].wave :
            /\ runs[r].status = "candidate_ready" /\ FinishClaim(r, "pending")
            /\ Becomes(r, IF ClaimLive(r) THEN "cancelled" ELSE "system_error")
            /\ LeaveWave(s, r)
      BY <2>2 DEF CancelCandidate
    <3>2. r \in Run
      BY <1>0 DEF SupState
    <3>3. TasksTyped' /\ \A t \in Task : TaskWrite(t)
      BY <1>0, <3>1, <3>2, FinishWrites
    <3>4. (IF ClaimLive(r) THEN "cancelled" ELSE "system_error") \in RunState \ {"absent"}
      BY DEF RunState
    <3>5. RunsTyped' /\ \A q \in Run : RunWrite(q)
      BY <1>0, <3>1, <3>2, <3>4, BecomesWrites
    <3> QED BY <1>0, <1>U, <3>1, <3>2, <3>3, <3>5 DEF Writes
  <2> QED BY <2>1, <2>2
<1>2. PICK r \in Run : sups' = [sups EXCEPT ![s].wave = @ \ {r}]
  BY <1>1 DEF LeaveWave
<1> DEFINE v == [sups[s] EXCEPT !.wave = @ \ {r}]
<1>3. v \in SupState /\ v.pc = "serve" /\ v.todo = sups[s].todo
  BY <1>0 DEF SupState
<1>4. sups' = [sups EXCEPT ![s] = v]
  BY <1>2
<1> HIDE DEF v
<1> QED BY <1>0, <1>1, <1>3, <1>4, WroteKept DEF InLane, AfterSwap, Found, WithRun

LEMMA DispatchKeepsLane ==
    ASSUME LaneInv, NEW s \in Supervisor, Dispatch(s)
    PROVE  LaneInv'
<1>0. /\ TypeOK /\ sups[s] \in SupState /\ sups[s].pc = "serve" /\ SupGood(s)
      /\ UNCHANGED <<ledger, ref, lease, lane, spent>> /\ lease \in Supervisor \cup {None}
  BY SupTyped DEF LaneInv, TypeOK, Dispatch, At
<1>1. PICK r \in Run :
        /\ runs[r].status = "absent" /\ Claimable(TaskOf[r])
        /\ runs' = [runs EXCEPT ![r] = [status |-> "working", base |-> Len(ref), head |-> Len(ref)]]
        /\ tasks' = [tasks EXCEPT ![TaskOf[r]] =
                       [status |-> "in_progress", holder |-> r, mode |-> "none"]]
        /\ sups' = [sups EXCEPT ![s].wave = @ \cup {r}]
  BY <1>0 DEF Dispatch
<1> DEFINE v == [sups[s] EXCEPT !.wave = @ \cup {r}]
           u == TaskOf[r]
<1>2. v \in SupState /\ v.pc = "serve" /\ v.todo = sups[s].todo /\ v.run = sups[s].run
  BY <1>0 DEF SupState
<1>3. sups' = [sups EXCEPT ![s] = v]
  BY <1>1
<1>4. /\ Len(ref) \in Nat /\ r # None /\ ref \in Seq(Run \cup {None}) /\ Len(ref') = Len(ref)
      /\ \A q \in Run : TaskOf[q] \in Task
  BY <1>0, LandingAssumption DEF TypeOK, StoresTyped, LandingAssumption
<1>5. /\ runs'[r] = [status |-> "working", base |-> Len(ref), head |-> Len(ref)]
      /\ \A q \in Run \ {r} : runs'[q] = runs[q]
      /\ RunsTyped'
  BY <1>0, <1>1, <1>4 DEF TypeOK, StoresTyped, RunsTyped, RunState, Tip
<1>6. /\ tasks'[u] = [status |-> "in_progress", holder |-> r, mode |-> "none"]
      /\ \A t \in Task \ {u} : tasks'[t] = tasks[t]
  BY <1>0, <1>1, <1>4 DEF TypeOK, StoresTyped, TasksTyped
<1>7. TasksTyped'
  BY <1>0, <1>1, <1>4, <1>6 DEF TypeOK, StoresTyped, TasksTyped, TaskStatus
<1>8. tasks[u].status = "pending"
  BY <1>1 DEF Claimable
<1>9. /\ \A q : InRef(q)' <=> InRef(q)
      /\ \A q, n : Landed(q, n)' <=> Landed(q, n)
      /\ BranchGood'
  BY <1>0, BranchSame DEF LaneInv
<1>10. Grows /\ Steady
  BY <1>0, <1>1, <1>4, <1>5, <1>6, <1>8, <1>9 DEF Grows, Steady
<1>11. ASSUME NEW q \in Run PROVE RunGood(q)'
  <2>1. CASE q = r
    <3>1. ledger[r].state = "absent" /\ ~InRef(r)
      BY <1>1 DEF LaneInv, RunGood
    <3>2. ~(ledger'[r].state # "absent") /\ ~(InRef(r)')
          /\ ledger'[r].state \notin {"integrated", "queue_finalized"}
      BY <1>0, <1>9, <3>1
    <3> QED BY <1>4, <1>5, <2>1, <3>2 DEF RunGood
  <2>2. CASE q # r
    <3>1. tasks[TaskOf[q]].status = "done" => tasks'[TaskOf[q]].status = "done"
      BY <1>4, <1>6, <1>8
    <3> QED BY <1>0, <1>5, <1>9, <2>2, <3>1 DEF LaneInv, RunGood
  <2> QED BY <2>1, <2>2
<1>12. ASSUME NEW t \in Task PROVE TaskGood(t)'
  BY <1>6, <1>9 DEF LaneInv, TaskGood
<1>13. StoresTyped'
  BY <1>0, <1>5, <1>7 DEF TypeOK, StoresTyped, LedgerTyped
<1>14. SupGood(s)'
  <2>1. sups'[s] = v
    BY <1>0, <1>3 DEF TypeOK
  <2>2. \A item \in v.todo : runs'[item[1]].status # "absent"
    <3>1. \A item \in sups[s].todo : item[1] \in Run /\ runs[item[1]].status # "absent"
      BY <1>0 DEF SupGood, SupState
    <3> QED BY <1>2, <1>10, <3>1 DEF Grows
  <2> HIDE DEF v
  <2> QED BY <1>2, <2>1, <2>2 DEF SupGood, InLane, AfterSwap, Found, WithRun
<1>15. lane' = s => v.pc \in InLane
  BY <1>0, LandingAssumption DEF TypeOK, LandingAssumption
<1> HIDE DEF v
<1> QED BY <1>0, <1>2, <1>3, <1>9, <1>10, <1>11, <1>12, <1>13, <1>14, <1>15, LaneKept

-----------------------------------------------------------------------------
(* Landing a candidate.  An exception or a failed landing leaves the lane.  *)
LEMMA RaisesKept ==
    ASSUME LaneInv, Writes, NEW s \in Supervisor, Raises(s), spent' = spent
    PROVE  LaneInv'
<1>1. \/ NextItem(s, TRUE)
      \/ sups' = [sups EXCEPT ![s] = Idle]
  BY DEF Raises, Stops
<1>2. lease' \in {lease, None} /\ LeaveLane(s)
  BY DEF Raises, Stops, LeaveLane
<1> QED BY <1>1, <1>2, AwayKept

LEMMA FailsKept ==
    ASSUME LaneInv, NEW s \in Supervisor, NEW status \in {"failed", "cas_failed"},
           Fails(s, status), UNCHANGED <<ledger, ref, spent>>, sups[s].pc \in WithRun
    PROVE  LaneInv'
<1> DEFINE r == sups[s].run
           st == IF ClaimLive(r) THEN status ELSE "system_error"
<1>1. TypeOK /\ r \in Run /\ runs[r].status # "absent"
  BY DEF LaneInv, SupGood
<1>2. FinishClaim(r, "blocked") /\ Becomes(r, st) /\ NextItem(s, TRUE) /\ LeaveLane(s) /\ lease' = lease
  BY DEF Fails
<1>3. st \in RunState \ {"absent"}
  BY DEF RunState
<1>4. TasksTyped' /\ \A t \in Task : TaskWrite(t)
  BY <1>1, <1>2, FinishWrites
<1>5. RunsTyped' /\ \A q \in Run : RunWrite(q)
  BY <1>1, <1>2, <1>3, BecomesWrites
<1>6. LedgerTyped' /\ \A q \in Run : LedgerWrite(q)
  BY <1>1, UnchangedWrites
<1>7. Writes
  BY <1>4, <1>5, <1>6 DEF Writes
<1> QED BY <1>2, <1>7, AwayKept

LEMMA LeftPendingKept ==
    ASSUME LaneInv, NEW s \in Supervisor, LeftPending(s), UNCHANGED <<tasks, ledger, ref, spent>>,
           sups[s].pc \in WithRun
    PROVE  LaneInv'
<1>1. TypeOK /\ sups[s].run \in Run /\ runs[sups[s].run].status # "absent"
  BY DEF LaneInv, SupGood
<1>2. /\ Becomes(sups[s].run, "finalize_pending") /\ NextItem(s, TRUE) /\ LeaveLane(s)
      /\ lease' = lease
  BY DEF LeftPending
<1>3. "finalize_pending" \in RunState \ {"absent"}
  BY DEF RunState
<1>4. Writes
  BY <1>1, <1>2, <1>3, BecomesWrites, UnchangedWrites DEF Writes
<1> QED BY <1>2, <1>4, AwayKept

\* A step of s that changes the run it is about, its landing or the branch, all
\* under the lane.
LEMMA EnterLaneKeepsLane ==
    ASSUME LaneInv, NEW s \in Supervisor, EnterLane(s)
    PROVE  LaneInv'
<1> DEFINE r == sups[s].run
<1>0. /\ TypeOK /\ sups[s] \in SupState /\ sups[s].pc = "land" /\ SupGood(s) /\ lane = None
      /\ UNCHANGED <<ledger, ref, spent>> /\ r \in Run /\ runs[r].status # "absent" /\ RunGood(r)
      /\ sups[s].pc \in WithRun
  BY SupTyped DEF LaneInv, EnterLane, At, SupGood, WithRun
<1>1. CASE Fails(s, "failed")
  BY <1>0, <1>1, FailsKept
<1>2. CASE /\ lane' = s
           /\ runs' = [runs EXCEPT ![r].head = IF Len(ref) # runs[r].base THEN Len(ref) ELSE @]
           /\ sups' = [sups EXCEPT ![s].pc = "verify", ![s].at = Len(ref)]
           /\ UNCHANGED <<tasks, lease>>
  <2> DEFINE v == [sups[s] EXCEPT !.pc = "verify", !.at = Len(ref)]
  <2>1. Len(ref) \in Nat /\ runs[r].base \in Nat /\ runs[r].head \in Nat /\ Len(ref') = Len(ref)
    BY <1>0 DEF TypeOK, StoresTyped, RunsTyped, Tip
  <2>2. /\ v \in SupState /\ v.pc = "verify" /\ v.at = Len(ref) /\ v.run = r
        /\ v.todo = sups[s].todo
    BY <1>0, <2>1 DEF SupState, PC, InLane, Tip
  <2>3. sups' = [sups EXCEPT ![s] = v]
    BY <1>2
  <2>4. sups'[s] = v
    BY <1>0, <2>3 DEF TypeOK
  <2>5. /\ runs'[r].head = Len(ref) /\ runs'[r].base = runs[r].base
        /\ runs'[r].status = runs[r].status
        /\ \A q \in Run \ {r} : runs'[q] = runs[q]
    BY <1>0, <1>2, <2>1 DEF TypeOK, StoresTyped, RunsTyped, RunGood
  <2>6. RunsTyped'
    BY <1>0, <1>2, <2>1 DEF TypeOK, StoresTyped, RunsTyped, Tip
  <2>7. /\ \A q : InRef(q)' <=> InRef(q)
        /\ \A q, n : Landed(q, n)' <=> Landed(q, n)
        /\ BranchGood'
    BY <1>0, BranchSame DEF LaneInv
  <2>8. Grows
    BY <1>0, <1>2, <2>1, <2>5, <2>7 DEF Grows
  <2>9. ASSUME NEW q \in Run PROVE RunGood(q)'
    BY <1>0, <1>2, <2>1, <2>5, <2>7 DEF LaneInv, RunGood
  <2>10. \A t \in Task : TaskGood(t)'
    BY <1>2, <2>7 DEF LaneInv, TaskGood
  <2>11. StoresTyped'
    BY <1>0, <1>2, <2>6 DEF TypeOK, StoresTyped, TasksTyped, LedgerTyped
  <2>12. lane \notin {s, None} => Steady
    BY <1>0
  <2>13. lane' = s /\ v.pc \in InLane /\ lease' \in Supervisor \cup {None}
    BY <1>0, <1>2, <2>2 DEF InLane, TypeOK
  <2> HIDE DEF v
  <2>14. SupGood(s)'
    <3>1. \A item \in v.todo : item[1] \in Run /\ runs[item[1]].status # "absent"
      BY <1>0, <2>2 DEF SupGood, SupState
    <3>2. \A item \in v.todo : runs'[item[1]].status # "absent"
      BY <2>8, <3>1 DEF Grows
    <3> QED BY <1>0, <2>1, <2>2, <2>4, <2>5, <2>13, <3>2 DEF SupGood, InLane, AfterSwap, Found, WithRun
  <2> QED BY <1>0, <2>2, <2>3, <2>7, <2>8, <2>9, <2>10, <2>11, <2>12, <2>13, <2>14, LaneKept
<1> QED BY <1>1, <1>2 DEF EnterLane

LEMMA PrepareKeepsLane ==
    ASSUME LaneInv, NEW s \in Supervisor, Prepare(s)
    PROVE  LaneInv'
<1>r. PICK r \in Run : r = sups[s].run
  BY DEF LaneInv, SupGood, WithRun, InLane, Prepare, At
<1>0. /\ TypeOK /\ sups[s] \in SupState /\ sups[s].pc = "prepare" /\ SupGood(s)
      /\ UNCHANGED <<tasks, runs, ref, spent>> /\ r \in Run /\ runs[r].status # "absent"
      /\ RunGood(r) /\ lane = s /\ runs[r].head = sups[s].at /\ sups[s].at <= Len(ref)
      /\ sups[s].at \in Nat /\ Len(ref) \in Nat
      /\ ledger[r].cand \in Nat /\ ledger[r].expected \in Nat /\ runs[r].head \in Nat
  <2>1. /\ TypeOK /\ sups[s] \in SupState /\ SupGood(s) /\ RunGood(r)
        /\ sups[s].pc = "prepare" /\ UNCHANGED <<tasks, runs, ref, spent>>
    BY SupTyped DEF LaneInv, Prepare, At
  <2>2. /\ runs[r].status # "absent" /\ lane = s
        /\ runs[r].head = sups[s].at /\ sups[s].at <= Len(ref)
    BY <1>r, <2>1 DEF SupGood, WithRun, InLane
  <2>3. sups[s].at \in Nat /\ runs[r].head \in Nat
    BY <2>1 DEF SupState, Tip, TypeOK, StoresTyped, RunsTyped
  <2>4. ledger[r].cand \in Nat /\ ledger[r].expected \in Nat
    BY <2>1 DEF Tip, TypeOK, StoresTyped, LedgerTyped
  <2>5. Len(ref) \in Nat
    BY <2>1 DEF TypeOK, StoresTyped
  <2> QED BY <2>1, <2>2, <2>3, <2>4, <2>5
<1>1. CASE Raises(s) /\ UNCHANGED ledger
  <2>1. Writes
    BY <1>0, <1>1, UnchangedWrites DEF Writes
  <2> QED BY <1>0, <1>1, <2>1, RaisesKept
<1>2. ASSUME Goto(s, "cas"), UNCHANGED <<lease, lane>>, ledger' \in {ledger, [ledger EXCEPT ![r] = Record(r, sups[s].at)]},
             ~InRef(r), ledger'[r].state # "absent", ledger'[r].expected = sups[s].at,
             ledger'[r].cand = sups[s].at, ledger'[r].state \notin {"integrated", "queue_finalized"} \/ ledger' = ledger
      PROVE LaneInv'
  <2>1. "cas" \in PC
    BY DEF PC, InLane
  <2>2. PICK v \in SupState :
          /\ sups' = [sups EXCEPT ![s] = v] /\ v.pc = "cas" /\ v.run = r
          /\ v.at = sups[s].at /\ v.todo = sups[s].todo
    BY <1>r, <1>0, <1>2, <2>1, GotoIs
  <2>3. sups'[s] = v
    BY <1>0, <2>2 DEF TypeOK
  <2>4. LedgerTyped' /\ \A q \in Run \ {r} : ledger'[q] = ledger[q]
    <3>1. Record(r, sups[s].at) \in [state : LedgerState, expected : Tip, cand : Tip, pushed : BOOLEAN]
      BY <1>0, LandingAssumption DEF Record, LedgerState, Tip, LandingAssumption
    <3> QED BY <1>0, <1>2, <3>1 DEF TypeOK, StoresTyped, LedgerTyped
  <2>5. /\ \A q : InRef(q)' <=> InRef(q)
        /\ \A q, n : Landed(q, n)' <=> Landed(q, n)
        /\ BranchGood'
    BY <1>0, BranchSame DEF LaneInv
  <2>6. Grows
    BY <1>0, <1>2, <2>4, <2>5 DEF Grows
  <2>7. ASSUME NEW q \in Run PROVE RunGood(q)'
    <3>1. CASE q = r
      <4>1. ledger'[r].state \notin {"integrated", "queue_finalized"}
        BY <1>0, <1>2 DEF RunGood
      <4> QED BY <1>0, <1>2, <2>5, <3>1, <4>1 DEF RunGood
    <3>2. CASE q # r
      BY <1>0, <2>4, <2>5, <3>2 DEF LaneInv, RunGood
    <3> QED BY <3>1, <3>2
  <2>8. \A t \in Task : TaskGood(t)'
    BY <1>0, <2>5 DEF LaneInv, TaskGood
  <2>9. StoresTyped'
    BY <1>0, <2>4 DEF TypeOK, StoresTyped, TasksTyped, RunsTyped
  <2>10. SupGood(s)'
    <3>1. \A item \in v.todo : runs'[item[1]].status # "absent"
      BY <1>0, <2>2 DEF SupGood
    <3>2. Len(ref') = Len(ref) /\ runs' = runs /\ lane' = s /\ ~(InRef(r)')
      BY <1>0, <1>2, <2>5
    <3> QED BY <1>0, <1>2, <2>2, <2>3, <3>1, <3>2 DEF SupGood, InLane, AfterSwap, Found, WithRun
  <2>11. lease' \in Supervisor \cup {None} /\ v.pc \in InLane
    BY <1>0, <1>2, <2>2 DEF TypeOK, InLane
  <2> QED BY <1>0, <1>2, <2>2, <2>5, <2>6, <2>7, <2>8, <2>9, <2>10, <2>11, LaneKept
<1>3. CASE /\ ledger[r].state = "absent" \/ (~SameIdentity(r, sups[s].at) /\ Replaceable(s, r))
           /\ ledger' = [ledger EXCEPT ![r] = Record(r, sups[s].at)]
           /\ Goto(s, "cas") /\ UNCHANGED <<lease, lane>>
  <2>1. ledger'[r] = Record(r, sups[s].at)
    BY <1>0, <1>3 DEF TypeOK, StoresTyped, LedgerTyped
  <2>2. /\ ledger'[r].state = "prepared" /\ ledger'[r].expected = sups[s].at
        /\ ledger'[r].cand = sups[s].at
    BY <1>0, <2>1 DEF Record
  <2>3. ~InRef(r)
    BY <1>0, <1>3 DEF RunGood, Replaceable
  <2> QED BY <1>2, <1>3, <2>2, <2>3
<1>4. CASE /\ ledger[r].state # "absent" /\ SameIdentity(r, sups[s].at)
           /\ Goto(s, "cas") /\ UNCHANGED <<ledger, lease, lane>>
  BY <1>0, <1>2, <1>4 DEF SameIdentity
<1> QED BY <1>r, <1>1, <1>3, <1>4 DEF Prepare

LEMMA SwapKeepsLane ==
    ASSUME LaneInv, NEW s \in Supervisor, CompareAndSwap(s)
    PROVE  LaneInv'
<1>r. PICK r \in Run : r = sups[s].run
  BY DEF LaneInv, SupGood, WithRun, InLane, CompareAndSwap, At
<1>0. /\ TypeOK /\ sups[s] \in SupState /\ sups[s].pc = "cas" /\ SupGood(s)
      /\ UNCHANGED <<ledger, spent>> /\ r \in Run /\ runs[r].status # "absent"
      /\ RunGood(r) /\ lane = s /\ ledger[r].state # "absent" /\ ledger[r].cand = sups[s].at
      /\ ~InRef(r) /\ sups[s].at \in Nat /\ Len(ref) \in Nat /\ sups[s].pc \in WithRun
      /\ ref \in Seq(Run \cup {None})
  BY <1>r, SupTyped
     DEF LaneInv, CompareAndSwap, At, SupGood, WithRun, InLane, SupState, Tip, TypeOK, StoresTyped
<1>1. CASE Len(ref) # sups[s].at
  <2>1. Fails(s, "cas_failed") /\ UNCHANGED ref
    BY <1>r, <1>1 DEF CompareAndSwap
  <2> QED BY <1>0, <2>1, FailsKept
<1>2. CASE Len(ref) = sups[s].at
  <2>1. /\ ref' = Append(ref, r) /\ Goto(s, "integrated") /\ UNCHANGED <<tasks, runs, lease, lane>>
    BY <1>r, <1>2 DEF CompareAndSwap
  <2>2. "integrated" \in PC
    BY DEF PC, InLane, AfterSwap
  <2>3. PICK v \in SupState :
          /\ sups' = [sups EXCEPT ![s] = v] /\ v.pc = "integrated" /\ v.run = r
          /\ v.at = sups[s].at /\ v.todo = sups[s].todo
    BY <1>r, <1>0, <2>1, <2>2, GotoIs
  <2>4. sups'[s] = v
    BY <1>0, <2>3 DEF TypeOK
  <2>5. /\ Len(ref') = Len(ref) + 1 /\ ref' \in Seq(Run \cup {None})
        /\ \A i \in 1 .. Len(ref) : ref'[i] = ref[i]
        /\ ref'[Len(ref) + 1] = r
    BY <1>0, <2>1
  <2>6. /\ \A q \in Run : InRef(q)' <=> InRef(q) \/ q = r
        /\ \A q \in Run : \A n \in Nat : Landed(q, n) => Landed(q, n)'
    <3>1. \A q \in Run : InRef(q)' <=> InRef(q) \/ q = r
      BY <1>0, <2>5 DEF InRef
    <3>2. ASSUME NEW q \in Run, NEW n \in Nat, Landed(q, n) PROVE Landed(q, n)'
      BY <1>0, <2>5, <3>2 DEF Landed
    <3> QED BY <3>1, <3>2
  <2>7. BranchGood'
    BY <1>0, <2>5 DEF LaneInv, BranchGood, InRef
  <2>8. Grows
    BY <1>0, <2>1, <2>5, <2>6 DEF Grows
  <2>9. ASSUME NEW q \in Run PROVE RunGood(q)'
    <3>1. ledger[q].cand \in Nat /\ runs[q].head \in Nat
      BY <1>0 DEF TypeOK, StoresTyped, LedgerTyped, RunsTyped, Tip
    <3>2. RunGood(q)
      BY DEF LaneInv
    <3>3. runs[q].status # "absent" => runs[q].base <= runs[q].head /\ runs[q].head <= Len(ref')
      BY <1>0, <2>5, <3>1, <3>2 DEF RunGood
    <3>4. InRef(q)' => ledger[q].state # "absent" /\ Landed(q, ledger[q].cand)'
      <4>1. CASE InRef(q)
        <5>1. ledger'[q] = ledger[q] /\ Landed(q, ledger[q].cand)
          BY <1>0, <3>2, <4>1 DEF RunGood
        <5> QED BY <1>0, <2>5, <3>1, <3>2, <4>1, <5>1 DEF RunGood, Landed
      <4>2. CASE q = r
        BY <1>0, <1>2, <2>5, <4>2 DEF Landed
      <4> QED BY <2>6, <4>1, <4>2
    <3> QED BY <1>0, <2>1, <2>6, <3>2, <3>3, <3>4 DEF RunGood
  <2>10. ASSUME NEW t \in Task PROVE TaskGood(t)'
    BY <2>1, <2>6 DEF LaneInv, TaskGood
  <2>11. StoresTyped'
    BY <1>0, <2>1, <2>5 DEF TypeOK, StoresTyped, TasksTyped, RunsTyped, LedgerTyped
  <2>12. SupGood(s)'
    <3>1. \A item \in v.todo : runs'[item[1]].status # "absent"
      BY <1>0, <2>1, <2>3 DEF SupGood
    <3>2. runs' = runs /\ lane' = s /\ InRef(r)' /\ sups[s].at <= Len(ref')
      BY <1>0, <1>2, <2>1, <2>5, <2>6
    <3> QED BY <1>0, <2>3, <2>4, <3>1, <3>2 DEF SupGood, InLane, AfterSwap, Found, WithRun
  <2>13. lease' \in Supervisor \cup {None} /\ v.pc \in InLane /\ lane' = lane
    BY <1>0, <2>1, <2>3 DEF TypeOK, InLane, AfterSwap
  <2> QED BY <1>0, <2>3, <2>7, <2>8, <2>9, <2>10, <2>11, <2>12, <2>13, LaneKept
<1> QED BY <1>1, <1>2

Landing(s) ==
    \/ LandingRefused(s) \/ MarkVerifying(s) \/ VerifyFails(s) \/ RecordIntegrated(s)
    \/ LandingPush(s) \/ QueueDone(s) \/ MarkLanded(s) \/ RecordFinalized(s)

LEMMA LandingKeepsLane ==
    ASSUME LaneInv, NEW s \in Supervisor, Landing(s)
    PROVE  LaneInv'
<1> DEFINE r == sups[s].run
<1>0. /\ TypeOK /\ SupGood(s) /\ UNCHANGED <<ref, spent>> /\ sups[s].pc \in WithRun
      /\ r \in Run /\ runs[r].status # "absent" /\ RunGood(r) /\ TaskOf[r] \in Task
  BY LandingAssumption
     DEF LaneInv, Landing, LandingRefused, MarkVerifying, VerifyFails, RecordIntegrated, LandingPush,
         QueueDone, MarkLanded, RecordFinalized, At, InLane, AfterSwap, SupGood, WithRun, LandingAssumption
<1>U. /\ UNCHANGED tasks => TasksTyped' /\ \A t \in Task : TaskWrite(t)
      /\ UNCHANGED runs => RunsTyped' /\ \A q \in Run : RunWrite(q)
      /\ UNCHANGED ledger => LedgerTyped' /\ \A q \in Run : LedgerWrite(q)
  BY <1>0, UnchangedWrites
<1>S. sups[s].pc \in AfterSwap => InRef(r)
  BY <1>0 DEF SupGood
<1>D. sups[s].pc \in {"landed", "finalized"} => tasks[TaskOf[r]].status = "done"
  BY <1>0 DEF SupGood
<1>B. {"landing_verifying", "done"} \subseteq RunState \ {"absent"}
  BY DEF RunState
<1>1. CASE LandingRefused(s) \/ VerifyFails(s)
  BY <1>0, <1>1, FailsKept DEF LandingRefused, VerifyFails
<1>2. CASE MarkVerifying(s)
  <2>1. /\ sups[s].pc = "verify" /\ UNCHANGED <<tasks, ledger, lease, lane>>
        /\ Becomes(r, "landing_verifying") /\ Goto(s, "prepare")
    BY <1>2 DEF MarkVerifying, At
  <2>2. Writes
    BY <1>0, <1>U, <1>B, <2>1, BecomesWrites DEF Writes
  <2>3. runs[r].head = sups[s].at
    BY <1>0, <2>1 DEF SupGood
  <2> QED BY <1>0, <2>1, <2>2, <2>3, OnKept DEF WithRun, InLane, AfterSwap, Found
<1>3. CASE RecordIntegrated(s)
  <2>1. /\ sups[s].pc = "integrated" /\ UNCHANGED <<tasks, runs>> /\ InRef(r)
        /\ \/ /\ ledger[r].state # "absent"
              /\ ledger' = [ledger EXCEPT ![r].state = "integrated"]
              /\ Goto(s, "landpush") /\ UNCHANGED <<lease, lane>>
           \/ Raises(s) /\ UNCHANGED ledger
    BY <1>S, <1>3 DEF RecordIntegrated, At, AfterSwap
  <2>2. Writes
    BY <1>0, <1>U, <2>1, LedgerWrites DEF Writes
  <2> QED BY <1>0, <2>1, <2>2, OnKept, RaisesKept DEF WithRun, InLane, AfterSwap, Found
<1>4. CASE LandingPush(s)
  <2>1. /\ sups[s].pc = "landpush" /\ UNCHANGED tasks /\ InRef(r)
        /\ \/ /\ UNCHANGED runs /\ (UNCHANGED ledger \/ RecordPushed(r))
              /\ \/ Goto(s, "done") /\ UNCHANGED <<lease, lane>>
                 \/ Raises(s)
           \/ LeftPending(s) /\ UNCHANGED ledger
    BY <1>S, <1>4 DEF LandingPush, At, AfterSwap
  <2>2. CASE LeftPending(s) /\ UNCHANGED ledger
    BY <1>0, <2>1, <2>2, LeftPendingKept
  <2>3. CASE UNCHANGED runs /\ (UNCHANGED ledger \/ RecordPushed(r))
    <3>1. Writes
      BY <1>0, <1>U, <2>1, <2>3, PushWrites DEF Writes
    <3>2. CASE Goto(s, "done") /\ UNCHANGED <<lease, lane>>
      BY <1>0, <2>1, <3>1, <3>2, OnKept DEF WithRun, InLane, AfterSwap, Found
    <3>3. CASE Raises(s)
      BY <1>0, <3>1, <3>3, RaisesKept
    <3>4. CASE LeftPending(s) /\ UNCHANGED ledger
      BY <2>2, <3>4
    <3> QED BY <2>1, <3>2, <3>3, <3>4
  <2>4. \/ LeftPending(s) /\ UNCHANGED ledger
        \/ UNCHANGED runs /\ (UNCHANGED ledger \/ RecordPushed(r))
    BY <1>4 DEF LandingPush
  <2> QED BY <2>2, <2>3, <2>4
<1>5. CASE QueueDone(s)
  <2>1. sups[s].pc = "done" /\ UNCHANGED ledger /\ InRef(r)
    BY <1>S, <1>5 DEF QueueDone, At, AfterSwap
  <2>2. CASE ClaimLive(r)
    <3>1. /\ Ends(TaskOf[r], "done", "autodev_reviewed")
          /\ Goto(s, "landed") /\ UNCHANGED <<runs, lease, lane>>
      BY <1>5, <2>2 DEF QueueDone
    <3>2. /\ TasksTyped' /\ \A t \in Task : TaskWrite(t)
          /\ tasks'[TaskOf[r]].status = "done"
      BY <1>0, <2>1, <2>2, <3>1, EndsWrites DEF ClaimLive
    <3>3. Writes
      BY <1>0, <1>U, <2>1, <3>1, <3>2 DEF Writes
    <3> QED BY <1>0, <2>1, <3>1, <3>2, <3>3, OnKept DEF WithRun, InLane, AfterSwap, Found
  <2>3. CASE ~ClaimLive(r)
    <3>1. LeftPending(s) /\ UNCHANGED tasks
      BY <1>5, <2>3 DEF QueueDone
    <3> QED BY <1>0, <2>1, <3>1, LeftPendingKept
  <2> QED BY <2>2, <2>3
<1>6. CASE MarkLanded(s)
  <2>1. /\ sups[s].pc = "landed" /\ UNCHANGED <<tasks, ledger, lease, lane>> /\ InRef(r)
        /\ tasks[TaskOf[r]].status = "done" /\ Becomes(r, "done") /\ Goto(s, "finalized")
    BY <1>S, <1>D, <1>6 DEF MarkLanded, At, AfterSwap
  <2>2. Writes
    BY <1>0, <1>U, <1>B, <2>1, BecomesWrites DEF Writes
  <2> QED BY <1>0, <2>1, <2>2, OnKept DEF WithRun, InLane, AfterSwap, Found
<1>7. CASE RecordFinalized(s)
  <2>1. /\ sups[s].pc = "finalized" /\ UNCHANGED <<tasks, runs>> /\ InRef(r)
        /\ tasks[TaskOf[r]].status = "done"
        /\ \/ /\ ledger[r].state # "absent"
              /\ ledger' = [ledger EXCEPT ![r].state = "queue_finalized"]
              /\ NextItem(s, FALSE) /\ LeaveLane(s) /\ UNCHANGED lease
           \/ Raises(s) /\ UNCHANGED ledger
    BY <1>S, <1>D, <1>7 DEF RecordFinalized, At, AfterSwap
  <2>2. Writes
    BY <1>0, <1>U, <2>1, LedgerWrites DEF Writes
  <2> QED BY <1>0, <2>1, <2>2, AwayKept, RaisesKept
<1> QED BY <1>1, <1>2, <1>3, <1>4, <1>5, <1>6, <1>7 DEF Landing

LEMMA NextKeepsLane ==
    ASSUME LaneInv, [Next]_vars
    PROVE  LaneInv'
<1>1. CASE Next
  <2>1. CASE Outside
    BY <2>1, OutsideKeepsLane
  <2>2. ASSUME NEW s \in Supervisor, StartLoop(s) \/ Reconcile(s) \/ Serve(s) \/ Land(s) \/ Crash(s)
        PROVE  LaneInv'
    <3>1. CASE Quiet(s)
      BY <3>1, QuietKeepsLane
    <3>2. CASE Reconciling(s)
      BY <3>2, ReconcilingKeepsLane
    <3>3. CASE Dispatch(s) \/ ReadResult(s) \/ CancelCandidate(s)
      BY <3>3, DispatchKeepsLane, ServingKeepsLane
    <3>4. CASE EnterLane(s) \/ Prepare(s) \/ CompareAndSwap(s)
      BY <3>4, EnterLaneKeepsLane, PrepareKeepsLane, SwapKeepsLane
    <3>5. CASE Landing(s)
      BY <3>5, LandingKeepsLane
    <3> QED BY <2>2, <3>1, <3>2, <3>3, <3>4, <3>5 DEF Reconcile, Serve, Land, Quiet, Reconciling, Landing
  <2> QED BY <1>1, <2>1, <2>2 DEF Next, Outside
<1>2. CASE UNCHANGED vars
  <2>1. UNCHANGED stores /\ UNCHANGED <<lane, sups, lease, spent>>
    BY <1>2 DEF vars, stores
  <2> QED BY <2>1, StoresSame, OutsideKept DEF LaneInv, TypeOK
<1> QED BY <1>1, <1>2

\* The types of the lane, and its stores as far as they agree whatever faults occur:
\* the branch holds a candidate once, at the place its landing recorded
\* (_write_landing_ledger, update-ref).
THEOREM LaneIsSound == Spec => []LaneInv
<1>1. Init => LaneInv
  BY LaneInit
<1>2. LaneInv /\ [Next]_vars => LaneInv'
  BY NextKeepsLane
<1> QED BY <1>1, <1>2, PTL DEF Spec

-----------------------------------------------------------------------------
(* The lane implements LandingPromise.                                      *)
Finished == {t \in Task : tasks[t].mode = "autodev_reviewed"}

\* A step that leaves the branch and what is finished alone is a stutter.
LEMMA Stutters ==
    ASSUME ref' = ref, \A t \in Task : (tasks'[t].mode = "autodev_reviewed") <=> (tasks[t].mode = "autodev_reviewed")
    PROVE  UNCHANGED <<ref, Finished>>
  BY DEF Finished

\* A task that is not finished by AutoDev, and is not by this write either.
LEMMA WriteStutters ==
    ASSUME LaneInv, ref' = ref, NEW u \in Task, tasks[u].status # "done",
           tasks'[u].mode # "autodev_reviewed", \A t \in Task \ {u} : tasks'[t] = tasks[t]
    PROVE  UNCHANGED <<ref, Finished>>
<1>1. tasks[u].mode # "autodev_reviewed"
  BY DEF LaneInv, TaskGood
<1>2. \A t \in Task : (tasks'[t].mode = "autodev_reviewed") <=> (tasks[t].mode = "autodev_reviewed")
  BY <1>1
<1> QED BY <1>2, Stutters

LEMMA FinishStutters ==
    ASSUME LaneInv, ref' = ref, NEW r \in Run, NEW status \in {"pending", "blocked"},
           FinishClaim(r, status)
    PROVE  UNCHANGED <<ref, Finished>>
<1>0. TaskOf[r] \in Task /\ TypeOK
  BY LandingAssumption DEF LandingAssumption, LaneInv
<1>1. CASE ClaimLive(r)
  <2>1. /\ tasks' = [tasks EXCEPT ![TaskOf[r]] = [status |-> status, holder |-> None, mode |-> "none"]]
        /\ tasks[TaskOf[r]].status # "done"
    BY <1>1 DEF FinishClaim, Ends, ClaimLive
  <2>2. /\ tasks'[TaskOf[r]].mode # "autodev_reviewed"
        /\ \A t \in Task \ {TaskOf[r]} : tasks'[t] = tasks[t]
    BY <1>0, <2>1 DEF TypeOK, StoresTyped, TasksTyped
  <2> QED BY <1>0, <2>1, <2>2, WriteStutters
<1>2. CASE ~ClaimLive(r)
  BY <1>2, Stutters DEF FinishClaim
<1> QED BY <1>1, <1>2

LEMMA EndStutters ==
    ASSUME LaneInv, ref' = ref, NEW t \in Task, tasks[t].status # "done",
           NEW status \in {"pending", "blocked", "done"}, NEW mode \in {"none", "manual_reconcile"},
           Ends(t, status, mode)
    PROVE  UNCHANGED <<ref, Finished>>
<1>1. /\ tasks'[t].mode # "autodev_reviewed"
      /\ \A u \in Task \ {t} : tasks'[u] = tasks[u]
  BY DEF Ends, LaneInv, TypeOK, StoresTyped, TasksTyped
<1> QED BY <1>1, WriteStutters

\* A task finished with its candidate on the branch.
LEMMA ReviewedFinishes ==
    ASSUME LaneInv, ref' = ref, NEW r \in Run, InRef(r),
           Ends(TaskOf[r], "done", "autodev_reviewed")
    PROVE  Promise!Next
<1>0. TaskOf[r] \in Task /\ ref \in Seq(Run \cup {None})
  BY LandingAssumption DEF LandingAssumption, LaneInv, TypeOK, StoresTyped
<1>1. /\ tasks'[TaskOf[r]].mode = "autodev_reviewed"
      /\ \A u \in Task \ {TaskOf[r]} : tasks'[u] = tasks[u]
  BY <1>0 DEF Ends, LaneInv, TypeOK, StoresTyped, TasksTyped
<1>2. Finished' = Finished \cup {TaskOf[r]}
  BY <1>0, <1>1 DEF Finished
<1>3. \E i \in DOMAIN ref : ref[i] = r
  BY <1>0 DEF InRef
<1>4. Promise!Finish(TaskOf[r])
  BY <1>2, <1>3 DEF Promise!Finish, Promise!On, Finished
<1> QED BY <1>0, <1>4 DEF Promise!Next

LEMMA StepKeepsPromise ==
    ASSUME LaneInv, [Next]_vars
    PROVE  [Promise!Next]_<<ref, Finished>>
<1>0. TypeOK /\ \A s \in Supervisor : SupGood(s)
  BY DEF LaneInv
<1>1. ASSUME UNCHANGED <<tasks, ref>> PROVE UNCHANGED <<ref, Finished>>
  BY <1>1, Stutters
<1>2. CASE UNCHANGED vars
  BY <1>1, <1>2 DEF vars
<1>3. CASE LeaseExpires
  BY <1>1, <1>3 DEF LeaseExpires, stores
<1>4. CASE ForeignCommit
  <2>1. ref' = Append(ref, None) /\ Finished' = Finished
    BY <1>4 DEF ForeignCommit, Finished
  <2> QED BY <2>1 DEF Promise!Next, Promise!CommitByOthers, Finished
<1>5. ASSUME NEW r \in Run, WorkerFinishes(r) PROVE UNCHANGED <<ref, Finished>>
  BY <1>1, <1>5, FinishStutters DEF WorkerFinishes
<1>6. ASSUME NEW t \in Task, Operator(t) PROVE UNCHANGED <<ref, Finished>>
  <2>1. PICK status \in {"pending", "blocked", "done"}, mode \in {"none", "manual_reconcile"} :
          tasks[t].status # "done" /\ Ends(t, status, mode)
    BY <1>6 DEF Operator
  <2> QED BY <1>6, <2>1, EndStutters DEF Operator
<1>7. ASSUME NEW s \in Supervisor, StartLoop(s) \/ Reconcile(s) \/ Serve(s) \/ Land(s) \/ Crash(s)
      PROVE  [Promise!Next]_<<ref, Finished>>
  <2>0. sups[s] \in SupState /\ (sups[s].pc \in WithRun => sups[s].run \in Run)
    BY <1>0, SupTyped DEF SupGood
  <2>1. CASE StartLoop(s) \/ Crash(s)
    BY <1>1, <2>1 DEF StartLoop, Crash, stores
  <2>2. CASE ReadGit(s) \/ Classify(s) \/ RetryOrAbandon(s) \/ Abandon(s) \/ PushAgain(s)
    BY <1>1, <2>2 DEF ReadGit, Classify, RetryOrAbandon, Abandon, PushAgain, stores
  <2>3. CASE MarkReconciled(s) \/ CloseLedger(s) \/ LedgersDone(s) \/ Orphan(s) \/ OrphansDone(s)
    BY <1>1, <2>3 DEF MarkReconciled, CloseLedger, LedgersDone, Orphan, OrphansDone, stores
  <2>4. CASE FinalizeQueue(s)
    <3>1. sups[s].run \in Run /\ InRef(sups[s].run) /\ ref' = ref
      BY <1>0, <2>0, <2>4 DEF FinalizeQueue, At, SupGood, WithRun, Found
    <3>2. UNCHANGED tasks \/ Ends(TaskOf[sups[s].run], "done", "autodev_reviewed")
      BY <2>4 DEF FinalizeQueue
    <3> QED BY <1>1, <3>1, <3>2, ReviewedFinishes
  <2>5. CASE Dispatch(s)
    <3>1. PICK r \in Run :
            /\ Claimable(TaskOf[r]) /\ ref' = ref
            /\ tasks' = [tasks EXCEPT ![TaskOf[r]] =
                           [status |-> "in_progress", holder |-> r, mode |-> "none"]]
      BY <2>5 DEF Dispatch
    <3>2. TaskOf[r] \in Task /\ tasks[TaskOf[r]].status # "done"
      BY <3>1, LandingAssumption DEF Claimable, LandingAssumption
    <3>3. /\ tasks'[TaskOf[r]].mode # "autodev_reviewed"
          /\ \A t \in Task \ {TaskOf[r]} : tasks'[t] = tasks[t]
      BY <1>0, <3>1, <3>2 DEF TypeOK, StoresTyped, TasksTyped
    <3> QED BY <3>1, <3>2, <3>3, WriteStutters
  <2>6. CASE ReadResult(s)
    <3>1. PICK r \in Run :
            \/ UNCHANGED tasks
            \/ tasks[TaskOf[r]].status = "blocked" /\ Ends(TaskOf[r], "pending", "none")
      BY <2>0, <2>6 DEF ReadResult, SupState
    <3>2. TaskOf[r] \in Task /\ ref' = ref
      BY <2>6, LandingAssumption DEF ReadResult, LandingAssumption
    <3> QED BY <1>1, <3>1, <3>2, EndStutters
  <2>7. CASE CancelCandidate(s)
    <3>1. PICK r \in Run : FinishClaim(r, "pending") /\ ref' = ref
      BY <2>0, <2>7 DEF CancelCandidate, SupState
    <3> QED BY <3>1, FinishStutters
  <2>8. CASE LandOne(s) \/ LoopEnds(s)
    BY <1>1, <2>8 DEF LandOne, LoopEnds, stores
  <2>9. CASE LandingRefused(s) \/ EnterLane(s) \/ VerifyFails(s)
    <3>1. /\ sups[s].run \in Run /\ ref' = ref
          /\ UNCHANGED tasks \/ FinishClaim(sups[s].run, "blocked")
      BY <2>0, <2>9 DEF LandingRefused, EnterLane, VerifyFails, Fails, At, WithRun, InLane
    <3> QED BY <1>1, <3>1, FinishStutters
  <2>10. CASE CompareAndSwap(s)
    <3>1. /\ sups[s].run \in Run /\ ~InRef(sups[s].run)
          /\ \/ ref' = Append(ref, sups[s].run) /\ UNCHANGED tasks
             \/ FinishClaim(sups[s].run, "blocked") /\ ref' = ref
      BY <1>0, <2>0, <2>10 DEF CompareAndSwap, Fails, At, WithRun, InLane, SupGood
    <3>2. CASE ref' = Append(ref, sups[s].run) /\ UNCHANGED tasks
      <4>1. ~(\E i \in DOMAIN ref : ref[i] = sups[s].run)
        BY <1>0, <3>1 DEF InRef, TypeOK, StoresTyped
      <4>2. Finished' = Finished
        BY <3>2 DEF Finished
      <4>3. Promise!Integrate(sups[s].run)
        BY <3>2, <4>1, <4>2 DEF Promise!Integrate, Promise!On, Finished
      <4> QED BY <3>1, <4>3 DEF Promise!Next
    <3>3. CASE FinishClaim(sups[s].run, "blocked") /\ ref' = ref
      BY <3>1, <3>3, FinishStutters
    <3> QED BY <3>1, <3>2, <3>3
  <2>11. CASE MarkVerifying(s) \/ Prepare(s) \/ RecordIntegrated(s) \/ LandingPush(s)
    BY <1>1, <2>11 DEF MarkVerifying, Prepare, RecordIntegrated, LandingPush
  <2>12. CASE QueueDone(s)
    <3>1. sups[s].run \in Run /\ InRef(sups[s].run) /\ ref' = ref
      BY <1>0, <2>0, <2>12 DEF QueueDone, At, SupGood, WithRun, InLane, AfterSwap
    <3>2. UNCHANGED tasks \/ Ends(TaskOf[sups[s].run], "done", "autodev_reviewed")
      BY <2>12 DEF QueueDone
    <3> QED BY <1>1, <3>1, <3>2, ReviewedFinishes
  <2>13. CASE MarkLanded(s) \/ RecordFinalized(s)
    BY <1>1, <2>13 DEF MarkLanded, RecordFinalized
  <2> QED BY <1>7, <2>1, <2>2, <2>3, <2>4, <2>5, <2>6, <2>7, <2>8, <2>9, <2>10, <2>11, <2>12, <2>13
          DEF Reconcile, Serve, Land
<1> QED BY <1>2, <1>3, <1>4, <1>5, <1>6, <1>7 DEF Next

\* Whatever faults occur, the lane puts a candidate on the branch at most once, a
\* task is finished by AutoDev only with a candidate of it on the branch, and
\* neither is ever taken back (update-ref, complete_task).
THEOREM LaneImplementsPromise == Spec => Refines
<1>1. Init => Promise!Init
  BY DEF Init, Promise!Init
<1>2. LaneInv /\ [Next]_vars => [Promise!Next]_<<ref, Finished>>
  BY StepKeepsPromise
<1>3. Spec => []LaneInv
  BY LaneIsSound
<1>4. Spec => [][Promise!Next]_<<ref, Finished>>
  BY <1>2, <1>3, PTL DEF Spec
<1> QED BY <1>1, <1>4, PTL DEF Spec, Refines, Promise!Spec, Finished

-----------------------------------------------------------------------------
(* While leases hold and nobody edits the queue.                            *)
Walk == {"land"} \cup InLane
Lands(s, r) == sups[s].run = r /\ sups[s].pc \in Walk
\* A run that has tried to land or is trying to.
Contends(r) == ledger[r].state # "absent" \/ \E s \in Supervisor : Lands(s, r)
\* The steps of a reconciliation of landings, a landing that it resumes included.
OfLedgers(s) ==
    \/ sups[s].pc \in {"ledgers", "classify", "retry", "abandon"} \cup Found
    \/ sups[s].pc \in Walk /\ sups[s].from = "ledgers"
OfServing(s) ==
    sups[s].pc = "serve" \/ (sups[s].pc \in Walk /\ sups[s].from = "serve")
\* The steps that come before a landed candidate's claim is finished.
Owing == {"classify", "push", "finalize", "integrated", "landpush", "done"}

\* A task has one run that has tried to land, and then is not pending again.
TaskCalm ==
    /\ \A q, r \in Run : Contends(q) /\ Contends(r) /\ TaskOf[q] = TaskOf[r] => q = r
    /\ \A r \in Run : Contends(r) => ClaimLive(r) \/ tasks[TaskOf[r]].status \in {"blocked", "done"}
\* What is not landed yet has its claim; what was given up is not on the branch.
RunCalm(r) ==
    /\ runs[r].status \in {"working", "candidate_ready"} => ClaimLive(r) /\ ledger[r].state = "absent"
    /\ ledger[r].state = "abandoned" => ~InRef(r) /\ \A s \in Supervisor : ~Lands(s, r)
\* The runs of a wave are of tasks of their own.
WaveCalm(s) ==
    /\ sups[s].wave # {} => OfServing(s)
    /\ \A r \in sups[s].wave :
         /\ runs[r].status # "absent"
         /\ \A q \in Run : Contends(q) => TaskOf[q] # TaskOf[r]
         /\ \A q \in sups[s].wave : TaskOf[q] = TaskOf[r] => q = r
\* The list of unfinished landings is still right.
ListCalm(s) ==
    OfLedgers(s) =>
        \A item \in sups[s].todo :
            /\ ledger[item[1]].state # "absent" /\ item[2] = ledger[item[1]].cand
            /\ sups[s].pc # "ledgers" => item[1] # sups[s].run
\* So is what was read of Git and of the run.
FactCalm(s) ==
    LET r == sups[s].run
        pc == sups[s].pc
    IN  /\ pc \in {"classify", "retry", "abandon"} => ledger[r].state # "absent"
        /\ pc = "classify" => (InRef(r) => sups[s].has /\ sups[s].at > ledger[r].cand)
        /\ pc \in {"retry", "abandon"} => ledger[r].state = "prepared" /\ ~InRef(r)
        /\ pc \in Walk => runs[r].status # "working"
        /\ pc \in InLane \ {"verify"} => runs[r].status # "candidate_ready"
\* A landed candidate whose claim stands is on the supervisor's way.
DebtCalm(s) ==
    sups[s].pc # "down" /\ ~sups[s].failed =>
        \A r \in Run : InRef(r) /\ ClaimLive(r) =>
            \/ OfLedgers(s) /\ \E item \in sups[s].todo : item[1] = r
            \/ sups[s].run = r /\ sups[s].pc \in Owing
SupCalm(s) == WaveCalm(s) /\ ListCalm(s) /\ FactCalm(s) /\ DebtCalm(s)
OneUp == \A s \in Supervisor : sups[s].pc # "down" => lease = s

Calm == OneUp /\ TaskCalm /\ (\A r \in Run : RunCalm(r)) /\ (\A s \in Supervisor : SupCalm(s))
CalmInv == Undisturbed => Calm

LEMMA PcsApart ==
    /\ Away \cap WithRun = {} /\ Found \cap Walk = {} /\ "down" \notin WithRun
    /\ {"classify", "retry", "abandon"} \cap (Found \cup Walk) = {}
    /\ Away \cap (Found \cup Walk \cup {"classify", "retry", "abandon"} \cup Owing) = {}
    /\ "land" \notin InLane
    /\ WithRun = {"classify", "retry", "abandon"} \cup Found \cup Walk
  BY DEF Away, WithRun, Found, Walk, InLane, AfterSwap, Owing

LEMMA Alone ==
    ASSUME Calm, NEW s \in Supervisor, sups[s].pc # "down" \/ lease = None
    PROVE  /\ sups[s].pc # "down" => lease = s
           /\ \A t \in Supervisor \ {s} : sups[t].pc = "down"
  BY LandingAssumption DEF Calm, OneUp, LandingAssumption

\* What a step may write of the stores: what is r's.
Others(r) ==
    /\ \A q \in Run \ {r} : runs'[q] = runs[q] /\ ledger'[q] = ledger[q] /\ (InRef(q)' <=> InRef(q))
    /\ \A t \in Task \ {TaskOf[r]} : tasks'[t] = tasks[t]
\* The task is left alone, or leaves the claim that r has; or it is claimed by none
\* and no run of it has tried to land.
Touched(r) ==
    \/ tasks'[TaskOf[r]] = tasks[TaskOf[r]]
    \/ /\ ClaimLive(r) \/ tasks[TaskOf[r]].status # "in_progress"
       /\ \/ tasks'[TaskOf[r]].status \in {"blocked", "done"}
          \/ \A q \in Run : TaskOf[q] = TaskOf[r] => ~(Contends(q)')

LEMMA StoresCalm ==
    ASSUME LaneInv, Calm, NEW r \in Run, Others(r), Touched(r),
           \A q \in Run \ {r} : \A t \in Supervisor : Lands(t, q)' => Lands(t, q),
           Contends(r)' => Contends(r) \/ ClaimLive(r),
           RunCalm(r)'
    PROVE  TaskCalm' /\ \A q \in Run : RunCalm(q)'
<1>0. \A q \in Run : TaskOf[q] \in Task
  BY LandingAssumption DEF LandingAssumption
<1>1. \A q \in Run \ {r} : Contends(q)' => Contends(q)
  BY DEF Contends, Others
<1>2. \A q \in Run \ {r} : Contends(q) /\ TaskOf[q] = TaskOf[r] => ~ClaimLive(r)
  BY DEF Calm, TaskCalm, ClaimLive
<1>3. ASSUME NEW q \in Run, NEW p \in Run, Contends(q)', Contends(p)', TaskOf[q] = TaskOf[p]
      PROVE  q = p
  BY <1>1, <1>2, <1>3 DEF Calm, TaskCalm
<1>4. ASSUME NEW q \in Run, Contends(q)'
      PROVE  ClaimLive(q)' \/ tasks'[TaskOf[q]].status \in {"blocked", "done"}
  <2>1. ClaimLive(q) \/ tasks[TaskOf[q]].status \in {"blocked", "done"}
    BY <1>1, <1>4 DEF Calm, TaskCalm
  <2>2. CASE tasks'[TaskOf[q]] = tasks[TaskOf[q]]
    BY <2>1, <2>2 DEF ClaimLive
  <2>3. CASE tasks'[TaskOf[q]] # tasks[TaskOf[q]]
    <3>1. TaskOf[q] = TaskOf[r]
      BY <1>0, <2>3 DEF Others
    <3> QED BY <1>4, <2>3, <3>1 DEF Touched
  <2> QED BY <2>2, <2>3
<1>5. ASSUME NEW q \in Run \ {r} PROVE RunCalm(q)'
  <2>1. runs'[q] = runs[q] /\ ledger'[q] = ledger[q] /\ (InRef(q)' <=> InRef(q)) /\ RunCalm(q)
    BY DEF Others, Calm
  <2>2. ClaimLive(q) => ClaimLive(q)'
    <3>1. CASE TaskOf[q] = TaskOf[r]
      BY <3>1 DEF ClaimLive, Touched
    <3>2. CASE TaskOf[q] # TaskOf[r]
      BY <1>0, <3>2 DEF ClaimLive, Others
    <3> QED BY <3>1, <3>2
  <2> QED BY <2>1, <2>2 DEF RunCalm
<1>6. TaskCalm'
  BY <1>3, <1>4 DEF TaskCalm, ClaimLive
<1> QED BY <1>5, <1>6

\* A step that writes nothing, and lands nothing that was not landing.
LEMMA StoresSameCalm ==
    ASSUME LaneInv, Calm, UNCHANGED stores,
           \A q \in Run : \A t \in Supervisor : Lands(t, q)' => Contends(q) /\ (Lands(t, q) \/ ledger[q].state # "abandoned")
    PROVE  TaskCalm' /\ \A q \in Run : RunCalm(q)' /\ (Contends(q)' => Contends(q))
<1>1. /\ tasks' = tasks /\ runs' = runs /\ ledger' = ledger
      /\ \A q : InRef(q)' <=> InRef(q)
  BY BranchSame DEF stores
<1>2. \A q \in Run : Contends(q)' => Contends(q)
  BY <1>1 DEF Contends
<1>3. TaskCalm'
  BY <1>1, <1>2 DEF Calm, TaskCalm, ClaimLive
<1>4. \A q \in Run : RunCalm(q)'
  BY <1>1 DEF Calm, RunCalm, ClaimLive
<1> QED BY <1>2, <1>3, <1>4

LEMMA DownCalm ==
    ASSUME NEW t \in Supervisor, sups'[t].pc = "down", sups'[t].wave = {}
    PROVE  SupCalm(t)'
  BY PcsApart DEF SupCalm, WaveCalm, ListCalm, FactCalm, DebtCalm, OfLedgers, OfServing, Walk, Away,
       InLane, AfterSwap, Found

\* Everybody but s is down, and stays so.
LEMMA CalmFrom ==
    ASSUME LaneInv, Calm, NEW s \in Supervisor, NEW v \in SupState,
           sups' = [sups EXCEPT ![s] = v], \A t \in Supervisor \ {s} : sups[t].pc = "down",
           v.pc # "down" => lease' = s, SupCalm(s)',
           TaskCalm', \A q \in Run : RunCalm(q)'
    PROVE  Calm'
<1>1. sups'[s] = v /\ \A t \in Supervisor \ {s} : sups'[t] = sups[t]
  BY DEF LaneInv, TypeOK
<1>2. OneUp'
  BY <1>1 DEF OneUp
<1>3. ASSUME NEW t \in Supervisor \ {s} PROVE SupCalm(t)'
  <2>1. sups[t].pc = "down" /\ WaveCalm(t)
    BY DEF Calm, SupCalm
  <2>2. sups[t].wave = {}
    BY <2>1 DEF WaveCalm, OfServing, Walk, InLane, AfterSwap
  <2> QED BY <1>1, <2>1, <2>2, DownCalm
<1> QED BY <1>2, <1>3 DEF Calm

LEMMA WaveKept ==
    ASSUME Calm, NEW s \in Supervisor, NEW v \in SupState, sups'[s] = v,
           v.wave \subseteq sups[s].wave, v.wave # {} => OfServing(s)',
           \A q \in Run : Contends(q)' => Contends(q),
           \A q \in Run : runs[q].status # "absent" => runs'[q].status # "absent"
    PROVE  WaveCalm(s)'
<1>1. WaveCalm(s) /\ \A r \in v.wave : r \in Run
  BY DEF Calm, SupCalm, SupState
<1> QED BY <1>1 DEF WaveCalm

\* The claims after a step that writes what is r's.
LEMMA ClaimsKept ==
    ASSUME NEW r \in Run, Others(r),
           \/ tasks'[TaskOf[r]] = tasks[TaskOf[r]]
           \/ tasks'[TaskOf[r]].status # "in_progress"
    PROVE  \A q \in Run : ClaimLive(q)' => ClaimLive(q)
<1>1. \A q \in Run : TaskOf[q] \in Task
  BY LandingAssumption DEF LandingAssumption
<1> QED BY <1>1 DEF Others, ClaimLive

\* A step of s about its candidate r, after which it is still about r.
LEMMA OnCalm ==
    ASSUME LaneInv, Calm, NEW s \in Supervisor, NEW r \in Run, sups[s].run = r,
           sups[s].pc \in WithRun, NEW v \in SupState, sups' = [sups EXCEPT ![s] = v],
           lease' = lease, v.run = r, v.pc \in WithRun \ {"classify"}, v.todo = sups[s].todo,
           v.wave = sups[s].wave, v.failed = sups[s].failed,
           OfLedgers(s)' <=> OfLedgers(s), OfServing(s)' <=> OfServing(s),
           v.pc \in Walk => Contends(r),
           ledger'[r].state # "absent" => Contends(r),
           Others(r), Touched(r),
           \/ tasks'[TaskOf[r]] = tasks[TaskOf[r]]
           \/ tasks'[TaskOf[r]].status # "in_progress",
           runs[r].status # "absent" => runs'[r].status # "absent",
           RunCalm(r)', FactCalm(s)',
           ~sups[s].failed /\ InRef(r)' /\ ClaimLive(r)' => v.pc \in Owing
    PROVE  Calm'
<1>1. /\ lease' = s /\ sups'[s] = v /\ sups[s].pc # "ledgers" /\ v.pc # "ledgers"
      /\ \A t \in Supervisor \ {s} : sups[t].pc = "down" /\ sups'[t] = sups[t]
      /\ SupCalm(s) /\ sups[s].pc # "down" /\ v.pc # "down"
      /\ sups[s].todo \subseteq Run \X Nat
  BY Alone, PcsApart DEF LaneInv, TypeOK, Calm, SupState, Tip, Away
<1>2. \A q \in Run \ {r} : \A t \in Supervisor : Lands(t, q)' => Lands(t, q)
  BY <1>1 DEF Lands
<1>3. Contends(r)' => Contends(r)
  <2>1. ASSUME NEW t \in Supervisor, Lands(t, r)' PROVE Contends(r)
    BY <1>1, <2>1 DEF Lands, Contends
  <2> QED BY <2>1 DEF Contends
<1>4. TaskCalm' /\ \A q \in Run : RunCalm(q)'
  BY <1>2, <1>3, StoresCalm
<1>5. \A q \in Run : Contends(q)' => Contends(q)
  BY <1>2, <1>3 DEF Contends, Others
<1>6. WaveCalm(s)'
  <2>1. v.wave # {} => OfServing(s)'
    BY <1>1 DEF SupCalm, WaveCalm
  <2>2. \A q \in Run : runs[q].status # "absent" => runs'[q].status # "absent"
    BY DEF Others
  <2> QED BY <1>1, <1>5, <2>1, <2>2, WaveKept
<1>7. ListCalm(s)'
  <2>1. ListCalm(s)
    BY <1>1 DEF SupCalm
  <2> QED BY <1>1, <2>1 DEF ListCalm, Others
<1>8. DebtCalm(s)'
  <2>1. \A q \in Run : ClaimLive(q)' => ClaimLive(q)
    BY ClaimsKept
  <2>2. ASSUME NEW q \in Run \ {r}, InRef(q)', ClaimLive(q)', ~sups[s].failed
        PROVE  OfLedgers(s) /\ \E item \in sups[s].todo : item[1] = q
    <3>1. InRef(q) /\ ClaimLive(q)
      BY <2>1, <2>2 DEF Others
    <3> QED BY <1>1, <2>2, <3>1 DEF SupCalm, DebtCalm
  <2> QED BY <1>1, <2>2 DEF DebtCalm
<1>9. SupCalm(s)'
  BY <1>6, <1>7, <1>8 DEF SupCalm
<1> QED BY <1>1, <1>4, <1>9, CalmFrom

\* What becomes of s when it is through with its candidate; f: an error is recorded.
Through(s, v, f) ==
    \/ v = Idle
    \/ /\ v.todo = sups[s].todo /\ v.wave = sups[s].wave /\ v.failed = (sups[s].failed \/ f)
       /\ v.pc \in {"ledgers", "orphans", "serve"} /\ lease' = lease
       /\ v.pc = "ledgers" <=> OfLedgers(s)
       /\ OfServing(s) => v.pc = "serve"

LEMMA ThroughCalm ==
    ASSUME LaneInv, Calm, NEW s \in Supervisor, NEW r \in Run, sups[s].run = r,
           sups[s].pc \in WithRun, NEW v \in SupState, sups' = [sups EXCEPT ![s] = v],
           NEW f \in BOOLEAN, Through(s, v, f),
           ledger'[r].state # "absent" => Contends(r),
           Others(r), Touched(r),
           \/ tasks'[TaskOf[r]] = tasks[TaskOf[r]]
           \/ tasks'[TaskOf[r]].status # "in_progress",
           runs'[r].status \notin {"absent", "working", "candidate_ready"},
           ledger'[r].state = "abandoned" => ~(InRef(r)'),
           InRef(r)' /\ ClaimLive(r)' => f \/ v = Idle
    PROVE  Calm'
<1>1. /\ lease = s /\ sups'[s] = v /\ sups[s].pc # "ledgers" /\ v.pc \in Away
      /\ \A t \in Supervisor \ {s} : sups[t].pc = "down" /\ sups'[t] = sups[t]
      /\ SupCalm(s) /\ sups[s].pc # "down"
      /\ sups[s].todo \subseteq Run \X Nat
  BY Alone, PcsApart DEF LaneInv, TypeOK, Calm, SupState, Tip, Away, Through, Idle
<1>2. \A q \in Run : \A t \in Supervisor : Lands(t, q)' => Lands(t, q)
  BY <1>1, PcsApart DEF Lands
<1>3. \A q \in Run : Contends(q)' => Contends(q)
  BY <1>2 DEF Contends, Others
<1>4. TaskCalm' /\ \A q \in Run : RunCalm(q)'
  <2>1. \A t \in Supervisor : ~(Lands(t, r)')
    BY <1>1, PcsApart DEF Lands, Walk, InLane, AfterSwap
  <2>2. RunCalm(r)'
    BY <2>1 DEF RunCalm
  <2> QED BY <1>2, <1>3, <2>2, StoresCalm
<1>5. CASE v = Idle
  <2>1. v.pc = "down" /\ v.wave = {}
    BY <1>5 DEF Idle
  <2>2. SupCalm(s)'
    BY <1>1, <2>1, DownCalm
  <2> QED BY <1>1, <1>4, <2>1, <2>2, CalmFrom
<1>6. CASE v # Idle
  <2>1. /\ v.todo = sups[s].todo /\ v.wave = sups[s].wave /\ v.failed = (sups[s].failed \/ f)
        /\ v.pc \in {"ledgers", "orphans", "serve"} /\ lease' = lease
        /\ v.pc = "ledgers" <=> OfLedgers(s)
        /\ OfServing(s) => v.pc = "serve"
    BY <1>6 DEF Through
  <2>2. /\ OfLedgers(s)' <=> OfLedgers(s)
        /\ OfServing(s)' <=> v.pc = "serve"
    BY <1>1, <2>1, PcsApart DEF OfLedgers, OfServing, Away
  <2>3. WaveCalm(s)'
    <3>1. v.wave # {} => OfServing(s)'
      BY <1>1, <2>1, <2>2 DEF SupCalm, WaveCalm
    <3>2. \A q \in Run : runs[q].status # "absent" => runs'[q].status # "absent"
      BY DEF Others
    <3> QED BY <1>1, <1>3, <2>1, <3>1, <3>2, WaveKept
  <2>4. ListCalm(s)'
    <3>1. ListCalm(s)
      BY <1>1 DEF SupCalm
    <3>2. CASE OfLedgers(s)
      <4>1. \A item \in sups[s].todo :
              item[1] \in Run \ {r} /\ ledger[item[1]].state # "absent" /\ item[2] = ledger[item[1]].cand
        BY <1>1, <3>1, <3>2 DEF ListCalm
      <4> QED BY <1>1, <2>1, <2>2, <3>2, <4>1 DEF ListCalm, Others
    <3> QED BY <2>2, <3>2 DEF ListCalm
  <2>5. FactCalm(s)'
    <3>1. v.pc \notin {"classify", "retry", "abandon"} \cup Walk /\ v.pc \notin InLane
      BY <1>1, PcsApart DEF Walk
    <3> QED BY <1>1, <3>1 DEF FactCalm
  <2>6. DebtCalm(s)'
    <3>1. \A q \in Run : ClaimLive(q)' => ClaimLive(q)
      BY ClaimsKept
    <3>2. ASSUME NEW q \in Run \ {r}, InRef(q)', ClaimLive(q)', ~sups[s].failed
          PROVE  OfLedgers(s) /\ \E item \in sups[s].todo : item[1] = q
      <4>1. InRef(q) /\ ClaimLive(q)
        BY <3>1, <3>2 DEF Others
      <4> QED BY <1>1, <3>2, <4>1 DEF SupCalm, DebtCalm
    <3>3. ~v.failed => ~sups[s].failed /\ ~(InRef(r)' /\ ClaimLive(r)')
      BY <1>6, <2>1
    <3>4. ASSUME NEW q \in Run, InRef(q)', ClaimLive(q)', ~v.failed
          PROVE  OfLedgers(s)' /\ \E item \in v.todo : item[1] = q
      BY <2>1, <2>2, <3>2, <3>3, <3>4
    <3> QED BY <1>1, <3>4 DEF DebtCalm
  <2>7. SupCalm(s)'
    BY <2>3, <2>4, <2>5, <2>6 DEF SupCalm
  <2> QED BY <1>1, <1>4, <2>1, <2>7, CalmFrom
<1> QED BY <1>5, <1>6

\* How the actions leave a candidate.
LEMMA ThroughIs ==
    ASSUME LaneInv, NEW s \in Supervisor, sups[s].pc \in WithRun, NEW f \in BOOLEAN,
           \/ NextItem(s, f) /\ sups[s].pc \in Walk /\ lease' = lease
           \/ NextLedger(s, f) /\ sups[s].pc \notin Walk /\ lease' = lease
           \/ sups' = [sups EXCEPT ![s] = Idle]
    PROVE  \E v \in SupState : sups' = [sups EXCEPT ![s] = v] /\ Through(s, v, f)
<1>1. sups[s] \in SupState /\ sups[s].from \in {"ledgers", "orphans", "serve"} /\ sups[s].failed \in BOOLEAN
  BY DEF LaneInv, TypeOK, SupState
<1>2. CASE NextItem(s, f) /\ sups[s].pc \in Walk /\ lease' = lease
  <2> DEFINE v == [sups[s] EXCEPT !.pc = sups[s].from, !.run = None, !.failed = @ \/ f]
  <2>1. /\ v \in SupState /\ v.pc = sups[s].from /\ v.todo = sups[s].todo /\ v.wave = sups[s].wave
        /\ v.failed = (sups[s].failed \/ f)
    BY <1>1 DEF SupState, PC
  <2>2. sups' = [sups EXCEPT ![s] = v]
    BY <1>2 DEF NextItem
  <2>3. /\ sups[s].from = "ledgers" <=> OfLedgers(s)
        /\ OfServing(s) => sups[s].from = "serve"
    BY <1>2, PcsApart DEF OfLedgers, OfServing, Away
  <2>4. lease' = lease
    BY <1>2
  <2> HIDE DEF v
  <2> QED BY <1>1, <2>1, <2>2, <2>3, <2>4 DEF Through
<1>3. CASE NextLedger(s, f) /\ sups[s].pc \notin Walk /\ lease' = lease
  <2> DEFINE v == [sups[s] EXCEPT !.pc = "ledgers", !.run = None, !.failed = @ \/ f]
  <2>1. /\ v \in SupState /\ v.pc = "ledgers" /\ v.todo = sups[s].todo /\ v.wave = sups[s].wave
        /\ v.failed = (sups[s].failed \/ f)
    BY <1>1 DEF SupState, PC
  <2>2. sups' = [sups EXCEPT ![s] = v]
    BY <1>3 DEF NextLedger
  <2>3. OfLedgers(s) /\ ~OfServing(s)
    BY <1>3, PcsApart DEF OfLedgers, OfServing, Away
  <2>4. lease' = lease
    BY <1>3
  <2> HIDE DEF v
  <2> QED BY <2>1, <2>2, <2>3, <2>4 DEF Through
<1>4. CASE sups' = [sups EXCEPT ![s] = Idle]
  BY <1>4, IdleTyped DEF Through
<1> QED BY <1>2, <1>3, <1>4

LEMMA GotoCalm ==
    ASSUME LaneInv, Calm, NEW s \in Supervisor, NEW r \in Run, sups[s].run = r,
           sups[s].pc \in WithRun, NEW pc \in WithRun \ {"classify"}, Goto(s, pc),
           lease' = lease, pc \in Walk <=> sups[s].pc \in Walk,
           ledger[r].state # "absent" \/ sups[s].pc \in Walk,
           Others(r), Touched(r),
           \/ tasks'[TaskOf[r]] = tasks[TaskOf[r]]
           \/ tasks'[TaskOf[r]].status # "in_progress",
           runs'[r].status \notin {"absent", "working", "candidate_ready"},
           ledger'[r].state # "abandoned",
           pc \in {"retry", "abandon"} => ledger'[r].state = "prepared" /\ ~(InRef(r)'),
           ~sups[s].failed /\ InRef(r)' /\ ClaimLive(r)' => pc \in Owing
    PROVE  Calm'
<1>1. pc \in PC
  BY DEF PC, WithRun
<1>2. PICK v \in SupState :
        /\ sups' = [sups EXCEPT ![s] = v] /\ v.pc = pc /\ v.run = sups[s].run
        /\ v.todo = sups[s].todo /\ v.from = sups[s].from /\ v.wave = sups[s].wave
        /\ v.failed = sups[s].failed
  BY <1>1, GotoIs DEF LaneInv
<1>3. sups'[s] = v
  BY <1>2 DEF LaneInv, TypeOK
<1>4. Contends(r)
  BY DEF Contends, Lands
<1>5. OfLedgers(s)' <=> OfLedgers(s)
  BY <1>2, <1>3, PcsApart DEF OfLedgers, Away
<1>6. OfServing(s)' <=> OfServing(s)
  BY <1>2, <1>3, PcsApart DEF OfServing, Away
<1>7. FactCalm(s)'
  <2>1. pc \notin {"retry", "abandon"} => pc \notin {"classify", "retry", "abandon"}
    OBVIOUS
  <2> QED BY <1>2, <1>3, <2>1 DEF FactCalm, Walk
<1>8. RunCalm(r)'
  BY DEF RunCalm
<1>9. ledger'[r].state # "absent" => Contends(r)
  BY <1>4
<1> QED BY <1>2, <1>4, <1>5, <1>6, <1>7, <1>8, <1>9, OnCalm

LEMMA OthersFrom ==
    ASSUME NEW r \in Run, ref' = ref,
           \A q \in Run \ {r} : runs'[q] = runs[q],
           \A q \in Run \ {r} : ledger'[q] = ledger[q],
           \A t \in Task \ {TaskOf[r]} : tasks'[t] = tasks[t]
    PROVE  Others(r) /\ (InRef(r)' <=> InRef(r))
  BY BranchSame DEF Others

\* What a reconciliation of landings knows of its candidate.
LEMMA Reconciled ==
    ASSUME LaneInv, Calm, NEW s \in Supervisor,
           sups[s].pc \in {"classify", "retry", "abandon"} \cup Found
    PROVE  \E r \in Run :
             /\ sups[s].run = r /\ sups[s].pc \in WithRun /\ sups[s].pc \notin Walk
             /\ ledger[r].state # "absent" /\ TaskOf[r] \in Task
             /\ runs[r].status \notin {"absent", "working", "candidate_ready"}
             /\ InRef(r) => ledger[r].state # "abandoned"
             /\ sups[s].pc \in Found => InRef(r)
             /\ FactCalm(s)
             /\ Contends(r)
<1> DEFINE r == sups[s].run
<1>1. sups[s].pc \in WithRun /\ sups[s].pc \notin Walk
  BY PcsApart
<1>2. r \in Run /\ runs[r].status # "absent" /\ (sups[s].pc \in Found => InRef(r))
  BY <1>1 DEF LaneInv, SupGood
<1>3. FactCalm(s) /\ RunCalm(r) /\ RunGood(r)
  BY <1>2 DEF Calm, SupCalm, LaneInv
<1>4. ledger[r].state # "absent"
  BY <1>2, <1>3 DEF FactCalm, RunGood
<1>5. runs[r].status \notin {"absent", "working", "candidate_ready"} /\ (InRef(r) => ledger[r].state # "abandoned")
  BY <1>2, <1>3, <1>4 DEF RunCalm
<1>6. TaskOf[r] \in Task /\ Contends(r)
  BY <1>2, <1>4, LandingAssumption DEF LandingAssumption, Contends
<1> QED BY <1>1, <1>2, <1>3, <1>4, <1>5, <1>6

LEMMA ClassifyCalm ==
    ASSUME LaneInv, Calm, NEW s \in Supervisor, Classify(s)
    PROVE  Calm'
<1>0. sups[s].pc = "classify" /\ UNCHANGED <<tasks, runs, ref, lease>> /\ TypeOK /\ sups[s] \in SupState
  BY SupTyped DEF Classify, At, LaneInv
<1>1. PICK r \in Run :
        /\ sups[s].run = r /\ sups[s].pc \in WithRun /\ sups[s].pc \notin Walk
        /\ ledger[r].state # "absent" /\ TaskOf[r] \in Task
        /\ runs[r].status \notin {"absent", "working", "candidate_ready"}
        /\ InRef(r) => ledger[r].state # "abandoned"
        /\ FactCalm(s) /\ Contends(r)
  BY <1>0, Reconciled
<1>2. /\ InRef(r) => sups[s].has /\ sups[s].at > ledger[r].cand
      /\ InRef(r) => ledger[r].expected = ledger[r].cand
      /\ sups[s].at \in Nat /\ ledger[r].cand \in Nat
      /\ sups[s].has => InRef(r)
  BY <1>0, <1>1 DEF FactCalm, LaneInv, RunGood, TypeOK, StoresTyped, LedgerTyped, SupState, Tip, SupGood
<1>3. UNCHANGED ledger => Others(r) /\ (InRef(r)' <=> InRef(r))
  BY <1>0, OthersFrom
<1>4. Touched(r) /\ tasks'[TaskOf[r]] = tasks[TaskOf[r]]
  BY <1>0 DEF Touched
<1>5. runs'[r].status \notin {"absent", "working", "candidate_ready"}
  BY <1>0, <1>1
<1>6. CASE ledger[r].state = "prepared" /\ sups[s].at = ledger[r].expected
  <2>1. UNCHANGED ledger /\ sups' = [sups EXCEPT ![s].pc = "land", ![s].from = "ledgers"]
    BY <1>1, <1>6 DEF Classify
  <2> DEFINE v == [sups[s] EXCEPT !.pc = "land", !.from = "ledgers"]
  <2>2. /\ v \in SupState /\ v.pc = "land" /\ v.run = r /\ v.todo = sups[s].todo
        /\ v.from = "ledgers" /\ v.wave = sups[s].wave /\ v.failed = sups[s].failed
    BY <1>0, <1>1 DEF SupState, PC
  <2>3. sups' = [sups EXCEPT ![s] = v] /\ sups'[s] = v
    BY <1>0, <2>1 DEF TypeOK
  <2>4. ~InRef(r) /\ Others(r) /\ ~(InRef(r)') /\ ledger' = ledger
    BY <1>2, <1>3, <1>6, <2>1
  <2> HIDE DEF v
  <2>5. "land" \in Walk /\ "land" \in WithRun \ {"classify"} /\ "land" \notin {"retry", "abandon", "serve"}
        /\ "land" \notin InLane
    BY PcsApart DEF Walk, WithRun
  <2>6. OfLedgers(s)' /\ OfLedgers(s)
    BY <1>0, <2>2, <2>3, <2>5 DEF OfLedgers
  <2>7. ~(OfServing(s)') /\ ~OfServing(s)
    BY <1>0, <1>1, <2>2, <2>3 DEF OfServing
  <2>8. FactCalm(s)'
    BY <1>5, <2>2, <2>3, <2>5 DEF FactCalm
  <2>9. RunCalm(r)'
    BY <1>5, <1>6, <2>4 DEF RunCalm
  <2> QED BY <1>0, <1>1, <1>4, <1>5, <2>2, <2>3, <2>4, <2>5, <2>6, <2>7, <2>8, <2>9, OnCalm
<1>7. CASE ledger[r].state = "prepared" /\ sups[s].at # ledger[r].expected /\ ~sups[s].has
  <2>1. UNCHANGED ledger /\ Goto(s, "retry")
    BY <1>1, <1>7 DEF Classify
  <2>2. "retry" \in WithRun \ {"classify"} /\ "retry" \notin Walk
    BY PcsApart
  <2>3. ~(InRef(r)') /\ ledger'[r].state = "prepared" /\ Others(r)
    BY <1>2, <1>3, <1>7, <2>1
  <2> QED BY <1>0, <1>1, <1>4, <1>5, <2>1, <2>2, <2>3, GotoCalm
<1>8. CASE ledger[r].state = "prepared" /\ sups[s].at # ledger[r].expected /\ sups[s].has
  <2>1. ledger' = [ledger EXCEPT ![r].state = "integrated"] /\ Goto(s, "push")
    BY <1>1, <1>8 DEF Classify
  <2>2. "push" \in WithRun \ {"classify"} /\ "push" \notin Walk /\ "push" \in Owing
    BY PcsApart DEF Found, Owing
  <2>3. ledger'[r].state = "integrated" /\ \A q \in Run \ {r} : ledger'[q] = ledger[q]
    BY <1>0, <1>1, <1>2, <1>8, <2>1, LedgerWrites
  <2>4. Others(r)
    BY <1>0, <2>3, OthersFrom
  <2> QED BY <1>0, <1>1, <1>4, <1>5, <2>1, <2>2, <2>3, <2>4, GotoCalm
<1>9. CASE ledger[r].state # "prepared"
  <2>1. /\ UNCHANGED ledger
        /\ \/ Goto(s, "push") /\ (sups[s].has \/ ledger[r].state = "queue_finalized")
           \/ NextLedger(s, TRUE)
    BY <1>1, <1>9 DEF Classify
  <2>2. CASE Goto(s, "push") /\ (sups[s].has \/ ledger[r].state = "queue_finalized")
    <3>1. "push" \in WithRun \ {"classify"} /\ "push" \notin Walk /\ "push" \in Owing
      BY PcsApart DEF Found, Owing
    <3>2. InRef(r)
      BY <1>2, <2>2 DEF LaneInv, RunGood
    <3> QED BY <1>0, <1>1, <1>3, <1>4, <1>5, <2>1, <2>2, <3>1, <3>2, GotoCalm
  <2>3. CASE NextLedger(s, TRUE)
    <3>1. PICK v \in SupState : sups' = [sups EXCEPT ![s] = v] /\ Through(s, v, TRUE)
      BY <1>0, <1>1, <2>3, ThroughIs
    <3> QED BY <1>0, <1>1, <1>3, <1>4, <1>5, <2>1, <3>1, ThroughCalm
  <2> QED BY <2>1, <2>2, <2>3
<1> QED BY <1>6, <1>7, <1>8, <1>9

LEMMA ReconcilingCalm ==
    ASSUME LaneInv, Calm, NEW s \in Supervisor,
           RetryOrAbandon(s) \/ Abandon(s) \/ PushAgain(s) \/ FinalizeQueue(s)
             \/ MarkReconciled(s) \/ CloseLedger(s)
    PROVE  Calm'
<1>0. /\ sups[s].pc \in {"retry", "abandon"} \cup Found /\ UNCHANGED <<ref, lease>> /\ TypeOK
      /\ sups[s] \in SupState /\ SupGood(s)
  BY SupTyped
     DEF RetryOrAbandon, Abandon, PushAgain, FinalizeQueue, MarkReconciled, CloseLedger, At, LaneInv, Found, stores
<1>1. PICK r \in Run :
        /\ sups[s].run = r /\ sups[s].pc \in WithRun /\ sups[s].pc \notin Walk
        /\ ledger[r].state # "absent" /\ TaskOf[r] \in Task
        /\ runs[r].status \notin {"absent", "working", "candidate_ready"}
        /\ InRef(r) => ledger[r].state # "abandoned"
        /\ sups[s].pc \in Found => InRef(r)
        /\ FactCalm(s) /\ Contends(r)
  BY <1>0, Reconciled
<1>T. UNCHANGED tasks => Touched(r) /\ tasks'[TaskOf[r]] = tasks[TaskOf[r]]
  BY DEF Touched
<1>L. /\ {"push", "finalize", "mark", "close", "abandon"} \subseteq WithRun \ {"classify"}
      /\ \A pc \in {"push", "finalize", "mark", "close", "abandon"} : pc \notin Walk /\ pc \notin {"retry"}
      /\ {"push", "finalize"} \subseteq Owing /\ {"push", "finalize", "mark", "close"} = Found
  BY PcsApart DEF Found, Owing
<1>N. ASSUME NEW f \in BOOLEAN, NextLedger(s, f)
      PROVE \E v \in SupState : sups' = [sups EXCEPT ![s] = v] /\ Through(s, v, f)
  BY <1>0, <1>1, <1>N, ThroughIs
<1>2. CASE RetryOrAbandon(s)
  <2>1. /\ sups[s].pc = "retry" /\ tasks' = tasks /\ runs' = runs /\ ledger' = ledger
        /\ ledger[r].state = "prepared" /\ ~InRef(r)
    BY <1>1, <1>2 DEF RetryOrAbandon, At, stores, FactCalm
  <2>2. Others(r) /\ ~(InRef(r)')
    BY <1>0, <2>1, OthersFrom
  <2>3. CASE Goto(s, "abandon")
    BY <1>0, <1>1, <1>T, <1>L, <2>1, <2>2, <2>3, GotoCalm
  <2>4. CASE sups' = [sups EXCEPT ![s].pc = "land", ![s].from = "ledgers"]
    <3> DEFINE v == [sups[s] EXCEPT !.pc = "land", !.from = "ledgers"]
    <3>1. /\ v \in SupState /\ v.pc = "land" /\ v.run = r /\ v.todo = sups[s].todo
          /\ v.from = "ledgers" /\ v.wave = sups[s].wave /\ v.failed = sups[s].failed
      BY <1>0, <1>1 DEF SupState, PC
    <3>2. sups' = [sups EXCEPT ![s] = v] /\ sups'[s] = v
      BY <1>0, <2>4 DEF TypeOK
    <3> HIDE DEF v
    <3>3. "land" \in Walk /\ "land" \in WithRun \ {"classify"} /\ "land" \notin {"retry", "abandon", "serve"}
          /\ "land" \notin InLane
      BY PcsApart DEF Walk, WithRun
    <3>4. OfLedgers(s)' /\ OfLedgers(s)
      BY <2>1, <3>1, <3>2, <3>3 DEF OfLedgers
    <3>5. ~(OfServing(s)') /\ ~OfServing(s)
      BY <1>1, <2>1, <3>1, <3>2 DEF OfServing
    <3>6. FactCalm(s)'
      BY <1>1, <2>1, <3>1, <3>2, <3>3 DEF FactCalm
    <3>7. RunCalm(r)'
      BY <1>1, <2>1 DEF RunCalm
    <3> QED BY <1>0, <1>1, <1>T, <2>1, <2>2, <3>1, <3>2, <3>3, <3>4, <3>5, <3>6, <3>7, OnCalm
  <2> QED BY <1>2, <2>3, <2>4 DEF RetryOrAbandon
<1>3. CASE Abandon(s)
  <2>1. /\ sups[s].pc = "abandon" /\ tasks' = tasks /\ ~InRef(r)
        /\ \/ /\ ledger' = [ledger EXCEPT ![r].state = "abandoned"]
              /\ Becomes(r, "cas_failed") /\ NextLedger(s, FALSE)
           \/ NextLedger(s, TRUE) /\ UNCHANGED <<ledger, runs>>
    BY <1>1, <1>3 DEF Abandon, At, FactCalm
  <2>2. "cas_failed" \in RunState \ {"absent"}
    BY DEF RunState
  <2>3. /\ \A q \in Run \ {r} : runs'[q] = runs[q]
        /\ \A q \in Run \ {r} : ledger'[q] = ledger[q]
        /\ runs'[r].status \notin {"absent", "working", "candidate_ready"}
    BY <1>0, <1>1, <2>1, <2>2, BecomesWrites, LedgerWrites
  <2>4. Others(r) /\ ~(InRef(r)')
    BY <1>0, <2>1, <2>3, OthersFrom
  <2>5. PICK f \in BOOLEAN : NextLedger(s, f)
    BY <2>1
  <2>6. PICK v \in SupState : sups' = [sups EXCEPT ![s] = v] /\ Through(s, v, f)
    BY <1>N, <2>5
  <2> QED BY <1>0, <1>1, <1>T, <2>1, <2>3, <2>4, <2>6, ThroughCalm
<1>4. CASE PushAgain(s)
  <2>1. /\ sups[s].pc = "push" /\ tasks' = tasks /\ runs' = runs
        /\ Goto(s, "finalize") \/ NextLedger(s, TRUE)
        /\ UNCHANGED ledger \/ RecordPushed(r)
    BY <1>1, <1>4 DEF PushAgain, At
  <2>2. /\ \A q \in Run \ {r} : ledger'[q] = ledger[q]
        /\ ledger'[r].state = ledger[r].state
    BY <1>0, <1>1, <2>1 DEF RecordPushed, TypeOK, StoresTyped, LedgerTyped
  <2>3. Others(r) /\ (InRef(r)' <=> InRef(r)) /\ InRef(r)
    BY <1>0, <1>1, <1>L, <2>1, <2>2, OthersFrom
  <2>4. CASE Goto(s, "finalize")
    BY <1>0, <1>1, <1>T, <1>L, <2>1, <2>2, <2>3, <2>4, GotoCalm
  <2>5. CASE NextLedger(s, TRUE)
    <3>1. PICK v \in SupState : sups' = [sups EXCEPT ![s] = v] /\ Through(s, v, TRUE)
      BY <1>N, <2>5
    <3> QED BY <1>0, <1>1, <1>T, <2>1, <2>2, <2>3, <3>1, ThroughCalm
  <2> QED BY <2>1, <2>4, <2>5
<1>5. CASE FinalizeQueue(s)
  <2>1. sups[s].pc = "finalize" /\ runs' = runs /\ ledger' = ledger /\ InRef(r)
    BY <1>1, <1>L, <1>5 DEF FinalizeQueue, At
  <2>2. \/ tasks[TaskOf[r]].status = "done" /\ Goto(s, "mark") /\ UNCHANGED tasks
        \/ ClaimLive(r) /\ Ends(TaskOf[r], "done", "autodev_reviewed") /\ Goto(s, "mark")
        \/ NextLedger(s, TRUE) /\ UNCHANGED tasks
    BY <1>1, <1>5 DEF FinalizeQueue
  <2>3. CASE NextLedger(s, TRUE) /\ UNCHANGED tasks
    <3>1. PICK v \in SupState : sups' = [sups EXCEPT ![s] = v] /\ Through(s, v, TRUE)
      BY <1>N, <2>3
    <3>2. Others(r) /\ (InRef(r)' <=> InRef(r))
      BY <1>0, <2>1, <2>3, OthersFrom
    <3> QED BY <1>0, <1>1, <1>T, <2>1, <2>3, <3>1, <3>2, ThroughCalm
  <2>4. CASE /\ Goto(s, "mark")
             /\ \/ tasks[TaskOf[r]].status = "done" /\ UNCHANGED tasks
                \/ ClaimLive(r) /\ Ends(TaskOf[r], "done", "autodev_reviewed")
    <3>1. /\ tasks'[TaskOf[r]].status = "done"
          /\ \A t \in Task \ {TaskOf[r]} : tasks'[t] = tasks[t]
      BY <1>0, <1>1, <2>1, <2>4, EndsWrites DEF ClaimLive
    <3>2. Touched(r)
      BY <2>4, <3>1 DEF Touched
    <3>3. Others(r) /\ (InRef(r)' <=> InRef(r)) /\ ~(ClaimLive(r)')
      BY <1>0, <2>1, <3>1, OthersFrom DEF ClaimLive
    <3> QED BY <1>0, <1>1, <1>L, <2>1, <2>4, <3>1, <3>2, <3>3, GotoCalm
  <2> QED BY <2>2, <2>3, <2>4
<1>6. CASE MarkReconciled(s)
  <2>1. /\ sups[s].pc = "mark" /\ tasks' = tasks /\ ledger' = ledger /\ InRef(r)
        /\ tasks[TaskOf[r]].status = "done" /\ Becomes(r, "done") /\ Goto(s, "close")
    BY <1>0, <1>1, <1>L, <1>6 DEF MarkReconciled, At, SupGood
  <2>2. "done" \in RunState \ {"absent"}
    BY DEF RunState
  <2>3. /\ \A q \in Run \ {r} : runs'[q] = runs[q]
        /\ runs'[r].status = "done"
    BY <1>0, <1>1, <2>1, <2>2, BecomesWrites
  <2>4. Others(r) /\ ~(ClaimLive(r)')
    BY <1>0, <2>1, <2>3, OthersFrom DEF ClaimLive
  <2> QED BY <1>0, <1>1, <1>T, <1>L, <2>1, <2>3, <2>4, GotoCalm
<1>7. CASE CloseLedger(s)
  <2>1. /\ sups[s].pc = "close" /\ tasks' = tasks /\ runs' = runs /\ InRef(r)
        /\ tasks[TaskOf[r]].status = "done"
        /\ NextLedger(s, FALSE) \/ NextLedger(s, TRUE)
        /\ \/ UNCHANGED ledger
           \/ ledger' = [ledger EXCEPT ![r].state = "queue_finalized"]
    BY <1>0, <1>1, <1>L, <1>7 DEF CloseLedger, At, SupGood
  <2>2. /\ \A q \in Run \ {r} : ledger'[q] = ledger[q]
        /\ ledger'[r].state # "abandoned"
    BY <1>0, <1>1, <2>1, LedgerWrites
  <2>3. Others(r) /\ ~(ClaimLive(r)')
    BY <1>0, <2>1, <2>2, OthersFrom DEF ClaimLive
  <2>4. PICK f \in BOOLEAN : NextLedger(s, f)
    BY <2>1
  <2>5. PICK v \in SupState : sups' = [sups EXCEPT ![s] = v] /\ Through(s, v, f)
    BY <1>N, <2>4
  <2>6. /\ Touched(r) /\ tasks'[TaskOf[r]] = tasks[TaskOf[r]]
        /\ ledger'[r].state # "absent" => Contends(r)
        /\ runs'[r].status \notin {"absent", "working", "candidate_ready"}
        /\ ledger'[r].state = "abandoned" => ~(InRef(r)')
        /\ InRef(r)' /\ ClaimLive(r)' => f \/ v = Idle
    BY <1>1, <1>T, <2>1, <2>2, <2>3
  <2>7. sups[s].run = r /\ sups[s].pc \in WithRun /\ Others(r)
    BY <1>1, <2>3
  <2> QED BY <2>5, <2>6, <2>7, ThroughCalm
<1> QED BY <1>2, <1>3, <1>4, <1>5, <1>6, <1>7

\* What a landing knows of its candidate.
LEMMA Landings ==
    ASSUME LaneInv, Calm, NEW s \in Supervisor, sups[s].pc \in Walk
    PROVE  \E r \in Run :
             /\ sups[s].run = r /\ sups[s].pc \in WithRun /\ TaskOf[r] \in Task
             /\ runs[r].status \notin {"absent", "working"}
             /\ sups[s].pc \in InLane \ {"verify"} => runs[r].status # "candidate_ready"
             /\ ledger[r].state # "abandoned"
             /\ sups[s].pc \in AfterSwap => InRef(r)
             /\ sups[s].pc \in {"landed", "finalized"} => tasks[TaskOf[r]].status = "done"
             /\ sups[s].pc \notin Owing /\ ~sups[s].failed => ~(InRef(r) /\ ClaimLive(r))
             /\ Contends(r)
<1> DEFINE r == sups[s].run
<1>1. sups[s].pc \in WithRun
  BY PcsApart
<1>2. /\ r \in Run /\ runs[r].status # "absent" /\ (sups[s].pc \in AfterSwap => InRef(r))
      /\ sups[s].pc \in {"landed", "finalized"} => tasks[TaskOf[r]].status = "done"
  BY <1>1 DEF LaneInv, SupGood
<1>3. FactCalm(s) /\ RunCalm(r)
  BY <1>2 DEF Calm, SupCalm
<1>4. Lands(s, r) /\ Contends(r)
  BY DEF Lands, Contends
<1>5. ledger[r].state # "abandoned"
  BY <1>3, <1>4 DEF RunCalm
<1>6. TaskOf[r] \in Task
  BY <1>2, LandingAssumption DEF LandingAssumption
<1>7. sups[s].pc \notin Owing /\ ~sups[s].failed => ~(InRef(r) /\ ClaimLive(r))
  <2>1. DebtCalm(s) /\ ListCalm(s) /\ sups[s].pc \notin {"down", "ledgers"}
    BY PcsApart DEF Calm, SupCalm, Away
  <2> QED BY <1>2, <2>1 DEF DebtCalm, ListCalm
<1> QED BY <1>1, <1>2, <1>3, <1>4, <1>5, <1>6, <1>7 DEF FactCalm

LEMMA FailsCalm ==
    ASSUME LaneInv, Calm, NEW s \in Supervisor, sups[s].pc \in Walk,
           NEW status \in {"failed", "cas_failed"}, Fails(s, status), UNCHANGED <<ledger, ref>>
    PROVE  Calm'
<1>1. PICK r \in Run :
        /\ sups[s].run = r /\ sups[s].pc \in WithRun /\ TaskOf[r] \in Task
        /\ runs[r].status # "absent" /\ ledger[r].state # "abandoned" /\ Contends(r)
  BY Landings
<1> DEFINE st == IF ClaimLive(r) THEN status ELSE "system_error"
<1>2. FinishClaim(r, "blocked") /\ Becomes(r, st) /\ NextItem(s, TRUE) /\ lease' = lease
  BY <1>1 DEF Fails
<1>3. st \in RunState \ {"absent", "working", "candidate_ready"}
  BY DEF RunState
<1>4. TypeOK
  BY DEF LaneInv
<1>5. /\ \A q \in Run \ {r} : runs'[q] = runs[q]
      /\ runs'[r].status = st
  BY <1>1, <1>2, <1>3, <1>4, BecomesWrites
<1>6. \A t \in Task : tasks'[t] # tasks[t] => t = TaskOf[r] /\ ClaimLive(r) /\ tasks'[t].status = "blocked"
  BY <1>2, <1>4, FinishWrites
<1>7. Others(r) /\ Touched(r)
  BY <1>1, <1>5, <1>6, OthersFrom DEF Touched
<1>8. \/ tasks'[TaskOf[r]] = tasks[TaskOf[r]]
      \/ tasks'[TaskOf[r]].status # "in_progress"
  BY <1>1, <1>6
<1>9. PICK v \in SupState : sups' = [sups EXCEPT ![s] = v] /\ Through(s, v, TRUE)
  BY <1>1, <1>2, ThroughIs
<1>10. runs'[r].status \notin {"absent", "working", "candidate_ready"} /\ ledger' = ledger
  BY <1>3, <1>5
<1> HIDE DEF st
<1> QED BY <1>1, <1>7, <1>8, <1>9, <1>10, ThroughCalm

LEMMA LandingCalm ==
    ASSUME LaneInv, Calm, NEW s \in Supervisor, Land(s)
    PROVE  Calm'
<1>0. TypeOK /\ sups[s] \in SupState /\ SupGood(s) /\ sups[s].pc \in Walk
  BY SupTyped
     DEF LaneInv, Land, LandingRefused, EnterLane, MarkVerifying, VerifyFails, Prepare, CompareAndSwap,
         RecordIntegrated, LandingPush, QueueDone, MarkLanded, RecordFinalized, At, Walk, InLane, AfterSwap
<1>1. PICK r \in Run :
        /\ sups[s].run = r /\ sups[s].pc \in WithRun /\ TaskOf[r] \in Task
        /\ runs[r].status \notin {"absent", "working"}
        /\ sups[s].pc \in InLane \ {"verify"} => runs[r].status # "candidate_ready"
        /\ ledger[r].state # "abandoned"
        /\ sups[s].pc \in AfterSwap => InRef(r)
        /\ sups[s].pc \in {"landed", "finalized"} => tasks[TaskOf[r]].status = "done"
        /\ sups[s].pc \notin Owing /\ ~sups[s].failed => ~(InRef(r) /\ ClaimLive(r))
        /\ Contends(r)
  BY <1>0, Landings
<1>T. UNCHANGED tasks => Touched(r) /\ tasks'[TaskOf[r]] = tasks[TaskOf[r]]
  BY DEF Touched
<1>L. /\ {"verify", "prepare", "cas", "integrated", "landpush", "done", "landed", "finalized"}
           \subseteq (WithRun \ {"classify", "retry", "abandon"}) \cap Walk
      /\ {"integrated", "landpush", "done"} \subseteq Owing
      /\ {"integrated", "landpush", "done", "landed", "finalized"} = AfterSwap
      /\ AfterSwap \cup {"prepare", "cas"} \subseteq InLane \ {"verify"}
      /\ {"verify", "prepare", "land"} \cap Owing = {}
  BY PcsApart DEF Walk, WithRun, InLane, AfterSwap, Owing
<1>R. ASSUME Raises(s)
      PROVE \E v \in SupState : sups' = [sups EXCEPT ![s] = v] /\ Through(s, v, TRUE)
  <2>1. CASE sups[s].from = "serve"
    BY <1>0, <1>1, <1>R, <2>1, ThroughIs DEF Raises, Stops
  <2>2. CASE sups[s].from # "serve"
    BY <1>0, <1>1, <1>R, <2>2, ThroughIs DEF Raises
  <2> QED BY <2>1, <2>2
<1>P. ASSUME LeftPending(s), UNCHANGED <<tasks, ledger, ref>>, sups[s].pc \in AfterSwap PROVE Calm'
  <2>1. Becomes(r, "finalize_pending") /\ NextItem(s, TRUE) /\ lease' = lease
    BY <1>1, <1>P DEF LeftPending
  <2>2. "finalize_pending" \in RunState \ {"absent"}
    BY DEF RunState
  <2>3. /\ \A q \in Run \ {r} : runs'[q] = runs[q]
        /\ runs'[r].status = "finalize_pending"
    BY <1>0, <1>1, <2>1, <2>2, BecomesWrites
  <2>4. Others(r) /\ ledger' = ledger
    BY <1>P, <2>3, OthersFrom
  <2>5. PICK v \in SupState : sups' = [sups EXCEPT ![s] = v] /\ Through(s, v, TRUE)
    BY <1>0, <1>1, <2>1, ThroughIs
  <2> QED BY <1>1, <1>T, <1>P, <2>3, <2>4, <2>5, ThroughCalm
<1>2. CASE LandingRefused(s) \/ VerifyFails(s)
  BY <1>0, <1>2, FailsCalm DEF LandingRefused, VerifyFails
<1>3. CASE EnterLane(s)
  <2>1. CASE Fails(s, "failed")
    BY <1>0, <1>3, <2>1, FailsCalm DEF EnterLane
  <2>2. CASE /\ runs' = [runs EXCEPT ![r].head = IF Len(ref) # runs[r].base THEN Len(ref) ELSE @]
             /\ sups' = [sups EXCEPT ![s].pc = "verify", ![s].at = Len(ref)]
             /\ UNCHANGED <<tasks, lease>>
    <3> DEFINE v == [sups[s] EXCEPT !.pc = "verify", !.at = Len(ref)]
    <3>1. sups[s].pc = "land" /\ ref' = ref /\ ledger' = ledger /\ Len(ref) \in Nat
      BY <1>0, <1>3 DEF EnterLane, At, TypeOK, StoresTyped
    <3>2. /\ v \in SupState /\ v.pc = "verify" /\ v.run = r /\ v.todo = sups[s].todo
          /\ v.from = sups[s].from /\ v.wave = sups[s].wave /\ v.failed = sups[s].failed
      BY <1>0, <1>1, <3>1 DEF SupState, PC, InLane, Tip
    <3>3. sups' = [sups EXCEPT ![s] = v] /\ sups'[s] = v
      BY <1>0, <2>2 DEF TypeOK
    <3>4. runs'[r].status = runs[r].status /\ \A q \in Run \ {r} : runs'[q] = runs[q]
      BY <1>0, <2>2 DEF TypeOK, StoresTyped, RunsTyped
    <3>5. tasks' = tasks /\ lease' = lease
      BY <2>2
    <3> HIDE DEF v
    <3>6. Others(r) /\ (InRef(r)' <=> InRef(r)) /\ (ClaimLive(r)' <=> ClaimLive(r))
      BY <3>1, <3>4, <3>5, OthersFrom DEF ClaimLive
    <3>7. /\ OfLedgers(s)' <=> OfLedgers(s)
          /\ OfServing(s)' <=> OfServing(s)
      BY <1>0, <1>L, <3>1, <3>2, <3>3, PcsApart DEF OfLedgers, OfServing, Away
    <3>8. FactCalm(s)'
      BY <1>1, <1>L, <3>2, <3>3, <3>4 DEF FactCalm
    <3>9. RunCalm(r)'
      BY <1>1, <3>1, <3>4, <3>6 DEF RunCalm, Calm
    <3>10. /\ sups[s].run = r /\ sups[s].pc \in WithRun /\ v.pc \in WithRun \ {"classify"}
           /\ Contends(r) /\ Touched(r) /\ tasks'[TaskOf[r]] = tasks[TaskOf[r]]
           /\ runs'[r].status # "absent"
           /\ ~sups[s].failed => ~(InRef(r)' /\ ClaimLive(r)')
      BY <1>1, <1>T, <1>L, <3>1, <3>2, <3>4, <3>5, <3>6
    <3> QED BY <3>2, <3>3, <3>5, <3>6, <3>7, <3>8, <3>9, <3>10, OnCalm
  <2> QED BY <1>1, <1>3, <2>1, <2>2 DEF EnterLane
<1>4. CASE MarkVerifying(s)
  <2>1. /\ sups[s].pc = "verify" /\ UNCHANGED <<tasks, ledger, ref, lease>>
        /\ Becomes(r, "landing_verifying") /\ Goto(s, "prepare")
    BY <1>1, <1>4 DEF MarkVerifying, At
  <2>2. "landing_verifying" \in RunState \ {"absent"}
    BY DEF RunState
  <2>3. /\ \A q \in Run \ {r} : runs'[q] = runs[q]
        /\ runs'[r].status = "landing_verifying"
    BY <1>0, <1>1, <2>1, <2>2, BecomesWrites
  <2>4. Others(r) /\ (InRef(r)' <=> InRef(r)) /\ (ClaimLive(r)' <=> ClaimLive(r))
    BY <2>1, <2>3, OthersFrom DEF ClaimLive
  <2>5. sups[s].pc \notin Owing
    BY <1>L, <2>1
  <2> QED BY <1>0, <1>1, <1>T, <1>L, <2>1, <2>3, <2>4, <2>5, GotoCalm
<1>5. CASE Prepare(s)
  <2>1. sups[s].pc = "prepare" /\ tasks' = tasks /\ runs' = runs /\ ref' = ref
    BY <1>5 DEF Prepare, At
  <2>2. CASE Raises(s) /\ UNCHANGED ledger
    <3>1. PICK v \in SupState : sups' = [sups EXCEPT ![s] = v] /\ Through(s, v, TRUE)
      BY <1>R, <2>2
    <3>2. Others(r) /\ (InRef(r)' <=> InRef(r)) /\ ledger' = ledger
      BY <2>1, <2>2, OthersFrom
    <3> QED BY <1>1, <1>T, <1>L, <2>1, <3>1, <3>2, ThroughCalm
  <2>3. ASSUME Goto(s, "cas"), lease' = lease, ~InRef(r), ledger'[r].state # "abandoned",
               \A q \in Run \ {r} : ledger'[q] = ledger[q]
        PROVE  Calm'
    <3>1. Others(r) /\ (InRef(r)' <=> InRef(r))
      BY <2>1, <2>3, OthersFrom
    <3> QED BY <1>0, <1>1, <1>T, <1>L, <2>1, <2>3, <3>1, GotoCalm
  <2>4. CASE /\ ledger[r].state = "absent" \/ (~SameIdentity(r, sups[s].at) /\ Replaceable(s, r))
             /\ ledger' = [ledger EXCEPT ![r] = Record(r, sups[s].at)]
             /\ Goto(s, "cas") /\ UNCHANGED <<lease, lane>>
    <3>1. ledger'[r] = Record(r, sups[s].at) /\ \A q \in Run \ {r} : ledger'[q] = ledger[q]
      BY <1>0, <2>4 DEF TypeOK, StoresTyped, LedgerTyped
    <3>2. ledger'[r].state # "abandoned"
      BY <3>1 DEF Record
    <3>3. ~InRef(r)
      BY <2>4 DEF LaneInv, RunGood, Replaceable
    <3> QED BY <2>3, <2>4, <3>1, <3>2, <3>3
  <2>5. CASE SameIdentity(r, sups[s].at) /\ Goto(s, "cas") /\ UNCHANGED <<ledger, lease, lane>>
    BY <1>1, <2>3, <2>5 DEF SameIdentity
  <2> QED BY <1>1, <1>5, <2>2, <2>4, <2>5 DEF Prepare
<1>6. CASE CompareAndSwap(s)
  <2>1. CASE Len(ref) # sups[s].at
    BY <1>0, <1>6, <2>1, FailsCalm DEF CompareAndSwap
  <2>2. CASE Len(ref) = sups[s].at
    <3>1. /\ sups[s].pc = "cas" /\ ref' = Append(ref, r) /\ Goto(s, "integrated")
          /\ UNCHANGED <<tasks, runs, lease, ledger>>
      BY <1>1, <1>6, <2>2 DEF CompareAndSwap, At
    <3>2. \A q \in Run \ {r} : InRef(q)' <=> InRef(q)
      BY <1>0, <3>1 DEF InRef, TypeOK, StoresTyped
    <3>3. Others(r)
      BY <3>1, <3>2 DEF Others
    <3> QED BY <1>0, <1>1, <1>T, <1>L, <3>1, <3>3, GotoCalm
  <2> QED BY <2>1, <2>2
<1>7. CASE RecordIntegrated(s)
  <2>1. /\ sups[s].pc = "integrated" /\ tasks' = tasks /\ runs' = runs /\ ref' = ref /\ InRef(r)
        /\ \/ /\ ledger[r].state # "absent"
              /\ ledger' = [ledger EXCEPT ![r].state = "integrated"]
              /\ Goto(s, "landpush") /\ lease' = lease
           \/ Raises(s) /\ UNCHANGED ledger
    BY <1>1, <1>L, <1>7 DEF RecordIntegrated, At
  <2>2. /\ \A q \in Run \ {r} : ledger'[q] = ledger[q]
        /\ ledger'[r].state # "abandoned"
    BY <1>0, <1>1, <2>1, LedgerWrites
  <2>3. Others(r)
    BY <2>1, <2>2, OthersFrom
  <2>4. CASE Raises(s)
    <3>1. PICK v \in SupState : sups' = [sups EXCEPT ![s] = v] /\ Through(s, v, TRUE)
      BY <1>R, <2>4
    <3> QED BY <1>1, <1>T, <1>L, <2>1, <2>2, <2>3, <3>1, ThroughCalm
  <2>5. CASE Goto(s, "landpush") /\ lease' = lease
    BY <1>0, <1>1, <1>T, <1>L, <2>1, <2>2, <2>3, <2>5, GotoCalm
  <2> QED BY <2>1, <2>4, <2>5
<1>8. CASE LandingPush(s)
  <2>1. sups[s].pc = "landpush" /\ tasks' = tasks /\ ref' = ref /\ InRef(r)
    BY <1>1, <1>L, <1>8 DEF LandingPush, At
  <2>2. \/ LeftPending(s) /\ UNCHANGED ledger
        \/ /\ runs' = runs /\ (ledger' = ledger \/ RecordPushed(r))
           /\ Raises(s) \/ (Goto(s, "done") /\ lease' = lease)
    BY <1>1, <1>8 DEF LandingPush
  <2>3. CASE LeftPending(s) /\ UNCHANGED ledger
    BY <1>P, <1>L, <2>1, <2>3
  <2>4. CASE /\ runs' = runs /\ (ledger' = ledger \/ RecordPushed(r))
             /\ Raises(s) \/ (Goto(s, "done") /\ lease' = lease)
    <3>1. /\ \A q \in Run \ {r} : ledger'[q] = ledger[q]
          /\ ledger'[r].state = ledger[r].state
      BY <1>0, <2>4 DEF RecordPushed, TypeOK, StoresTyped, LedgerTyped
    <3>2. Others(r)
      BY <2>1, <2>4, <3>1, OthersFrom
    <3>3. CASE Raises(s)
      <4>1. PICK v \in SupState : sups' = [sups EXCEPT ![s] = v] /\ Through(s, v, TRUE)
        BY <1>R, <3>3
      <4> QED BY <1>1, <1>T, <1>L, <2>1, <2>4, <3>1, <3>2, <4>1, ThroughCalm
    <3>4. CASE Goto(s, "done") /\ lease' = lease
      BY <1>0, <1>1, <1>T, <1>L, <2>1, <2>4, <3>1, <3>2, <3>4, GotoCalm
    <3> QED BY <2>4, <3>3, <3>4
  <2> QED BY <2>2, <2>3, <2>4
<1>9. CASE QueueDone(s)
  <2>1. sups[s].pc = "done" /\ ledger' = ledger /\ ref' = ref /\ InRef(r)
    BY <1>1, <1>L, <1>9 DEF QueueDone, At
  <2>2. CASE ClaimLive(r)
    <3>1. /\ Ends(TaskOf[r], "done", "autodev_reviewed")
          /\ Goto(s, "landed") /\ runs' = runs /\ lease' = lease
      BY <1>1, <1>9, <2>2 DEF QueueDone
    <3>2. /\ tasks'[TaskOf[r]].status = "done"
          /\ \A t \in Task \ {TaskOf[r]} : tasks'[t] = tasks[t]
      BY <1>0, <1>1, <2>1, <2>2, <3>1, EndsWrites DEF ClaimLive
    <3>3. Touched(r) /\ Others(r) /\ ~(ClaimLive(r)')
      BY <2>1, <2>2, <3>1, <3>2, OthersFrom DEF Touched, ClaimLive
    <3> QED BY <1>0, <1>1, <1>L, <2>1, <3>1, <3>2, <3>3, GotoCalm
  <2>3. CASE ~ClaimLive(r)
    BY <1>1, <1>9, <1>P, <1>L, <2>1, <2>3 DEF QueueDone
  <2> QED BY <2>2, <2>3
<1>10. CASE MarkLanded(s)
  <2>1. /\ sups[s].pc = "landed" /\ UNCHANGED <<tasks, ledger, ref, lease>>
        /\ tasks[TaskOf[r]].status = "done" /\ Becomes(r, "done") /\ Goto(s, "finalized")
    BY <1>1, <1>10 DEF MarkLanded, At
  <2>2. "done" \in RunState \ {"absent"}
    BY DEF RunState
  <2>3. /\ \A q \in Run \ {r} : runs'[q] = runs[q]
        /\ runs'[r].status = "done"
    BY <1>0, <1>1, <2>1, <2>2, BecomesWrites
  <2>4. Others(r) /\ ~(ClaimLive(r)')
    BY <2>1, <2>3, OthersFrom DEF ClaimLive
  <2> QED BY <1>0, <1>1, <1>T, <1>L, <2>1, <2>3, <2>4, GotoCalm
<1>11. CASE RecordFinalized(s)
  <2>1. /\ sups[s].pc = "finalized" /\ tasks' = tasks /\ runs' = runs /\ ref' = ref /\ InRef(r)
        /\ tasks[TaskOf[r]].status = "done"
        /\ \/ /\ ledger[r].state # "absent"
              /\ ledger' = [ledger EXCEPT ![r].state = "queue_finalized"]
              /\ NextItem(s, FALSE) /\ lease' = lease
           \/ Raises(s) /\ UNCHANGED ledger
    BY <1>1, <1>L, <1>11 DEF RecordFinalized, At
  <2>2. /\ \A q \in Run \ {r} : ledger'[q] = ledger[q]
        /\ ledger'[r].state # "abandoned"
    BY <1>0, <1>1, <2>1, LedgerWrites
  <2>3. Others(r) /\ ~(ClaimLive(r)')
    BY <2>1, <2>2, OthersFrom DEF ClaimLive
  <2>4. PICK f \in BOOLEAN, v \in SupState : sups' = [sups EXCEPT ![s] = v] /\ Through(s, v, f)
    BY <1>0, <1>1, <1>R, <2>1, ThroughIs
  <2> QED BY <1>1, <1>T, <1>L, <2>1, <2>2, <2>3, <2>4, ThroughCalm
<1> QED BY <1>2, <1>3, <1>4, <1>5, <1>6, <1>7, <1>8, <1>9, <1>10, <1>11 DEF Land

\* A step that no supervisor takes; a worker may finish.
LEMMA OutsideCalm ==
    ASSUME LaneInv, Calm, sups' = sups, ledger' = ledger, \A q \in Run : InRef(q)' <=> InRef(q),
           \A q \in Run : runs'[q].status = runs[q].status
             \/ (runs[q].status = "working" /\ runs'[q].status # "absent"),
           \A q \in Run : ClaimLive(q)' => ClaimLive(q)
    PROVE  /\ \A q \in Run : Contends(q)' <=> Contends(q)
           /\ \A s \in Supervisor : SupCalm(s)'
<1>1. \A q \in Run : Contends(q)' <=> Contends(q)
  BY DEF Contends, Lands
<1>2. ASSUME NEW s \in Supervisor PROVE SupCalm(s)'
  <2>1. SupCalm(s) /\ SupGood(s) /\ sups[s] \in SupState
    BY SupTyped DEF Calm, LaneInv
  <2>2. \A r \in sups[s].wave : r \in Run
    BY <2>1 DEF SupState
  <2>3. WaveCalm(s)'
    BY <1>1, <2>1, <2>2 DEF SupCalm, WaveCalm, OfServing
  <2>4. ListCalm(s)'
    BY <2>1 DEF SupCalm, ListCalm, OfLedgers
  <2>5. FactCalm(s)'
    <3>1. sups[s].pc \in {"classify", "retry", "abandon"} \cup Walk \cup InLane => sups[s].run \in Run
      BY <2>1, PcsApart DEF SupGood, Walk
    <3>2. FactCalm(s) /\ (sups[s].pc \in InLane => sups[s].pc \in Walk)
      BY <2>1 DEF SupCalm, Walk
    <3> QED BY <3>1, <3>2 DEF FactCalm
  <2>6. DebtCalm(s)'
    BY <2>1 DEF SupCalm, DebtCalm, OfLedgers
  <2> QED BY <2>3, <2>4, <2>5, <2>6 DEF SupCalm
<1> QED BY <1>1, <1>2

LEMMA OutsideKeepsCalm ==
    ASSUME LaneInv, Calm,
           \/ ForeignCommit
           \/ LeaseExpires /\ At(lease, "down")
           \/ \E r \in Run : WorkerFinishes(r)
           \/ UNCHANGED vars
    PROVE  Calm'
<1>0. TypeOK
  BY DEF LaneInv
<1>1. CASE (LeaseExpires /\ At(lease, "down")) \/ UNCHANGED vars
  <2>1. UNCHANGED stores /\ sups' = sups /\ OneUp'
    BY <1>1 DEF LeaseExpires, At, Calm, OneUp, vars, stores
  <2>2. TaskCalm' /\ \A q \in Run : RunCalm(q)'
    BY <2>1, StoresSameCalm DEF Lands, Contends
  <2>3. \A q \in Run : (InRef(q)' <=> InRef(q)) /\ (ClaimLive(q)' <=> ClaimLive(q))
    BY <2>1, BranchSame DEF stores, ClaimLive
  <2>4. \A s \in Supervisor : SupCalm(s)'
    BY <2>1, <2>3, OutsideCalm DEF stores
  <2> QED BY <2>1, <2>2, <2>4 DEF Calm
<1>2. CASE ForeignCommit
  <2>1. sups' = sups /\ tasks' = tasks /\ runs' = runs /\ ledger' = ledger /\ lease' = lease
    BY <1>2 DEF ForeignCommit
  <2>2. \A q \in Run : (InRef(q)' <=> InRef(q)) /\ (ClaimLive(q)' <=> ClaimLive(q))
    BY <1>0, <1>2, <2>1, LandingAssumption
       DEF ForeignCommit, InRef, ClaimLive, LandingAssumption, TypeOK, StoresTyped
  <2>3. (\A s \in Supervisor : SupCalm(s)') /\ \A q \in Run : Contends(q)' <=> Contends(q)
    BY <2>1, <2>2, OutsideCalm
  <2>4. TaskCalm' /\ \A q \in Run : RunCalm(q)'
    BY <2>1, <2>2, <2>3 DEF Calm, TaskCalm, RunCalm, Lands
  <2>5. OneUp'
    BY <2>1 DEF Calm, OneUp
  <2> QED BY <2>3, <2>4, <2>5 DEF Calm
<1>3. ASSUME NEW r \in Run, WorkerFinishes(r) PROVE Calm'
  <2>0. /\ runs[r].status = "working" /\ TaskOf[r] \in Task
        /\ sups' = sups /\ ledger' = ledger /\ ref' = ref /\ lease' = lease
    BY <1>3, LandingAssumption DEF WorkerFinishes, LandingAssumption
  <2>1. ClaimLive(r) /\ ledger[r].state = "absent"
    BY <2>0 DEF Calm, RunCalm
  <2>2. PICK status \in {"candidate_ready", "failed"} :
          Becomes(r, status) /\ (status = "candidate_ready" => UNCHANGED tasks)
    BY <1>3 DEF WorkerFinishes
  <2>3. status \in RunState \ {"absent"}
    BY DEF RunState
  <2>4. runs'[r].status = status /\ \A q \in Run \ {r} : runs'[q] = runs[q]
    BY <1>0, <2>0, <2>2, <2>3, BecomesWrites
  <2>5. \A t \in Task : tasks'[t] # tasks[t] => t = TaskOf[r] /\ tasks'[t].status \in {"blocked", "pending"}
    BY <1>0, <1>3, FinishWrites DEF WorkerFinishes
  <2>6. Others(r) /\ \A q \in Run : InRef(q)' <=> InRef(q)
    BY <2>0, <2>4, <2>5, OthersFrom DEF Others
  <2>7. \A q \in Run : ClaimLive(q)' => ClaimLive(q)
    BY <2>0, <2>5, <2>6, ClaimsKept
  <2>8. (\A s \in Supervisor : SupCalm(s)') /\ \A q \in Run : Contends(q)' <=> Contends(q)
    BY <2>0, <2>4, <2>6, <2>7, OutsideCalm
  <2>9. ~Contends(r)
    <3>1. ASSUME NEW s \in Supervisor, Lands(s, r) PROVE FALSE
      BY <2>0, <3>1 DEF Lands, Calm, SupCalm, FactCalm
    <3> QED BY <2>1, <3>1 DEF Contends
  <2>10. \A q \in Run : TaskOf[q] = TaskOf[r] => ~Contends(q)
    BY <2>1, <2>9 DEF Calm, TaskCalm, ClaimLive
  <2>11. Touched(r)
    BY <2>1, <2>8, <2>10 DEF Touched
  <2>12. RunCalm(r)'
    <3>1. status = "candidate_ready" => ClaimLive(r)'
      BY <2>1, <2>2 DEF ClaimLive
    <3> QED BY <2>0, <2>1, <2>4, <3>1 DEF RunCalm
  <2>13. TaskCalm' /\ \A q \in Run : RunCalm(q)'
    BY <2>0, <2>6, <2>8, <2>9, <2>11, <2>12, StoresCalm DEF Lands
  <2>14. OneUp'
    BY <2>0 DEF Calm, OneUp
  <2> QED BY <2>8, <2>13, <2>14 DEF Calm
<1> QED BY <1>1, <1>2, <1>3

\* A supervisor that stops.
LEMMA StopCalm ==
    ASSUME LaneInv, Calm, NEW s \in Supervisor, sups[s].pc # "down",
           sups' = [sups EXCEPT ![s] = Idle], UNCHANGED stores
    PROVE  Calm'
<1>1. sups'[s] = Idle /\ (\A t \in Supervisor \ {s} : sups'[t] = sups[t]) /\ Idle.pc = "down" /\ Idle.wave = {}
  BY DEF LaneInv, TypeOK, Idle
<1>2. "down" \notin Walk
  BY PcsApart
<1>3. TaskCalm' /\ \A q \in Run : RunCalm(q)'
  BY <1>1, <1>2, StoresSameCalm DEF Lands, Contends
<1>4. SupCalm(s)'
  BY <1>1, DownCalm
<1> QED BY <1>1, <1>3, <1>4, Alone, CalmFrom, IdleTyped

\* A supervisor that goes on outside of any landing, and writes nothing.
LEMMA GoesOnCalm ==
    ASSUME LaneInv, Calm, NEW s \in Supervisor, NEW v \in SupState, UNCHANGED stores,
           sups' = [sups EXCEPT ![s] = v], sups[s].pc # "down" \/ lease = None, lease' = s,
           v.pc \notin Walk \cup {"retry", "abandon"}, v.wave # {} => v.wave = sups[s].wave /\ v.pc = "serve",
           v.pc = "classify" =>
             ledger[v.run].state # "absent" /\ (InRef(v.run) => v.has /\ v.at > ledger[v.run].cand),
           ListCalm(s)', DebtCalm(s)'
    PROVE  Calm'
<1>1. sups'[s] = v /\ (\A t \in Supervisor \ {s} : sups'[t] = sups[t] /\ sups[t].pc = "down")
  BY Alone DEF LaneInv, TypeOK
<1>2. \A q \in Run : \A t \in Supervisor : ~(Lands(t, q)')
  BY <1>1, PcsApart DEF Lands
<1>3. (TaskCalm' /\ \A q \in Run : RunCalm(q)') /\ \A q \in Run : Contends(q)' => Contends(q)
  BY <1>2, StoresSameCalm
<1>4. runs' = runs /\ ledger' = ledger /\ (InRef(v.run)' <=> InRef(v.run))
  BY BranchSame DEF stores
<1>5. WaveCalm(s)'
  <2>1. OfServing(s)' <=> v.pc = "serve"
    BY <1>1 DEF OfServing
  <2> QED BY <1>1, <1>3, <1>4, <2>1, WaveKept DEF WaveCalm
<1>6. FactCalm(s)'
  BY <1>1, <1>4 DEF FactCalm, Walk
<1>7. SupCalm(s)'
  BY <1>5, <1>6 DEF SupCalm
<1> QED BY <1>1, <1>3, <1>7, CalmFrom

LEMMA LoopCalm ==
    ASSUME LaneInv, Calm, NEW s \in Supervisor,
           StartLoop(s) \/ Crash(s) \/ ReadGit(s) \/ LedgersDone(s) \/ OrphansDone(s) \/ LoopEnds(s)
    PROVE  Calm'
<1>0. /\ TypeOK /\ sups[s] \in SupState /\ SupGood(s) /\ SupCalm(s) /\ UNCHANGED stores
      /\ tasks' = tasks /\ runs' = runs /\ ledger' = ledger /\ ref' = ref
      /\ \A q : (InRef(q)' <=> InRef(q)) /\ (ClaimLive(q)' <=> ClaimLive(q))
  <2>1. UNCHANGED stores
    BY DEF StartLoop, Crash, ReadGit, LedgersDone, OrphansDone, LoopEnds, stores
  <2> QED BY <2>1, SupTyped, BranchSame DEF LaneInv, Calm, stores, ClaimLive
<1>1. sups[s].pc # "down" => lease = s
  BY DEF Calm, OneUp
<1>P. {"ledgers", "orphans", "serve", "classify"} \cap (Walk \cup {"retry", "abandon"}) = {}
  BY PcsApart DEF Away
<1>2. CASE StartLoop(s)
  <2> DEFINE v == [Idle EXCEPT !.pc = "ledgers", !.todo = Pending]
  <2>1. /\ v \in SupState /\ v.pc = "ledgers" /\ v.todo = Pending /\ v.wave = {}
    BY ListsTyped DEF Idle, SupState, PC, Tip
  <2>2. sups' = [sups EXCEPT ![s] = v] /\ sups'[s] = v /\ lease = None /\ lease' = s
    BY <1>0, <1>2 DEF StartLoop, TypeOK
  <2> HIDE DEF v
  <2>3. ListCalm(s)'
    <3>1. \A item \in Pending : ledger[item[1]].state # "absent" /\ item[2] = ledger[item[1]].cand
      BY DEF Pending
    <3> QED BY <1>0, <2>1, <2>2, <3>1 DEF ListCalm
  <2>4. DebtCalm(s)'
    <3>1. ASSUME NEW r \in Run, InRef(r), ClaimLive(r) PROVE \E item \in Pending : item[1] = r
      <4>1. ledger[r].state \in {"prepared", "integrated"}
        BY <1>0, <3>1 DEF LaneInv, RunGood, Calm, RunCalm, ClaimLive, TypeOK, StoresTyped, LedgerTyped, LedgerState
      <4>2. <<r, ledger[r].cand>> \in Pending
        BY <4>1 DEF Pending
      <4> QED BY <4>2
    <3>2. OfLedgers(s)'
      BY <2>1, <2>2 DEF OfLedgers
    <3> QED BY <1>0, <2>1, <2>2, <3>1, <3>2 DEF DebtCalm
  <2> QED BY <1>0, <1>P, <2>1, <2>2, <2>3, <2>4, GoesOnCalm
<1>3. CASE sups' = [sups EXCEPT ![s] = Idle] /\ ~At(s, "down")
  BY <1>0, <1>3, StopCalm DEF At
<1>4. CASE ReadGit(s)
  <2>1. PICK item \in sups[s].todo :
          sups' = [sups EXCEPT ![s] = [sups[s] EXCEPT !.pc = "classify", !.run = item[1],
                     !.at = Len(ref), !.has = Landed(item[1], item[2]), !.todo = @ \ {item}]]
    BY <1>4 DEF ReadGit
  <2> DEFINE v == [sups[s] EXCEPT !.pc = "classify", !.run = item[1], !.at = Len(ref),
                     !.has = Landed(item[1], item[2]), !.todo = @ \ {item}]
  <2>2. /\ item[1] \in Run /\ item[2] \in Nat /\ Len(ref) \in Nat /\ Landed(item[1], item[2]) \in BOOLEAN
        /\ \A i \in sups[s].todo : i \in Run \X Nat
    BY <1>0 DEF TypeOK, StoresTyped, SupState, Tip, Landed
  <2>3. /\ v \in SupState /\ v.pc = "classify" /\ v.run = item[1] /\ v.has = Landed(item[1], item[2])
        /\ v.todo = sups[s].todo \ {item} /\ v.wave = sups[s].wave /\ v.at = Len(ref)
        /\ v.failed = sups[s].failed
    BY <1>0, <2>2 DEF SupState, PC, Tip
  <2>4. sups' = [sups EXCEPT ![s] = v] /\ sups'[s] = v /\ lease' = lease /\ sups[s].pc = "ledgers"
    BY <1>0, <1>4, <2>1 DEF ReadGit, At, TypeOK
  <2> HIDE DEF v
  <2>5. OfLedgers(s) /\ OfLedgers(s)' /\ ~OfServing(s)
    BY <1>P, <2>3, <2>4 DEF OfLedgers, OfServing
  <2>6. \A i \in sups[s].todo : ledger[i[1]].state # "absent" /\ i[2] = ledger[i[1]].cand
    BY <1>0, <2>5 DEF SupCalm, ListCalm
  <2>7. InRef(item[1]) => v.has /\ v.at > ledger[item[1]].cand
    <3>1. InRef(item[1]) => Landed(item[1], item[2])
      BY <2>2, <2>6 DEF LaneInv, RunGood
    <3>2. Landed(item[1], item[2]) => Len(ref) > item[2]
      BY <2>2 DEF Landed
    <3> QED BY <2>3, <2>6, <3>1, <3>2
  <2>8. ListCalm(s)'
    <3>1. \A i \in v.todo : i[1] # item[1]
      <4>1. ASSUME NEW i \in v.todo, i[1] = item[1] PROVE FALSE
        <5>1. i \in sups[s].todo /\ i # item
          BY <2>3, <4>1
        <5>2. i[2] = item[2]
          BY <2>6, <4>1, <5>1
        <5> QED BY <2>2, <4>1, <5>1, <5>2
      <4> QED BY <4>1
    <3> QED BY <1>0, <2>3, <2>4, <2>6, <3>1 DEF ListCalm
  <2>9. DebtCalm(s)'
    <3>1. "classify" \in Owing /\ "ledgers" \notin Owing
      BY DEF Owing
    <3>2. ASSUME NEW r \in Run, InRef(r), ClaimLive(r), ~sups[s].failed
          PROVE  (\E i \in v.todo : i[1] = r) \/ v.run = r
      BY <1>0, <2>3, <2>4, <3>1, <3>2 DEF SupCalm, DebtCalm
    <3> QED BY <1>0, <2>3, <2>4, <2>5, <3>1, <3>2 DEF DebtCalm
  <2>10. v.wave = {}
    BY <1>0, <2>3, <2>5 DEF SupCalm, WaveCalm
  <2> QED BY <1>0, <1>1, <1>P, <2>2, <2>3, <2>4, <2>6, <2>7, <2>8, <2>9, <2>10, GoesOnCalm
<1>5. CASE LedgersDone(s) /\ ~sups[s].failed
  <2> DEFINE v == [sups[s] EXCEPT !.pc = "orphans", !.todo = Listed]
  <2>1. /\ v \in SupState /\ v.pc = "orphans" /\ v.todo = Listed /\ v.wave = sups[s].wave
        /\ v.failed = sups[s].failed
    BY <1>0, ListsTyped DEF SupState, PC, Tip
  <2>2. /\ sups' = [sups EXCEPT ![s] = v] /\ sups'[s] = v /\ lease' = lease /\ sups[s].pc = "ledgers"
        /\ sups[s].todo = {}
    BY <1>0, <1>5 DEF LedgersDone, At, TypeOK
  <2> HIDE DEF v
  <2>3. ~(OfLedgers(s)') /\ ~OfServing(s)
    BY <1>P, <2>1, <2>2, PcsApart DEF OfLedgers, OfServing, Away
  <2>4. v.wave = {}
    BY <1>0, <2>1, <2>3 DEF SupCalm, WaveCalm
  <2>5. ListCalm(s)'
    BY <2>3 DEF ListCalm
  <2>6. DebtCalm(s)'
    BY <1>0, <1>5, <2>1, <2>2 DEF SupCalm, DebtCalm, Owing
  <2> QED BY <1>0, <1>1, <1>P, <2>1, <2>2, <2>4, <2>5, <2>6, GoesOnCalm
<1>6. CASE OrphansDone(s) /\ ~sups[s].failed
  <2>1. PICK v \in SupState :
          /\ sups' = [sups EXCEPT ![s] = v] /\ v.pc = "serve" /\ v.run = sups[s].run
          /\ v.todo = sups[s].todo /\ v.wave = sups[s].wave /\ v.failed = sups[s].failed
    BY <1>0, <1>6, GotoIs DEF OrphansDone, PC
  <2>2. sups'[s] = v /\ lease' = lease /\ sups[s].pc = "orphans"
    BY <1>0, <1>6, <2>1 DEF OrphansDone, At, TypeOK
  <2>3. ~(OfLedgers(s)') /\ ~OfLedgers(s)
    BY <1>P, <2>1, <2>2, PcsApart DEF OfLedgers, Away
  <2>4. ListCalm(s)'
    BY <2>3 DEF ListCalm
  <2>5. DebtCalm(s)'
    BY <1>0, <2>1, <2>2, <2>3 DEF SupCalm, DebtCalm, Owing
  <2> QED BY <1>0, <1>1, <1>P, <2>1, <2>2, <2>4, <2>5, GoesOnCalm
<1>7. (LedgersDone(s) /\ sups[s].failed) \/ (OrphansDone(s) /\ sups[s].failed) \/ Crash(s) \/ LoopEnds(s)
        => sups' = [sups EXCEPT ![s] = Idle] /\ ~At(s, "down")
  BY DEF LedgersDone, OrphansDone, Crash, LoopEnds, Stops, At
<1> QED BY <1>2, <1>3, <1>4, <1>5, <1>6, <1>7

\* A candidate that starts to land: its claim stands, so no other run of its task has
\* tried to.
LEMMA StartsCalm ==
    ASSUME LaneInv, Calm, NEW s \in Supervisor, NEW r \in Run, NEW v \in SupState,
           UNCHANGED stores, sups' = [sups EXCEPT ![s] = v], lease' = lease,
           runs[r].status = "candidate_ready", v.pc = "land", v.run = r,
           v.failed = sups[s].failed,
           \/ /\ sups[s].pc = "orphans" /\ v.from = "orphans" /\ v.wave = sups[s].wave
           \/ /\ sups[s].pc = "serve" /\ v.from = "serve" /\ r \in sups[s].wave
              /\ v.wave = sups[s].wave \ {r}
    PROVE  Calm'
<1>0. /\ sups'[s] = v /\ lease = s /\ SupCalm(s) /\ sups[s] \in SupState
      /\ \A t \in Supervisor \ {s} : sups'[t] = sups[t] /\ sups[t].pc = "down"
      /\ tasks' = tasks /\ runs' = runs /\ ledger' = ledger /\ ref' = ref
      /\ \A q : (InRef(q)' <=> InRef(q)) /\ (ClaimLive(q)' <=> ClaimLive(q))
  BY Alone, BranchSame, SupTyped DEF LaneInv, TypeOK, Calm, stores, ClaimLive
<1>1. ClaimLive(r) /\ ledger[r].state = "absent"
  BY DEF Calm, RunCalm
<1>2. ~InRef(r)
  BY <1>1 DEF LaneInv, RunGood
<1>3. \A q \in Run \ {r} : \A t \in Supervisor : ~(Lands(t, q)')
  BY <1>0, PcsApart DEF Lands, Away
<1>4. RunCalm(r)'
  BY <1>0, <1>1, <1>2 DEF RunCalm
<1>5. Others(r) /\ Touched(r)
  BY <1>0 DEF Others, Touched
<1>6. TaskCalm' /\ \A q \in Run : RunCalm(q)'
  BY <1>1, <1>3, <1>4, <1>5, StoresCalm
<1>7. /\ "land" \in Walk /\ "land" \notin InLane /\ "land" \notin {"retry", "abandon", "serve"} \cup Found
      /\ {"orphans", "serve"} \cap (Found \cup Walk \cup Owing) = {}
  BY PcsApart DEF Walk, Away
<1>8. ~(OfLedgers(s)') /\ ~OfLedgers(s)
  BY <1>0, <1>7 DEF OfLedgers
<1>9. OfServing(s)' <=> v.from = "serve"
  BY <1>0, <1>7 DEF OfServing
<1>10. WaveCalm(s)'
  <2>1. WaveCalm(s) /\ \A q \in sups[s].wave : q \in Run
    BY <1>0 DEF SupCalm, SupState
  <2>2. CASE sups[s].pc = "orphans"
    <3>1. ~OfServing(s)
      BY <1>7, <2>2 DEF OfServing
    <3> QED BY <1>0, <1>7, <2>1, <2>2, <3>1 DEF WaveCalm
  <2>3. CASE sups[s].pc = "serve"
    <3>1. \A q \in Run : Contends(q)' => Contends(q) \/ q = r
      BY <1>0, <1>3 DEF Contends
    <3>2. v.from = "serve" /\ r \in sups[s].wave /\ v.wave = sups[s].wave \ {r}
      BY <2>3
    <3> QED BY <1>0, <1>9, <2>1, <3>1, <3>2 DEF WaveCalm
  <2> QED BY <2>2, <2>3
<1>11. ListCalm(s)'
  BY <1>8 DEF ListCalm
<1>12. FactCalm(s)'
  BY <1>0, <1>7 DEF FactCalm
<1>13. DebtCalm(s)'
  <2>1. ASSUME NEW q \in Run, InRef(q), ClaimLive(q), ~sups[s].failed PROVE FALSE
    BY <1>0, <1>7, <1>8, <2>1 DEF SupCalm, DebtCalm
  <2> QED BY <1>0, <2>1 DEF DebtCalm
<1>14. SupCalm(s)'
  BY <1>10, <1>11, <1>12, <1>13 DEF SupCalm
<1> QED BY <1>0, <1>6, <1>14, CalmFrom

LEMMA OrphanCalm ==
    ASSUME LaneInv, Calm, NEW s \in Supervisor, Orphan(s)
    PROVE  Calm'
<1>0. /\ TypeOK /\ sups[s] \in SupState /\ SupCalm(s) /\ sups[s].pc = "orphans" /\ lease' = lease
      /\ UNCHANGED <<tasks, ledger, ref>>
  BY SupTyped DEF LaneInv, Orphan, At, Calm
<1>1. PICK item \in sups[s].todo :
        LET r == item[1]
            next == [sups[s] EXCEPT !.todo = @ \ {item}]
        IN  /\ sups' = [sups EXCEPT ![s] =
                  IF runs[r].status # "candidate_ready" \/ tasks[TaskOf[r]].status = "done"
                  THEN next
                  ELSE IF ClaimLive(r)
                  THEN [next EXCEPT !.pc = "land", !.from = "orphans", !.run = r]
                  ELSE [next EXCEPT !.failed = TRUE]]
            /\ IF runs[r].status = "candidate_ready" /\ tasks[TaskOf[r]].status = "done"
               THEN Becomes(r, "done") ELSE UNCHANGED runs
  BY DEF Orphan
<1> DEFINE r == item[1]
           next == [sups[s] EXCEPT !.todo = @ \ {item}]
<1>2. r \in Run
  BY <1>0 DEF SupState
<1>3. runs[r].status = "candidate_ready" => ClaimLive(r) /\ tasks[TaskOf[r]].status # "done"
  BY <1>2 DEF Calm, RunCalm, ClaimLive
<1>4. UNCHANGED stores
  BY <1>0, <1>1, <1>3 DEF stores
<1>5. /\ next \in SupState /\ next.pc = "orphans" /\ next.wave = sups[s].wave
      /\ next.failed = sups[s].failed
  BY <1>0 DEF SupState
<1>6. CASE runs[r].status = "candidate_ready"
  <2> DEFINE v == [next EXCEPT !.pc = "land", !.from = "orphans", !.run = r]
  <2>1. sups' = [sups EXCEPT ![s] = v]
    BY <1>1, <1>3, <1>6
  <2>2. /\ v \in SupState /\ v.pc = "land" /\ v.run = r /\ v.from = "orphans"
        /\ v.failed = sups[s].failed /\ v.wave = sups[s].wave
    <3> HIDE DEF next
    <3> QED BY <1>2, <1>5 DEF SupState, PC
  <2> HIDE DEF v
  <2> QED BY <1>0, <1>2, <1>4, <1>6, <2>1, <2>2, StartsCalm
<1>7. CASE runs[r].status # "candidate_ready"
  <2>1. sups' = [sups EXCEPT ![s] = next]
    BY <1>1, <1>7
  <2> HIDE DEF next
  <2>2. sups'[s] = next /\ lease = s
    BY <1>0, <2>1 DEF TypeOK, Calm, OneUp
  <2>3. /\ "orphans" \notin Walk \cup {"retry", "abandon"} \cup Found \cup Owing
    BY PcsApart DEF Away
  <2>4. ~(OfLedgers(s)') /\ ~OfLedgers(s) /\ ~OfServing(s)
    BY <1>0, <1>5, <2>2, <2>3 DEF OfLedgers, OfServing
  <2>5. ListCalm(s)'
    BY <2>4 DEF ListCalm
  <2>6. \A q : (InRef(q)' <=> InRef(q)) /\ (ClaimLive(q)' <=> ClaimLive(q))
    BY <1>4, BranchSame DEF stores, ClaimLive
  <2>7. DebtCalm(s)'
    BY <1>0, <1>5, <2>2, <2>3, <2>4, <2>6 DEF SupCalm, DebtCalm
  <2>8. next.wave = {}
    BY <1>0, <1>5, <2>4 DEF SupCalm, WaveCalm
  <2> QED BY <1>0, <1>4, <1>5, <2>1, <2>2, <2>3, <2>5, <2>7, <2>8, GoesOnCalm
<1> QED BY <1>6, <1>7

LEMMA LandOneCalm ==
    ASSUME LaneInv, Calm, NEW s \in Supervisor, LandOne(s)
    PROVE  Calm'
<1>1. PICK r \in sups[s].wave :
        /\ runs[r].status = "candidate_ready"
        /\ sups' = [sups EXCEPT ![s] = [sups[s] EXCEPT !.pc = "land", !.from = "serve", !.run = r,
                                                 !.wave = @ \ {r}]]
  BY DEF LandOne
<1> DEFINE v == [sups[s] EXCEPT !.pc = "land", !.from = "serve", !.run = r, !.wave = @ \ {r}]
<1>2. sups[s] \in SupState /\ sups[s].pc = "serve" /\ UNCHANGED stores /\ lease' = lease
  BY SupTyped DEF LaneInv, LandOne, At
<1>3. /\ r \in Run /\ v \in SupState /\ v.pc = "land" /\ v.run = r /\ v.from = "serve"
      /\ v.failed = sups[s].failed /\ v.wave = sups[s].wave \ {r}
  BY <1>2 DEF SupState, PC
<1>4. sups' = [sups EXCEPT ![s] = v]
  BY <1>1
<1> HIDE DEF v
<1> QED BY <1>1, <1>2, <1>3, <1>4, StartsCalm

\* A step of a supervisor that serves, about a run of its wave or a new one.
LEMMA ServingCalm ==
    ASSUME LaneInv, Calm, NEW s \in Supervisor, sups[s].pc = "serve", NEW r \in Run,
           NEW v \in SupState, sups' = [sups EXCEPT ![s] = v], lease' = lease, v.pc = "serve",
           v.failed = sups[s].failed, v.run = sups[s].run,
           ledger' = ledger, \A q \in Run : InRef(q)' <=> InRef(q),
           Others(r), \A q \in Run : Contends(q) => TaskOf[q] # TaskOf[r],
           \/ tasks'[TaskOf[r]] = tasks[TaskOf[r]]
           \/ ClaimLive(r) \/ tasks[TaskOf[r]].status # "in_progress",
           runs'[r].status \in {"working", "candidate_ready"} => ClaimLive(r)' /\ ledger[r].state = "absent",
           WaveCalm(s)', InRef(r) => ~(ClaimLive(r)'),
           \A q \in Run \ {r} : ClaimLive(q)' => ClaimLive(q)
    PROVE  Calm'
<1>1. /\ sups'[s] = v /\ lease' = s /\ SupCalm(s)
      /\ \A t \in Supervisor \ {s} : sups'[t] = sups[t] /\ sups[t].pc = "down"
  BY Alone DEF LaneInv, TypeOK, Calm
<1>2. {"down", "serve"} \cap (Walk \cup InLane \cup Found \cup Owing \cup {"ledgers", "classify", "retry", "abandon"}) = {}
  BY PcsApart DEF Away, Walk
<1>3. \A q \in Run : \A t \in Supervisor : ~(Lands(t, q)')
  BY <1>1, <1>2 DEF Lands
<1>4. \A q \in Run : Contends(q)' => Contends(q)
  BY <1>3 DEF Contends
<1>5. Touched(r)
  BY <1>4 DEF Touched
<1>6. RunCalm(r)'
  BY <1>3 DEF RunCalm, Calm
<1>7. TaskCalm' /\ \A q \in Run : RunCalm(q)'
  BY <1>3, <1>4, <1>5, <1>6, StoresCalm
<1>8. ~(OfLedgers(s)') /\ ~OfLedgers(s)
  BY <1>1, <1>2 DEF OfLedgers
<1>9. ListCalm(s)' /\ FactCalm(s)'
  BY <1>1, <1>2, <1>8 DEF ListCalm, FactCalm
<1>10. DebtCalm(s)'
  <2>1. ASSUME NEW q \in Run, InRef(q), ClaimLive(q)', ~sups[s].failed PROVE FALSE
    <3>1. q # r /\ ClaimLive(q)
      BY <2>1
    <3> QED BY <1>1, <1>2, <1>8, <2>1, <3>1 DEF SupCalm, DebtCalm
  <2> QED BY <1>1, <2>1 DEF DebtCalm
<1>11. SupCalm(s)'
  BY <1>9, <1>10 DEF SupCalm
<1> QED BY <1>1, <1>7, <1>11, CalmFrom

LEMMA WaveShrinks ==
    ASSUME LaneInv, Calm, NEW s \in Supervisor, NEW r \in sups[s].wave, LeaveWave(s, r),
           sups[s].pc = "serve", ledger' = ledger,
           \A q \in Run : runs[q].status # "absent" => runs'[q].status # "absent"
    PROVE  \E v \in SupState :
             /\ sups' = [sups EXCEPT ![s] = v] /\ v.pc = "serve" /\ v.failed = sups[s].failed
             /\ v.run = sups[s].run /\ WaveCalm(s)'
             /\ \A q \in Run : Contends(q) => TaskOf[q] # TaskOf[r]
<1> DEFINE v == [sups[s] EXCEPT !.wave = @ \ {r}]
<1>1. sups[s] \in SupState /\ SupCalm(s)
  BY SupTyped DEF LaneInv, Calm
<1>2. /\ v \in SupState /\ v.pc = "serve" /\ v.failed = sups[s].failed
      /\ v.run = sups[s].run /\ v.wave \subseteq sups[s].wave
  BY <1>1 DEF SupState
<1>3. sups' = [sups EXCEPT ![s] = v] /\ sups'[s] = v
  BY DEF LeaveWave, LaneInv, TypeOK
<1> HIDE DEF v
<1>4. \A t \in Supervisor : sups'[t].run = sups[t].run /\ sups'[t].pc = sups[t].pc
  BY <1>2, <1>3 DEF LaneInv, TypeOK
<1>5. \A q \in Run : Contends(q)' => Contends(q)
  BY <1>4 DEF Contends, Lands
<1>6. OfServing(s)'
  BY <1>2, <1>3 DEF OfServing
<1>7. WaveCalm(s)'
  BY <1>2, <1>3, <1>5, <1>6, WaveKept
<1>8. \A q \in Run : Contends(q) => TaskOf[q] # TaskOf[r]
  BY <1>1 DEF SupCalm, WaveCalm
<1> QED BY <1>2, <1>3, <1>7, <1>8

LEMMA WaveCalmKept ==
    ASSUME LaneInv, Calm, NEW s \in Supervisor, ReadResult(s) \/ CancelCandidate(s)
    PROVE  Calm'
<1>0. /\ TypeOK /\ sups[s] \in SupState /\ sups[s].pc = "serve" /\ ledger' = ledger /\ ref' = ref
      /\ lease' = lease /\ WaveOver(s) /\ \A q \in Run : TaskOf[q] \in Task
  BY SupTyped, LandingAssumption
     DEF LaneInv, ReadResult, CancelCandidate, At, Calm, LandingAssumption
<1>1. CASE ReadResult(s)
  <2>1. PICK r \in sups[s].wave :
          /\ runs[r].status # "candidate_ready"
          /\ \/ UNCHANGED tasks
             \/ tasks[TaskOf[r]].status = "blocked" /\ Ends(TaskOf[r], "pending", "none")
          /\ LeaveWave(s, r)
    BY <1>1 DEF ReadResult
  <2>2. r \in Run /\ runs' = runs /\ runs[r].status \notin {"working", "candidate_ready"}
    BY <1>0, <1>1, <2>1 DEF SupState, ReadResult, WaveOver
  <2>3. /\ \A t \in Task \ {TaskOf[r]} : tasks'[t] = tasks[t]
        /\ \/ tasks'[TaskOf[r]] = tasks[TaskOf[r]]
           \/ /\ tasks[TaskOf[r]].status # "in_progress"
              /\ tasks'[TaskOf[r]].status # "in_progress"
    BY <1>0, <2>1, <2>2, EndsWrites
  <2>4. Others(r) /\ \A q \in Run : InRef(q)' <=> InRef(q)
    BY <1>0, <2>2, <2>3, OthersFrom DEF Others
  <2>5. \A q \in Run : ClaimLive(q)' => ClaimLive(q)
    BY <2>2, <2>3, <2>4, ClaimsKept
  <2>6. InRef(r) => ~(ClaimLive(r)')
    <3>1. InRef(r) => Contends(r)
      BY <2>2 DEF LaneInv, RunGood, Contends
    <3>2. ~Contends(r)
      BY <1>0, <2>1, <2>2 DEF Calm, SupCalm, WaveCalm
    <3> QED BY <3>1, <3>2
  <2>7. PICK v \in SupState :
          /\ sups' = [sups EXCEPT ![s] = v] /\ v.pc = "serve" /\ v.failed = sups[s].failed
          /\ v.run = sups[s].run /\ WaveCalm(s)'
          /\ \A q \in Run : Contends(q) => TaskOf[q] # TaskOf[r]
    BY <1>0, <2>1, <2>2, WaveShrinks
  <2> QED BY <1>0, <2>2, <2>3, <2>4, <2>5, <2>6, <2>7, ServingCalm
<1>2. CASE CancelCandidate(s)
  <2>1. PICK r \in sups[s].wave :
          /\ runs[r].status = "candidate_ready" /\ FinishClaim(r, "pending")
          /\ Becomes(r, IF ClaimLive(r) THEN "cancelled" ELSE "system_error")
          /\ LeaveWave(s, r)
    BY <1>2 DEF CancelCandidate
  <2> DEFINE st == IF ClaimLive(r) THEN "cancelled" ELSE "system_error"
  <2>2. r \in Run /\ st \in RunState \ {"absent", "working", "candidate_ready"}
    BY <1>0 DEF SupState, RunState
  <2>3. runs'[r].status = st /\ \A q \in Run \ {r} : runs'[q] = runs[q]
    BY <1>0, <2>1, <2>2, BecomesWrites
  <2>4. runs'[r].status \notin {"absent", "working", "candidate_ready"}
    BY <2>2, <2>3
  <2> HIDE DEF st
  <2>5. \A t \in Task : tasks'[t] # tasks[t] => t = TaskOf[r] /\ ClaimLive(r) /\ tasks'[t].status = "pending"
    BY <1>0, <2>1, <2>2, FinishWrites
  <2>6. Others(r) /\ \A q \in Run : InRef(q)' <=> InRef(q)
    BY <1>0, <2>3, <2>5, OthersFrom, <2>2 DEF Others
  <2>7. (\A q \in Run : ClaimLive(q)' => ClaimLive(q)) /\ ~(ClaimLive(r)')
    BY <1>0, <2>1, <2>2, FinishWrites
  <2>8. PICK v \in SupState :
          /\ sups' = [sups EXCEPT ![s] = v] /\ v.pc = "serve" /\ v.failed = sups[s].failed
          /\ v.run = sups[s].run /\ WaveCalm(s)'
          /\ \A q \in Run : Contends(q) => TaskOf[q] # TaskOf[r]
    BY <1>0, <2>1, <2>3, <2>4, WaveShrinks
  <2>9. tasks'[TaskOf[r]] = tasks[TaskOf[r]] \/ ClaimLive(r)
    BY <1>0, <2>2, <2>5
  <2> QED BY <1>0, <2>2, <2>4, <2>6, <2>7, <2>8, <2>9, ServingCalm
<1> QED BY <1>1, <1>2

LEMMA DispatchCalm ==
    ASSUME LaneInv, Calm, NEW s \in Supervisor, Dispatch(s)
    PROVE  Calm'
<1>0. /\ TypeOK /\ sups[s] \in SupState /\ sups[s].pc = "serve" /\ SupCalm(s)
      /\ ledger' = ledger /\ ref' = ref /\ lease' = lease
      /\ \A q \in sups[s].wave : q \in Run /\ runs[q].status = "working"
      /\ \A q \in Run : TaskOf[q] \in Task
  BY SupTyped, LandingAssumption DEF LaneInv, Dispatch, At, Calm, SupState, LandingAssumption
<1>1. PICK r \in Run :
        /\ runs[r].status = "absent" /\ Claimable(TaskOf[r])
        /\ runs' = [runs EXCEPT ![r] = [status |-> "working", base |-> Len(ref), head |-> Len(ref)]]
        /\ tasks' = [tasks EXCEPT ![TaskOf[r]] =
                       [status |-> "in_progress", holder |-> r, mode |-> "none"]]
        /\ sups' = [sups EXCEPT ![s].wave = @ \cup {r}]
  BY DEF Dispatch
<1> DEFINE v == [sups[s] EXCEPT !.wave = @ \cup {r}]
<1>2. /\ v \in SupState /\ v.pc = "serve" /\ v.failed = sups[s].failed /\ v.run = sups[s].run
      /\ v.wave = sups[s].wave \cup {r}
  BY <1>0 DEF SupState
<1>3. sups' = [sups EXCEPT ![s] = v] /\ sups'[s] = v
  BY <1>0, <1>1 DEF TypeOK
<1> HIDE DEF v
<1>4. /\ runs'[r].status = "working" /\ \A q \in Run \ {r} : runs'[q] = runs[q]
  BY <1>0, <1>1 DEF TypeOK, StoresTyped, RunsTyped
<1>5. /\ tasks'[TaskOf[r]] = [status |-> "in_progress", holder |-> r, mode |-> "none"]
      /\ \A t \in Task \ {TaskOf[r]} : tasks'[t] = tasks[t]
  BY <1>0, <1>1 DEF TypeOK, StoresTyped, TasksTyped
<1>6. tasks[TaskOf[r]].status = "pending" /\ ledger[r].state = "absent" /\ ~InRef(r)
  BY <1>1 DEF Claimable, LaneInv, RunGood
<1>7. \A q \in Run : Contends(q) => TaskOf[q] # TaskOf[r]
  BY <1>6 DEF Calm, TaskCalm, ClaimLive
<1>8. \A q \in sups[s].wave : TaskOf[q] # TaskOf[r]
  BY <1>0, <1>6 DEF Calm, RunCalm, ClaimLive
<1>9. Others(r) /\ \A q \in Run : InRef(q)' <=> InRef(q)
  BY <1>0, <1>4, <1>5, OthersFrom DEF Others
<1>10. ClaimLive(r)' /\ \A q \in Run \ {r} : ClaimLive(q)' => ClaimLive(q)
  BY <1>0, <1>5 DEF ClaimLive
<1>11. WaveCalm(s)'
  <2>1. \A t \in Supervisor : sups'[t].run = sups[t].run /\ sups'[t].pc = sups[t].pc
    BY <1>0, <1>2, <1>3 DEF TypeOK
  <2>2. \A q \in Run : Contends(q)' => Contends(q)
    BY <1>0, <2>1 DEF Contends, Lands
  <2>3. OfServing(s)'
    BY <1>2, <1>3 DEF OfServing
  <2>4. \A q \in v.wave : q \in Run /\ runs'[q].status # "absent"
    BY <1>0, <1>2, <1>4
  <2>5. ASSUME NEW q \in v.wave, NEW p \in Run, Contends(p)' PROVE TaskOf[p] # TaskOf[q]
    BY <1>0, <1>2, <1>7, <2>2, <2>5 DEF SupCalm, WaveCalm
  <2>6. ASSUME NEW q \in v.wave, NEW p \in v.wave, TaskOf[p] = TaskOf[q] PROVE p = q
    BY <1>0, <1>2, <1>8, <2>6 DEF SupCalm, WaveCalm
  <2> QED BY <1>3, <2>3, <2>4, <2>5, <2>6 DEF WaveCalm
<1> QED BY <1>0, <1>2, <1>3, <1>6, <1>7, <1>9, <1>10, <1>11, ServingCalm

\* A fault that is none of these two leaves the calm; these two end it for good.
LEMMA FaultsDisturb ==
    ASSUME TypeOK, NEW kind \in {"foreign", "operator", "crashes", "lapses"}, Fault(kind)
    PROVE  Undisturbed' <=> Undisturbed /\ kind \in {"foreign", "crashes"}
  BY LandingAssumption DEF TypeOK, Fault, Undisturbed, LandingAssumption

LEMMA CalmInit == Init => CalmInv
<1> SUFFICES ASSUME Init PROVE Calm
  BY DEF CalmInv
<1> USE DEF Init, Idle
<1>1. /\ \A s \in Supervisor : sups[s].pc = "down" /\ sups[s].wave = {}
      /\ \A r \in Run : ledger[r].state = "absent" /\ runs[r].status = "absent"
  OBVIOUS
<1>2. \A s \in Supervisor : SupCalm(s)
  BY <1>1, PcsApart DEF SupCalm, WaveCalm, ListCalm, FactCalm, DebtCalm, OfLedgers, Walk, Away, InLane, AfterSwap, Found
<1>3. \A r \in Run : ~Contends(r)
  BY <1>1, PcsApart DEF Contends, Lands
<1>4. TaskCalm /\ \A r \in Run : RunCalm(r)
  BY <1>1, <1>3 DEF TaskCalm, RunCalm
<1>5. OneUp
  BY <1>1 DEF OneUp
<1> QED BY <1>2, <1>4, <1>5 DEF Calm

LEMMA NextKeepsCalm ==
    ASSUME LaneInv, CalmInv, [Next]_vars
    PROVE  CalmInv'
<1> SUFFICES ASSUME Undisturbed' PROVE Calm'
  BY DEF CalmInv
<1>0. TypeOK
  BY DEF LaneInv
<1>1. CASE UNCHANGED vars
  <2>1. Undisturbed
    BY <1>1 DEF Undisturbed, vars
  <2> QED BY <1>1, <2>1, OutsideKeepsCalm DEF CalmInv
<1>2. CASE LeaseExpires
  <2>1. CASE UNCHANGED spent
    <3>1. Undisturbed /\ At(lease, "down")
      BY <1>2, <2>1, <1>0, LandingAssumption
         DEF LeaseExpires, Undisturbed, Fault, TypeOK, LandingAssumption
    <3> QED BY <1>2, <3>1, OutsideKeepsCalm DEF CalmInv
  <2>2. CASE Fault("lapses")
    BY <1>0, <2>2, FaultsDisturb
  <2> QED BY <1>2, <2>1, <2>2 DEF LeaseExpires
<1>3. CASE ForeignCommit
  <2>1. Undisturbed
    BY <1>0, <1>3, FaultsDisturb DEF ForeignCommit
  <2> QED BY <1>3, <2>1, OutsideKeepsCalm DEF CalmInv
<1>4. ASSUME NEW r \in Run, WorkerFinishes(r) PROVE Calm'
  <2>1. Undisturbed
    BY <1>4 DEF WorkerFinishes, Undisturbed
  <2> QED BY <1>4, <2>1, OutsideKeepsCalm DEF CalmInv
<1>5. ASSUME NEW t \in Task, Operator(t) PROVE Calm'
  BY <1>0, <1>5, FaultsDisturb DEF Operator
<1>6. ASSUME NEW s \in Supervisor, Crash(s) PROVE Calm'
  <2>1. Undisturbed
    BY <1>0, <1>6, FaultsDisturb DEF Crash
  <2> QED BY <1>6, <2>1, LoopCalm DEF CalmInv
<1>7. ASSUME NEW s \in Supervisor, StartLoop(s) \/ Reconcile(s) \/ Serve(s) \/ Land(s)
      PROVE  Calm'
  <2>1. spent' = spent
    <3>1. CASE StartLoop(s) \/ Reconcile(s)
      BY <3>1 DEF StartLoop, Reconcile, ReadGit, Classify, RetryOrAbandon, Abandon, PushAgain,
                  FinalizeQueue, MarkReconciled, CloseLedger, LedgersDone, Orphan, OrphansDone
    <3>2. CASE Serve(s)
      BY <3>2 DEF Serve, Dispatch, ReadResult, CancelCandidate, LandOne, LoopEnds
    <3>3. CASE Land(s)
      BY <3>3 DEF Land, LandingRefused, EnterLane, MarkVerifying, VerifyFails, Prepare, CompareAndSwap,
                  RecordIntegrated, LandingPush, QueueDone, MarkLanded, RecordFinalized
    <3> QED BY <1>7, <3>1, <3>2, <3>3
  <2>2. Calm
    BY <2>1 DEF Undisturbed, CalmInv
  <2>3. CASE StartLoop(s) \/ ReadGit(s) \/ LedgersDone(s) \/ OrphansDone(s) \/ LoopEnds(s)
    BY <2>2, <2>3, LoopCalm
  <2>4. CASE Classify(s)
    BY <2>2, <2>4, ClassifyCalm
  <2>5. CASE RetryOrAbandon(s) \/ Abandon(s) \/ PushAgain(s) \/ FinalizeQueue(s)
               \/ MarkReconciled(s) \/ CloseLedger(s)
    BY <2>2, <2>5, ReconcilingCalm
  <2>6. CASE Orphan(s) \/ LandOne(s)
    BY <2>2, <2>6, OrphanCalm, LandOneCalm
  <2>7. CASE Dispatch(s) \/ ReadResult(s) \/ CancelCandidate(s)
    BY <2>2, <2>7, DispatchCalm, WaveCalmKept
  <2>8. CASE Land(s)
    BY <2>2, <2>8, LandingCalm
  <2> QED BY <1>7, <2>3, <2>4, <2>5, <2>6, <2>7, <2>8 DEF Reconcile, Serve
<1> QED BY <1>1, <1>2, <1>3, <1>4, <1>5, <1>6, <1>7 DEF Next

LEMMA LaneStaysCalm == Spec => [](LaneInv /\ CalmInv)
<1>1. Init => LaneInv /\ CalmInv
  BY LaneInit, CalmInit
<1>2. LaneInv /\ CalmInv /\ [Next]_vars => (LaneInv /\ CalmInv)'
  BY NextKeepsLane, NextKeepsCalm
<1> QED BY <1>1, <1>2, PTL DEF Spec

\* No candidate is on the branch twice whatever faults occur, and none beside another
\* of its task while leases hold and nobody edits the queue (update-ref, prepare, claim).
THEOREM LandedAtMostOnce == Spec => []LandedOnce
<1>1. LaneInv /\ CalmInv => LandedOnce
  <2> SUFFICES ASSUME LaneInv, CalmInv PROVE LandedOnce
    OBVIOUS
  <2>1. \A r \in Run : InRef(r) => Contends(r)
    BY DEF LaneInv, RunGood, Contends
  <2>2. Undisturbed => \A r, q \in Run : InRef(r) /\ InRef(q) /\ TaskOf[r] = TaskOf[q] => r = q
    BY <2>1 DEF CalmInv, Calm, TaskCalm
  <2>3. BranchGood
    BY DEF LaneInv
  <2> QED BY <2>2, <2>3 DEF LandedOnce, BranchGood
<1> QED BY <1>1, LaneStaysCalm, PTL

\* What the landings record as integrated is on the branch whatever faults occur; what
\* they record as abandoned is not, while leases hold and nobody edits the queue
\* (reconcile_git_fact, abandon_prepared).
THEOREM LedgerAlwaysTellsTheTruth == Spec => []LedgerTellsTheTruth
<1>1. LaneInv /\ CalmInv => LedgerTellsTheTruth
  BY DEF LaneInv, RunGood, CalmInv, Calm, RunCalm, LedgerTellsTheTruth
<1> QED BY <1>1, LaneStaysCalm, PTL

\* A loop that serves again has finished what the supervisor before it had landed
\* (_reconcile_database_landings, complete_task).
THEOREM RestartAlwaysFinishesLandings == Spec => []RestartFinishesLandings
<1>1. LaneInv /\ CalmInv => RestartFinishesLandings
  <2>1. "serve" \notin {"ledgers", "down", "classify", "retry", "abandon"} \cup Found \cup Walk \cup Owing
    BY PcsApart DEF Away
  <2> QED BY <2>1 DEF CalmInv, Calm, SupCalm, DebtCalm, OfLedgers, At, RestartFinishesLandings
<1> QED BY <1>1, LaneStaysCalm, PTL
=============================================================================
