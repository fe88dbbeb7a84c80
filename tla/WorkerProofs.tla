---------------------------- MODULE WorkerProofs ----------------------------
(***************************************************************************)
(* The worker pool, for any projects, tasks, workers, providers and limits: *)
(* the host's rows stay in step with what the processes do, a claim stands *)
(* until its worker ends it, and what is done was reviewed.                *)
(***************************************************************************)
EXTENDS WorkerPool, SequenceTheorems, FiniteSetTheorems, TLAPS

Declared == UNION {ResourcesOf[d] : d \in DOMAIN ResourcesOf}
WorkerRow ==
    [pc : PC, alive : BOOLEAN, reserved : SUBSET Declared, built : 0 .. MaxSpec,
     red : BOOLEAN, candidate : BOOLEAN, retry : BOOLEAN]
LeaseRow ==
    [state : LeaseState, provider : Provider \cup {None}, resources : SUBSET Declared]
RequestRow ==
    [owner : Worker, kind : {"worker", "provider"}, provider : Provider,
     resources : SUBSET Declared]
SpentRow == [crashes : Nat, lapses : Nat, operator : Nat, exhausted : SUBSET Task]

PoolTypes ==
    /\ tasks \in [Task -> TaskState]
    /\ workers \in [Worker -> WorkerRow]
    /\ leases \in [Worker -> LeaseRow]
    /\ waiting \in Seq(RequestRow)
    /\ \A i, j \in DOMAIN waiting : waiting[i].owner = waiting[j].owner => i = j
    /\ lastGrant \in Project \cup {None}
    /\ spent \in SpentRow

\* A live worker has exactly the request it waits with.
RequestsOf(w) == {q \in {waiting[i] : i \in DOMAIN waiting} : q.owner = w}
Due(w) ==
    IF workers[w].pc = "waiting"
    THEN {Request(w, "worker", Builder[w], workers[w].reserved)}
    ELSE IF workers[w].pc = "provider" THEN {Request(w, "provider", Evaluator[w], {})} ELSE {}
RequestsOK == \A w \in Worker : workers[w].alive => RequestsOf(w) = Due(w)

\* The rows of the active leases are within the limits of the host.
Holding(p) == {w \in Active : leases[w].provider = p}
RowsOK ==
    /\ IsFiniteSet(Active) /\ Cardinality(Active) <= MaxActiveWorkers
    /\ \A p \in Provider : Cardinality(Holding(p)) <= ProviderLimit[p]
    /\ \A v, w \in Active : v # w => leases[v].resources \cap leases[w].resources = {}

\* A process that occupies the host has its lease, with what it works with.
LeasesFollow ==
    spent.lapses = 0 =>
        \A w \in Occupying :
            /\ leases[w].state = "active" /\ leases[w].resources = workers[w].reserved
            /\ workers[w].pc \in {"granted", "building"} => leases[w].provider = Builder[w]
            /\ workers[w].pc = "reviewing" => leases[w].provider = Evaluator[w]

HostInv == RequestsOK /\ RowsOK /\ LeasesFollow

\* An attempt that holds its claim built what the claim says, and only a green
\* review lets it go on to finish or leave a candidate.
Attempting(w) ==
    \/ workers[w].candidate
    \/ workers[w].pc \in {"building", "verifying", "requesting", "provider", "reviewing",
                          "reviewed", "finishing"}
AttemptOK(w) ==
    /\ workers[w].candidate => workers[w].pc \in {"closing", "over"}
    /\ workers[w].candidate \/ workers[w].pc = "finishing" => ~workers[w].red
    /\ Attempting(w) /\ HoldsLease(w, TaskOf[w]) =>
           workers[w].built = tasks[TaskOf[w]].claimed
AttemptsOK ==
    /\ \A w \in Worker : AttemptOK(w)
    /\ spent.crashes = 0 => \A w \in Worker : workers[w].alive
    /\ \A t \in Task : tasks[t].gate => tasks[t].status # "done"

PoolInv == PoolTypes /\ HostInv /\ AttemptsOK /\ ClaimStands
-----------------------------------------------------------------------------
(* The waiting requests as a set: asking adds one, cancelling removes one.  *)
LEMMA RequestsAre ==
    ASSUME PoolTypes, NEW w \in Worker
    PROVE  /\ DOMAIN waiting = 1 .. Len(waiting) /\ Len(waiting) \in Nat
           /\ \A i \in DOMAIN waiting : waiting[i] \in RequestRow
           /\ RequestsOf(w) \subseteq RequestRow
           /\ IndexOf(w) # 0 => IndexOf(w) \in DOMAIN waiting /\ waiting[IndexOf(w)].owner = w
           /\ IndexOf(w) = 0 => RequestsOf(w) = {}
           /\ \A q : RequestsOf(w) = {q} => IndexOf(w) \in DOMAIN waiting /\ waiting[IndexOf(w)] = q
<1>1. DOMAIN waiting = 1 .. Len(waiting) /\ Len(waiting) \in Nat
  BY DEF PoolTypes
<1>2. \A i \in DOMAIN waiting : waiting[i] \in RequestRow
  BY <1>1 DEF PoolTypes
<1>3. RequestsOf(w) \subseteq RequestRow
  BY <1>2 DEF RequestsOf
<1>4. IndexOf(w) # 0 => IndexOf(w) \in DOMAIN waiting /\ waiting[IndexOf(w)].owner = w
  BY DEF IndexOf
<1>5. IndexOf(w) = 0 => RequestsOf(w) = {}
  <2> SUFFICES ASSUME IndexOf(w) = 0, NEW i \in DOMAIN waiting, waiting[i].owner = w PROVE FALSE
    BY DEF RequestsOf
  <2>1. PICK j : j = CHOOSE k \in DOMAIN waiting : waiting[k].owner = w
    OBVIOUS
  <2>2. j \in DOMAIN waiting /\ j = 0
    BY <2>1 DEF IndexOf
  <2> QED BY <2>2, <1>1
<1>6. ASSUME NEW q, RequestsOf(w) = {q}
      PROVE  IndexOf(w) \in DOMAIN waiting /\ waiting[IndexOf(w)] = q
  <2>1. IndexOf(w) \in DOMAIN waiting /\ waiting[IndexOf(w)].owner = w
    BY <1>4, <1>5, <1>6
  <2> QED BY <2>1, <1>6 DEF RequestsOf
<1> QED BY <1>1, <1>2, <1>3, <1>4, <1>5, <1>6

\* Appending the request of a worker that has none.
LEMMA AskAdds ==
    ASSUME PoolTypes, NEW w \in Worker, NEW q \in RequestRow, q.owner = w,
           RequestsOf(w) = {}, waiting' = Append(waiting, q)
    PROVE  /\ waiting' \in Seq(RequestRow)
           /\ \A i, j \in DOMAIN waiting' : waiting'[i].owner = waiting'[j].owner => i = j
           /\ RequestsOf(w)' = {q}
           /\ \A v \in Worker \ {w} : RequestsOf(v)' = RequestsOf(v)
<1>1. /\ waiting \in Seq(RequestRow) /\ DOMAIN waiting = 1 .. Len(waiting) /\ Len(waiting) \in Nat
      /\ \A i, j \in DOMAIN waiting : waiting[i].owner = waiting[j].owner => i = j
  BY RequestsAre DEF PoolTypes
<1>2. /\ waiting' \in Seq(RequestRow) /\ Len(waiting') = Len(waiting) + 1
      /\ waiting'[Len(waiting) + 1] = q
      /\ \A i \in 1 .. Len(waiting) : waiting'[i] = waiting[i]
  BY <1>1
<1>3. DOMAIN waiting' = 1 .. Len(waiting) + 1
  BY <1>1, <1>2
<1>4. \A i \in 1 .. Len(waiting) : waiting[i].owner # w
  BY <1>1 DEF RequestsOf
<1>5. \A i, j \in DOMAIN waiting' : waiting'[i].owner = waiting'[j].owner => i = j
  <2> SUFFICES ASSUME NEW i \in DOMAIN waiting', NEW j \in DOMAIN waiting',
                      waiting'[i].owner = waiting'[j].owner, i # j
               PROVE  FALSE
    OBVIOUS
  <2>1. i \in 1 .. Len(waiting) \/ i = Len(waiting) + 1
    BY <1>1, <1>3
  <2>2. j \in 1 .. Len(waiting) \/ j = Len(waiting) + 1
    BY <1>1, <1>3
  <2> QED BY <2>1, <2>2, <1>1, <1>2, <1>4
<1>6. {waiting'[i] : i \in DOMAIN waiting'} = {waiting[i] : i \in DOMAIN waiting} \cup {q}
  <2>1. 1 .. Len(waiting) + 1 = (1 .. Len(waiting)) \cup {Len(waiting) + 1}
    BY <1>1
  <2> QED BY <2>1, <1>1, <1>2, <1>3
<1>7. RequestsOf(w)' = {q} /\ \A v \in Worker \ {w} : RequestsOf(v)' = RequestsOf(v)
  BY <1>6 DEF RequestsOf
<1> QED BY <1>2, <1>5, <1>7

\* Cancelling leaves the requests of the others.
LEMMA CancelRemoves ==
    ASSUME PoolTypes, NEW w \in Worker, Cancel(w)
    PROVE  /\ waiting' \in Seq(RequestRow)
           /\ \A i, j \in DOMAIN waiting' : waiting'[i].owner = waiting'[j].owner => i = j
           /\ RequestsOf(w)' = {}
           /\ \A v \in Worker \ {w} : RequestsOf(v)' = RequestsOf(v)
<1>1. /\ waiting \in Seq(RequestRow) /\ DOMAIN waiting = 1 .. Len(waiting) /\ Len(waiting) \in Nat
      /\ \A i, j \in DOMAIN waiting : waiting[i].owner = waiting[j].owner => i = j
  BY RequestsAre DEF PoolTypes
<1>2. CASE IndexOf(w) = 0
  <2>1. waiting' = waiting
    BY <1>2 DEF Cancel
  <2>2. RequestsOf(w) = {}
    BY <1>2, RequestsAre
  <2> QED BY <1>1, <2>1, <2>2 DEF RequestsOf
<1>3. CASE IndexOf(w) # 0
  <2>1. PICK n : n = IndexOf(w)
    OBVIOUS
  <2>2. n \in 1 .. Len(waiting) /\ waiting[n].owner = w
    BY <1>1, <1>3, <2>1, RequestsAre
  <2>3. waiting' = SubSeq(waiting, 1, n - 1) \o SubSeq(waiting, n + 1, Len(waiting))
    BY <1>3, <2>1 DEF Cancel, RemoveAt
  <2>4. /\ waiting' \in Seq(RequestRow) /\ Len(waiting') = Len(waiting) - 1
        /\ \A i \in 1 .. n - 1 : waiting'[i] = waiting[i]
        /\ \A i \in n .. Len(waiting) - 1 : waiting'[i] = waiting[i + 1]
    <3> DEFINE a == SubSeq(waiting, 1, n - 1)
               b == SubSeq(waiting, n + 1, Len(waiting))
    <3>1. a \in Seq(RequestRow) /\ Len(a) = n - 1 /\ \A i \in 1 .. n - 1 : a[i] = waiting[i]
      BY <1>1, <2>2
    <3>2. /\ b \in Seq(RequestRow) /\ Len(b) = Len(waiting) - n
          /\ \A i \in 1 .. Len(waiting) - n : b[i] = waiting[n + i]
      <4>1. n + 1 \in 1 .. Len(waiting) + 1 /\ Len(waiting) \in n .. Len(waiting)
        BY <1>1, <2>2
      <4>2. /\ b \in Seq(RequestRow) /\ Len(b) = Len(waiting) - (n + 1) + 1
            /\ \A i \in 1 .. Len(b) : b[i] = waiting[n + 1 + i - 1]
        <5>1. \A i \in n + 1 .. Len(waiting) : waiting[i] \in RequestRow
          BY <1>1, <2>2
        <5>2. n + 1 \in Int /\ Len(waiting) \in Int /\ n \in Int /\ n <= Len(waiting)
          BY <1>1, <2>2
        <5>3. /\ b \in Seq(RequestRow)
              /\ Len(b) = IF n + 1 <= Len(waiting) THEN Len(waiting) - (n + 1) + 1 ELSE 0
              /\ \A i \in 1 .. Len(waiting) - (n + 1) + 1 : b[i] = waiting[n + 1 + i - 1]
          BY <5>1, <5>2, SubSeqProperties
        <5> HIDE DEF b
        <5>4. Len(b) = Len(waiting) - (n + 1) + 1
          BY <5>2, <5>3
        <5> QED BY <5>3, <5>4
      <4> HIDE DEF b
      <4>3. Len(b) = Len(waiting) - n
        BY <1>1, <2>2, <4>2
      <4>4. \A i \in 1 .. Len(b) : n + 1 + i - 1 = n + i
        BY <1>1, <2>2, <4>3
      <4> QED BY <4>2, <4>3, <4>4
    <3>3. waiting' = a \o b
      BY <2>3
    <3> HIDE DEF a, b
    <3>4. waiting' \in Seq(RequestRow) /\ Len(waiting') = Len(waiting) - 1
      <4>1. waiting' \in Seq(RequestRow) /\ Len(waiting') = Len(a) + Len(b)
        BY <3>1, <3>2, <3>3, ConcatProperties
      <4> QED BY <4>1, <3>1, <3>2, <1>1, <2>2
    <3>5. \A i \in 1 .. n - 1 : waiting'[i] = waiting[i]
      BY <3>1, <3>2, <3>3, <1>1, <2>2
    <3>6. ASSUME NEW i \in n .. Len(waiting) - 1 PROVE waiting'[i] = waiting[i + 1]
      <4>1. i - (n - 1) \in 1 .. Len(waiting) - n
        BY <1>1, <2>2, <3>6
      <4>2. waiting'[i] = b[i - (n - 1)]
        BY <3>1, <3>2, <3>3, <4>1, <1>1, <2>2, <3>6
      <4>3. b[i - (n - 1)] = waiting[n + (i - (n - 1))]
        BY <3>2, <4>1
      <4>4. n + (i - (n - 1)) = i + 1
        BY <2>2, <1>1, <3>6
      <4> QED BY <4>2, <4>3, <4>4
    <3> QED BY <3>4, <3>5, <3>6
  <2>5. DOMAIN waiting' = 1 .. Len(waiting) - 1
    BY <2>4
  <2> DEFINE from(i) == IF i < n THEN i ELSE i + 1
  <2>6. \A i \in DOMAIN waiting' : /\ from(i) \in DOMAIN waiting /\ from(i) # n
                                   /\ waiting'[i] = waiting[from(i)]
    BY <1>1, <2>2, <2>4, <2>5
  <2>7. \A i, j \in DOMAIN waiting' : from(i) = from(j) => i = j
    BY <1>1, <2>2, <2>5
  <2>8. ASSUME NEW k \in DOMAIN waiting, k # n
        PROVE  \E i \in DOMAIN waiting' : from(i) = k
    <3> DEFINE i == IF k < n THEN k ELSE k - 1
    <3>1. i \in DOMAIN waiting' /\ from(i) = k
      BY <1>1, <2>2, <2>5, <2>8
    <3> QED BY <3>1
  <2> HIDE DEF from
  <2>9. \A i, j \in DOMAIN waiting' : waiting'[i].owner = waiting'[j].owner => i = j
    BY <1>1, <2>6, <2>7
  <2>10. \A i \in DOMAIN waiting' : waiting'[i].owner # w
    BY <1>1, <2>2, <2>6
  <2>11. RequestsOf(w)' = {}
    BY <2>10 DEF RequestsOf
  <2>12. ASSUME NEW v \in Worker \ {w} PROVE RequestsOf(v)' = RequestsOf(v)
    <3>1. RequestsOf(v)' \subseteq RequestsOf(v)
      BY <2>6 DEF RequestsOf
    <3>2. ASSUME NEW q \in RequestsOf(v) PROVE q \in RequestsOf(v)'
      <4>1. PICK k \in DOMAIN waiting : q = waiting[k] /\ q.owner = v
        BY <3>2 DEF RequestsOf
      <4>2. k # n
        BY <4>1, <2>2
      <4>3. PICK i \in DOMAIN waiting' : from(i) = k
        BY <4>2, <2>8
      <4>4. waiting'[i] = q
        BY <4>1, <4>3, <2>6
      <4> QED BY <4>1, <4>4 DEF RequestsOf
    <3> QED BY <3>1, <3>2
  <2> QED BY <2>4, <2>9, <2>11, <2>12
<1> QED BY <1>2, <1>3

-----------------------------------------------------------------------------
(* The host's rows.                                                         *)
LEMMA ConstantsFit ==
    /\ MaxActiveWorkers \in Nat /\ None \notin Provider
    /\ \A w \in Worker : /\ Builder[w] \in Provider /\ Evaluator[w] \in Provider
                         /\ TaskOf[w] \in Task /\ ProjectOf(w) \in Project
    /\ \A p \in Provider : ProviderLimit[p] \in Nat
    /\ \A t \in Task, s \in 0 .. MaxSpec : ResourcesOf[<<t, s>>] \subseteq Declared
<1>1. \A t \in Task, s \in 0 .. MaxSpec : <<t, s>> \in DOMAIN ResourcesOf
  BY PoolAssumption
<1>2. \A t \in Task, s \in 0 .. MaxSpec : ResourcesOf[<<t, s>>] \subseteq Declared
  BY <1>1 DEF Declared
<1>3. \A w \in Worker : TaskOf[w] \in Task /\ ProjectOf(w) \in Project
  BY PoolAssumption, QueueAssumption DEF ProjectOf
<1>4. \A w \in Worker : Builder[w] \in Provider /\ Evaluator[w] \in Provider
  BY PoolAssumption
<1>5. \A p \in Provider : ProviderLimit[p] \in Nat
  BY PoolAssumption
<1> QED BY <1>2, <1>3, <1>4, <1>5, PoolAssumption

\* Rows that end, or give back a provider, leave room.
LEMMA RowsShrink ==
    ASSUME RowsOK, Active' \subseteq Active,
           \A v \in Active' : /\ leases'[v].provider \in {leases[v].provider, None}
                              /\ leases'[v].resources = leases[v].resources
    PROVE  RowsOK'
<1>1. IsFiniteSet(Active) /\ Cardinality(Active) \in Nat /\ Cardinality(Active) <= MaxActiveWorkers
  BY FS_CardinalityType DEF RowsOK
<1>2. IsFiniteSet(Active') /\ Cardinality(Active') <= Cardinality(Active)
  BY <1>1, FS_Subset
<1>3. Cardinality(Active') <= MaxActiveWorkers
  BY <1>1, <1>2, FS_CardinalityType, ConstantsFit
<1>4. ASSUME NEW p \in Provider PROVE Cardinality(Holding(p)') <= ProviderLimit[p]
  <2>1. Holding(p)' \subseteq Holding(p) /\ Holding(p) \subseteq Active
    BY ConstantsFit DEF Holding
  <2>2. IsFiniteSet(Holding(p)) /\ IsFiniteSet(Holding(p)')
    BY <1>1, <2>1, FS_Subset
  <2>3. Cardinality(Holding(p)') <= Cardinality(Holding(p))
    BY <2>1, <2>2, FS_Subset
  <2>4. Cardinality(Holding(p)) <= ProviderLimit[p]
    BY DEF RowsOK
  <2> QED BY <2>2, <2>3, <2>4, FS_CardinalityType, ConstantsFit
<1>5. \A v, w \in Active' : v # w => leases'[v].resources \cap leases'[w].resources = {}
  BY DEF RowsOK
<1> QED BY <1>2, <1>3, <1>4, <1>5 DEF RowsOK

\* A grant that was allocatable keeps to the limits.
LEMMA RowsGrant ==
    ASSUME RowsOK, NEW w \in Worker, NEW p \in Provider,
           Active' = Active \cup {w}, leases'[w].provider = p,
           \A v \in Active \ {w} : /\ leases'[v] = leases[v]
                                   /\ leases[v].resources \cap leases'[w].resources = {},
           Cardinality(Active) < MaxActiveWorkers \/ w \in Active,
           Cardinality(Holding(p)) < ProviderLimit[p]
    PROVE  RowsOK'
<1>1. IsFiniteSet(Active) /\ Cardinality(Active) \in Nat /\ Cardinality(Active) <= MaxActiveWorkers
  BY FS_CardinalityType DEF RowsOK
<1>2. /\ IsFiniteSet(Active')
      /\ Cardinality(Active') = IF w \in Active THEN Cardinality(Active) ELSE Cardinality(Active) + 1
  BY <1>1, FS_AddElement
<1>3. Cardinality(Active') <= MaxActiveWorkers
  BY <1>1, <1>2, ConstantsFit
<1>4. ASSUME NEW q \in Provider PROVE Cardinality(Holding(q)') <= ProviderLimit[q]
  <2>1. Holding(q) \subseteq Active
    BY DEF Holding
  <2>2. IsFiniteSet(Holding(q)) /\ Cardinality(Holding(q)) \in Nat
    BY <1>1, <2>1, FS_Subset, FS_CardinalityType
  <2>3. Cardinality(Holding(q)) <= ProviderLimit[q]
    BY DEF RowsOK
  <2>4. CASE q = p
    <3>1. Holding(q)' \subseteq Holding(q) \cup {w}
      BY DEF Holding
    <3>2. /\ IsFiniteSet(Holding(q) \cup {w})
          /\ Cardinality(Holding(q) \cup {w}) <= Cardinality(Holding(q)) + 1
      <4>1. /\ IsFiniteSet(Holding(q) \cup {w})
            /\ Cardinality(Holding(q) \cup {w}) =
                 IF w \in Holding(q) THEN Cardinality(Holding(q)) ELSE Cardinality(Holding(q)) + 1
        BY <2>2, FS_AddElement
      <4> QED BY <2>2, <4>1
    <3>3. IsFiniteSet(Holding(q)') /\ Cardinality(Holding(q)') <= Cardinality(Holding(q) \cup {w})
      BY <3>1, <3>2, FS_Subset
    <3>4. Cardinality(Holding(q)') \in Nat /\ Cardinality(Holding(q) \cup {w}) \in Nat
      BY <3>2, <3>3, FS_CardinalityType
    <3> QED BY <2>2, <2>4, <3>2, <3>3, <3>4, ConstantsFit
  <2>5. CASE q # p
    <3>1. Holding(q)' \subseteq Holding(q)
      BY <2>5 DEF Holding
    <3>2. IsFiniteSet(Holding(q)') /\ Cardinality(Holding(q)') <= Cardinality(Holding(q))
      BY <3>1, <2>2, FS_Subset
    <3>3. Cardinality(Holding(q)') \in Nat
      BY <3>2, FS_CardinalityType
    <3> QED BY <2>2, <2>3, <3>2, <3>3, ConstantsFit
  <2> QED BY <2>4, <2>5
<1>5. \A v, u \in Active' : v # u => leases'[v].resources \cap leases'[u].resources = {}
  <2> SUFFICES ASSUME NEW v \in Active', NEW u \in Active', v # u
               PROVE  leases'[v].resources \cap leases'[u].resources = {}
    OBVIOUS
  <2>1. CASE v = w
    BY <2>1
  <2>2. CASE u = w
    BY <2>2
  <2>3. CASE v # w /\ u # w
    BY <2>3 DEF RowsOK
  <2> QED BY <2>1, <2>2, <2>3
<1> QED BY <1>2, <1>3, <1>4, <1>5 DEF RowsOK

\* A worker goes on, with the host's rows as they are.
LEMMA MoveKeeps ==
    ASSUME PoolTypes, HostInv, NEW w \in Worker, UNCHANGED <<leases, waiting>>,
           spent'.lapses = 0 => spent.lapses = 0,
           \A v \in Worker \ {w} : workers'[v] = workers[v],
           workers'[w].alive =>
               /\ workers[w].alive
               /\ workers'[w].pc \notin {"waiting", "provider", "reviewing"}
               /\ workers[w].pc \notin {"waiting", "provider"},
           w \in Occupying' =>
               /\ w \in Occupying /\ workers'[w].reserved = workers[w].reserved
               /\ workers'[w].pc \in {"granted", "building"} =>
                      workers[w].pc \in {"granted", "building"}
    PROVE  HostInv'
<1>1. RowsOK'
  BY RowsShrink DEF HostInv, Active
<1>2. RequestsOK'
  <2> SUFFICES ASSUME NEW v \in Worker, workers'[v].alive PROVE RequestsOf(v)' = Due(v)'
    BY DEF RequestsOK
  <2>1. RequestsOf(v)' = RequestsOf(v)
    BY DEF RequestsOf
  <2>2. workers[v].alive
    BY DEF PoolTypes
  <2>3. RequestsOf(v) = Due(v)
    BY <2>2 DEF HostInv, RequestsOK
  <2>4. CASE v = w
    BY <2>1, <2>3, <2>4 DEF Due
  <2>5. CASE v # w
    BY <2>1, <2>3, <2>5 DEF Due
  <2> QED BY <2>4, <2>5
<1>3. LeasesFollow'
  <2> SUFFICES ASSUME spent'.lapses = 0, NEW v \in Occupying'
               PROVE  /\ leases[v].state = "active" /\ leases[v].resources = workers'[v].reserved
                      /\ workers'[v].pc \in {"granted", "building"} => leases[v].provider = Builder[v]
                      /\ workers'[v].pc = "reviewing" => leases[v].provider = Evaluator[v]
    BY DEF LeasesFollow
  <2>1. v \in Worker /\ workers'[v].alive
    BY DEF Occupying
  <2>2. CASE v = w
    <3>1. w \in Occupying /\ workers'[w].pc # "reviewing"
      BY <2>1, <2>2
    <3> QED BY <2>2, <3>1 DEF HostInv, LeasesFollow
  <2>3. CASE v # w
    <3>1. v \in Occupying /\ workers'[v] = workers[v]
      BY <2>1, <2>3 DEF Occupying
    <3> QED BY <3>1 DEF HostInv, LeasesFollow
  <2> QED BY <2>2, <2>3
<1> QED BY <1>1, <1>2, <1>3 DEF HostInv

-----------------------------------------------------------------------------
(* The queue: a step takes a claim, finishes a task, or leaves it otherwise *)
(* than in progress.                                                        *)
Writes(t) == tasks' \in [Task -> TaskState] /\ \A s \in Task \ {t} : tasks'[s] = tasks[s]
Taken(w, t) ==
    /\ Writes(t)
    /\ tasks[t].status = "pending" /\ tasks'[t].status = "in_progress" /\ tasks'[t].holder = w
    /\ tasks'[t].claimed = tasks[t].spec
    /\ tasks'[t].gate = tasks[t].gate /\ tasks'[t].mode = tasks[t].mode
Finished(t) ==
    /\ Writes(t)
    /\ tasks'[t].status = "done" /\ ~tasks'[t].gate /\ tasks'[t].mode = "autodev_reviewed"
Left(t) ==
    /\ Writes(t)
    /\ tasks'[t].status # "in_progress"
    /\ tasks'[t].gate => tasks'[t].status # "done"
    /\ tasks[t].gate => tasks'[t].gate
    /\ tasks'[t].mode \in {tasks[t].mode, "manual_reconcile"}

Gated == \A t \in Task : tasks[t].gate => tasks[t].status # "done"

LEMMA RowWritten ==
    ASSUME tasks \in [Task -> TaskState], NEW t \in Task, NEW row \in TaskState,
           tasks' = [tasks EXCEPT ![t] = row]
    PROVE  Writes(t) /\ tasks'[t] = row
BY DEF Writes

LEMMA ClaimTakes ==
    ASSUME tasks \in [Task -> TaskState], NEW w \in Worker, NEW t \in Task,
           Claimable(t), Claim(w, t)
    PROVE  Taken(w, t)
<1> DEFINE row == [tasks[t] EXCEPT !.status = "in_progress", !.holder = w, !.claimed = tasks[t].spec]
<1>1. tasks[t] \in TaskState
  OBVIOUS
<1>2. row \in TaskState
  BY <1>1 DEF TaskState
<1>3. tasks' = [tasks EXCEPT ![t] = row]
  BY DEF Claim
<1> HIDE DEF row
<1>4. Writes(t) /\ tasks'[t] = row
  BY <1>2, <1>3, RowWritten
<1> QED BY <1>1, <1>4 DEF row, Claimable, Taken, TaskState

LEMMA FinishFinishes ==
    ASSUME tasks \in [Task -> TaskState], NEW t \in Task, Finish(t)
    PROVE  Finished(t)
<1> DEFINE row == [tasks[t] EXCEPT !.status = "done", !.holder = None, !.failures = 0, !.gate = FALSE,
                                   !.mode = "autodev_reviewed"]
<1>1. tasks[t] \in TaskState
  OBVIOUS
<1>2. row \in TaskState
  BY <1>1 DEF TaskState
<1>3. tasks' = [tasks EXCEPT ![t] = row]
  BY DEF Finish
<1> HIDE DEF row
<1>4. Writes(t) /\ tasks'[t] = row
  BY <1>2, <1>3, RowWritten
<1> QED BY <1>1, <1>4 DEF row, Finished, TaskState

LEMMA BlockedLeaves ==
    ASSUME tasks \in [Task -> TaskState], NEW t \in Task,
           NEW counted \in BOOLEAN, NEW red \in BOOLEAN, Blocked(t, counted, red)
    PROVE  Left(t) /\ (red => tasks'[t].gate)
<1>1. tasks[t] \in TaskState
  OBVIOUS
<1>2. PICK n \in Nat : n = tasks[t].failures + (IF counted THEN 1 ELSE 0)
  BY <1>1 DEF TaskState
<1>3. PICK g \in BOOLEAN : g = (tasks[t].gate \/ red)
  OBVIOUS
<1> DEFINE row == [tasks[t] EXCEPT !.status = "blocked", !.holder = None, !.failures = n, !.gate = g]
<1>4. row \in TaskState
  BY <1>1 DEF TaskState
<1>5. tasks' = [tasks EXCEPT ![t] = row]
  BY <1>2, <1>3 DEF Blocked
<1> HIDE DEF row
<1>6. Writes(t) /\ tasks'[t] = row
  BY <1>4, <1>5, RowWritten
<1>7. row.status = "blocked" /\ row.gate = g /\ row.mode = tasks[t].mode
  BY <1>1 DEF row, TaskState
<1>8. (tasks[t].gate => tasks'[t].gate) /\ (red => tasks'[t].gate)
  BY <1>3, <1>6, <1>7
<1> QED BY <1>6, <1>7, <1>8 DEF Left

LEMMA ResumeLeaves ==
    ASSUME tasks \in [Task -> TaskState], NEW t \in Task, NEW reset \in BOOLEAN, Resume(t, reset)
    PROVE  Left(t) /\ tasks[t].status # "in_progress"
<1> DEFINE row == [tasks[t] EXCEPT !.status = "pending", !.holder = None,
                                   !.failures = IF reset THEN 0 ELSE @]
<1>1. tasks[t] \in TaskState
  OBVIOUS
<1>2. row \in TaskState
  BY <1>1 DEF TaskState
<1>3. tasks' = [tasks EXCEPT ![t] = row]
  BY DEF Resume
<1> HIDE DEF row
<1>4. Writes(t) /\ tasks'[t] = row
  BY <1>2, <1>3, RowWritten
<1> QED BY <1>1, <1>4 DEF row, Resume, Left, TaskState

LEMMA HumanLeaves ==
    ASSUME tasks \in [Task -> TaskState], Gated, NEW t \in Task,
           ForceDone(t) \/ Approve(t) \/ ImportManifest(t)
    PROVE  Left(t)
<1>1. MaxSpec \in Nat
  BY QueueAssumption
<1>2. CASE ForceDone(t)
  <2> DEFINE row == [tasks[t] EXCEPT !.status = "done", !.holder = None,
                                     !.mode = "manual_reconcile"]
  <2>1. tasks[t] \in TaskState /\ ~tasks[t].gate
    BY <1>2 DEF ForceDone
  <2>2. row \in TaskState
    BY <2>1 DEF TaskState
  <2>3. tasks' = [tasks EXCEPT ![t] = row]
    BY <1>2 DEF ForceDone
  <2> HIDE DEF row
  <2>4. Writes(t) /\ tasks'[t] = row
    BY <2>2, <2>3, RowWritten
  <2> QED BY <2>1, <2>4 DEF row, Left, TaskState
<1>3. CASE Approve(t)
  BY <1>3 DEF Approve, Left, Writes, TaskState
<1>4. CASE ImportManifest(t)
  BY <1>1, <1>4 DEF ImportManifest, Left, Writes, TaskState, Gated
<1> QED BY <1>2, <1>3, <1>4

\* What a worker does to its claim when an attempt ends.
LEMMA EndsLeave ==
    ASSUME tasks \in [Task -> TaskState], NEW w \in Worker, NEW t \in Task,
           NEW counted \in BOOLEAN, NEW red \in BOOLEAN,
           Block(w, t, counted, red) \/ Release(w, t)
    PROVE  tasks' = tasks \/ (Left(t) /\ HoldsLease(w, t))
<1>1. CASE Block(w, t, counted, red)
  BY <1>1, BlockedLeaves DEF Block
<1>2. CASE Release(w, t)
  BY <1>2 DEF Release, HoldsLease, Left, Writes, TaskState
<1> QED BY <1>1, <1>2
-----------------------------------------------------------------------------
(* Claims and attempts.                                                     *)
LEMMA ClaimsAttempt ==
    ASSUME PoolTypes, NEW w \in Worker, Claiming(w)
    PROVE  Attempting(w)
BY DEF PoolTypes, WorkerRow, PC, Claiming, Attempting, Occupying

\* The attempt that holds the claim, whose review was green, moves on.
Earned(w) ==
    /\ tasks[TaskOf[w]].holder = w /\ workers'[w] # workers[w]
    /\ workers[w].built = tasks[TaskOf[w]].spec /\ ~workers[w].red
\* The step of one worker, by what it does to its own task.
ClaimMove(w) ==
    \/ /\ tasks' = tasks
       /\ Claiming(w)' => Claiming(w)
       /\ Attempting(w)' => Attempting(w) /\ workers'[w].built = workers[w].built
    \/ /\ Left(TaskOf[w]) \/ (Finished(TaskOf[w]) /\ Earned(w))
       /\ ~Attempting(w)'
       /\ \/ HoldsLease(w, TaskOf[w])
          \/ TaskOf[w] \in spent'.exhausted
          \/ spent'.crashes # 0
    \/ /\ Left(TaskOf[w]) /\ tasks[TaskOf[w]].status # "in_progress"
       /\ Claiming(w)' => Claiming(w)
    \/ Taken(w, TaskOf[w]) /\ workers'[w].built = tasks[TaskOf[w]].spec

LEMMA ClaimMoveKeeps ==
    ASSUME PoolTypes, PoolTypes', AttemptsOK, ClaimStands, NEW w \in Worker,
           \A v \in Worker \ {w} : workers'[v] = workers[v],
           spent'.crashes = 0 => spent.crashes = 0 /\ workers'[w].alive,
           spent'.operator = spent.operator, spent.exhausted \subseteq spent'.exhausted,
           workers'[w].candidate => workers'[w].pc \in {"closing", "over"},
           workers'[w].candidate \/ workers'[w].pc = "finishing" => ~workers'[w].red,
           ClaimMove(w)
    PROVE  AttemptsOK' /\ ClaimStands'
<1> DEFINE t == TaskOf[w]
<1>0. t \in Task /\ \A v \in Worker : TaskOf[v] \in Task
  BY ConstantsFit
<1>1. \A v \in Worker \ {w} : /\ Claiming(v)' <=> Claiming(v)
                              /\ Attempting(v)' <=> Attempting(v)
  BY DEF Claiming, Attempting, Occupying
<1>2. \A s \in Task \ {t} : tasks'[s] = tasks[s]
  BY DEF ClaimMove, Left, Finished, Taken, Writes
<1>3. \/ tasks' = tasks
      \/ tasks'[t].status # "in_progress"
      \/ Taken(w, t)
  BY DEF ClaimMove, Left, Finished
<1>4. Gated'
  <2>1. Gated
    BY DEF AttemptsOK, Gated
  <2>2. tasks'[t].gate => tasks'[t].status # "done"
    BY <2>1, <1>0 DEF ClaimMove, Left, Finished, Taken, Gated
  <2> QED BY <2>1, <2>2, <1>2 DEF Gated
<1>5. ASSUME NEW v \in Worker PROVE AttemptOK(v)'
  <2>1. AttemptOK(v)
    BY DEF AttemptsOK
  <2>2. CASE v # w
    <3>1. workers'[v] = workers[v]
      BY <2>2
    <3>2. SUFFICES ASSUME Attempting(v)', HoldsLease(v, TaskOf[v])'
                   PROVE  workers[v].built = tasks'[TaskOf[v]].claimed
      BY <2>1, <3>1 DEF AttemptOK
    <3>3. tasks'[TaskOf[v]] = tasks[TaskOf[v]]
      <4>1. CASE TaskOf[v] # t
        BY <4>1, <1>0, <1>2
      <4>2. CASE TaskOf[v] = t
        BY <4>2, <1>3, <2>2, <3>2 DEF HoldsLease, Taken
      <4> QED BY <4>1, <4>2
    <3>4. Attempting(v) /\ HoldsLease(v, TaskOf[v])
      BY <3>2, <3>3, <2>2, <1>1 DEF HoldsLease
    <3> QED BY <2>1, <3>3, <3>4 DEF AttemptOK
  <2>3. CASE v = w
    <3>1. SUFFICES ASSUME Attempting(w)', HoldsLease(w, t)'
                   PROVE  workers'[w].built = tasks'[t].claimed
      BY <2>3 DEF AttemptOK
    <3>2. CASE tasks' = tasks
      <4>1. \/ Attempting(w) /\ HoldsLease(w, t) /\ workers'[w].built = workers[w].built
            \/ Taken(w, t) /\ workers'[w].built = tasks[t].spec
        <5>1. tasks[t].status = "in_progress" /\ ~Left(t) /\ ~Finished(t)
          BY <3>1, <3>2 DEF HoldsLease, Left, Finished
        <5>2. \/ Attempting(w) /\ workers'[w].built = workers[w].built
              \/ Taken(w, t) /\ workers'[w].built = tasks[t].spec
          BY <5>1, <3>1 DEF ClaimMove
        <5>3. HoldsLease(w, t)
          BY <3>1, <3>2 DEF HoldsLease
        <5> QED BY <5>2, <5>3
      <4> QED BY <4>1, <2>1, <2>3, <3>2 DEF AttemptOK, Taken
    <3>3. CASE tasks' # tasks
      <4>1. Taken(w, t) /\ workers'[w].built = tasks[t].spec
        BY <3>1, <3>3 DEF ClaimMove, HoldsLease, Left, Finished
      <4> QED BY <4>1 DEF Taken
    <3> QED BY <3>2, <3>3
  <2> QED BY <2>2, <2>3
<1>6. AttemptsOK'
  <2>1. spent'.crashes = 0 => \A v \in Worker : workers'[v].alive
    BY DEF AttemptsOK
  <2> QED BY <2>1, <1>4, <1>5 DEF AttemptsOK, Gated
<1>7. ClaimStands'
  <2> SUFFICES ASSUME spent'.operator = 0, spent'.crashes = 0, NEW v \in Worker,
                      Claiming(v)', TaskOf[v] \notin spent'.exhausted
               PROVE  HoldsLease(v, TaskOf[v])'
    BY DEF ClaimStands
  <2>1. Claiming(v) => HoldsLease(v, TaskOf[v])
    BY DEF ClaimStands
  <2>2. CASE v # w
    <3>1. HoldsLease(v, TaskOf[v])
      BY <2>1, <2>2, <1>1
    <3>2. CASE TaskOf[v] # t
      BY <3>1, <3>2, <1>0, <1>2 DEF HoldsLease
    <3>3. CASE TaskOf[v] = t
      <4>1. tasks[t].status = "in_progress" /\ tasks[t].holder = v
        BY <3>1, <3>3 DEF HoldsLease
      <4>2. ~HoldsLease(w, t) /\ t \notin spent'.exhausted /\ spent'.crashes = 0
        BY <4>1, <2>2, <3>3 DEF HoldsLease
      <4>3. tasks' = tasks
        BY <4>1, <4>2 DEF ClaimMove, Taken
      <4> QED BY <3>1, <4>3 DEF HoldsLease
    <3> QED BY <3>2, <3>3
  <2>3. CASE v = w
    <3>1. CASE Taken(w, t)
      BY <2>3, <3>1 DEF Taken, HoldsLease
    <3>2. CASE ~Taken(w, t)
      <4>1. Claiming(w)' => Attempting(w)'
        BY ClaimsAttempt, PoolTypes' DEF PoolTypes, WorkerRow, PC, Claiming, Attempting, Occupying
      <4>2. Claiming(w)
        BY <2>3, <3>2, <4>1 DEF ClaimMove
      <4>3. HoldsLease(w, t)
        BY <4>2, <2>1, <2>3
      <4>4. tasks' = tasks
        BY <3>2, <4>1, <4>3, <2>3 DEF ClaimMove, HoldsLease
      <4> QED BY <4>3, <4>4, <2>3 DEF HoldsLease
    <3> QED BY <3>1, <3>2
  <2> QED BY <2>2, <2>3
<1> QED BY <1>6, <1>7

\* What a step may do to a review: DoneMeansReviewed, without its box.
ReviewedStep ==
    \A t \in Task :
        /\ tasks[t].mode # tasks'[t].mode /\ tasks'[t].mode = "autodev_reviewed" =>
            \E w \in Worker : /\ tasks[t].holder = w /\ workers'[w] # workers[w]
                              /\ workers[w].built = tasks[t].spec /\ ~workers[w].red
        /\ tasks[t].gate => \/ tasks'[t].gate /\ tasks'[t].status # "done"
                           \/ tasks'[t].mode = "autodev_reviewed"

LEMMA LeftReviews ==
    ASSUME AttemptsOK, NEW t \in Task, tasks' = tasks \/ Left(t)
    PROVE  ReviewedStep
<1> SUFFICES ASSUME NEW s \in Task
             PROVE  /\ tasks'[s].mode \in {tasks[s].mode, "manual_reconcile"}
                    /\ tasks[s].gate => tasks'[s].gate /\ tasks'[s].status # "done"
  BY DEF ReviewedStep
<1>1. tasks[s].gate => tasks[s].status # "done"
  BY DEF AttemptsOK
<1>2. CASE tasks'[s] = tasks[s]
  BY <1>1, <1>2
<1>3. CASE tasks'[s] # tasks[s]
  <2>1. s = t /\ Left(t)
    BY <1>3 DEF Left, Writes
  <2> QED BY <2>1 DEF Left
<1> QED BY <1>2, <1>3

LEMMA MoveReviews ==
    ASSUME AttemptsOK, NEW w \in Worker, ClaimMove(w)
    PROVE  ReviewedStep
<1>0. TaskOf[w] \in Task
  BY ConstantsFit
<1>1. CASE tasks' = tasks \/ Left(TaskOf[w])
  BY <1>0, <1>1, LeftReviews
<1>2. CASE Finished(TaskOf[w]) /\ Earned(w)
  <2> SUFFICES ASSUME NEW s \in Task, s # TaskOf[w]
               PROVE  tasks'[s] = tasks[s] /\ (tasks[s].gate => tasks[s].status # "done")
    BY <1>2 DEF ReviewedStep, Finished, Earned
  <2> QED BY <1>2 DEF Finished, Writes, AttemptsOK
<1>3. CASE Taken(w, TaskOf[w])
  <2> SUFFICES ASSUME NEW s \in Task
               PROVE  /\ tasks'[s].mode = tasks[s].mode
                      /\ tasks[s].gate => tasks'[s].gate /\ tasks'[s].status # "done"
    BY DEF ReviewedStep
  <2>1. tasks[s].gate => tasks[s].status # "done"
    BY DEF AttemptsOK
  <2> QED BY <1>3, <2>1 DEF Taken, Writes
<1> QED BY <1>1, <1>2, <1>3 DEF ClaimMove

\* A step of the queue alone.
LEMMA QueueMoveKeeps ==
    ASSUME PoolTypes, PoolTypes', AttemptsOK, ClaimStands, NEW t \in Task, UNCHANGED workers,
           spent'.crashes = spent.crashes, spent'.exhausted = spent.exhausted, Left(t),
           spent'.operator # 0 \/ (spent'.operator = spent.operator /\ tasks[t].status # "in_progress")
    PROVE  AttemptsOK' /\ ClaimStands'
<1>1. \A v \in Worker : /\ TaskOf[v] \in Task
                        /\ Claiming(v)' <=> Claiming(v)
                        /\ Attempting(v)' <=> Attempting(v)
  BY ConstantsFit DEF Claiming, Attempting, Occupying
<1>2. \A s \in Task \ {t} : tasks'[s] = tasks[s]
  BY DEF Left, Writes
<1>3. tasks'[t].status # "in_progress" /\ (tasks'[t].gate => tasks'[t].status # "done")
  BY DEF Left
<1>4. \A v \in Worker : AttemptOK(v)'
  <2> SUFFICES ASSUME NEW v \in Worker PROVE AttemptOK(v)'
    OBVIOUS
  <2>1. AttemptOK(v)
    BY DEF AttemptsOK
  <2>2. CASE TaskOf[v] = t
    BY <2>1, <2>2, <1>1, <1>3 DEF AttemptOK, HoldsLease
  <2>3. CASE TaskOf[v] # t
    <3>1. tasks'[TaskOf[v]] = tasks[TaskOf[v]]
      BY <2>3, <1>1, <1>2
    <3> QED BY <2>1, <3>1, <1>1 DEF AttemptOK, HoldsLease
  <2> QED BY <2>2, <2>3
<1>5. AttemptsOK'
  <2>1. \A s \in Task : tasks'[s].gate => tasks'[s].status # "done"
    BY <1>2, <1>3 DEF AttemptsOK
  <2> QED BY <2>1, <1>4 DEF AttemptsOK
<1>6. ClaimStands'
  <2> SUFFICES ASSUME spent'.operator = 0, spent'.crashes = 0, NEW v \in Worker,
                      Claiming(v)', TaskOf[v] \notin spent'.exhausted
               PROVE  HoldsLease(v, TaskOf[v])'
    BY DEF ClaimStands
  <2>1. HoldsLease(v, TaskOf[v])
    BY <1>1 DEF ClaimStands
  <2>2. TaskOf[v] # t
    BY <2>1 DEF HoldsLease
  <2> QED BY <2>1, <2>2, <1>1, <1>2 DEF HoldsLease
<1> QED BY <1>5, <1>6

-----------------------------------------------------------------------------
(* The steps of a worker.                                                   *)
Others(w) == workers' \in [Worker -> WorkerRow] /\ \A v \in Worker \ {w} : workers'[v] = workers[v]

LEMMA Moved ==
    ASSUME workers \in [Worker -> WorkerRow], NEW w \in Worker, NEW row \in WorkerRow,
           workers' = [workers EXCEPT ![w] = row]
    PROVE  Others(w) /\ workers'[w] = row
BY DEF Others

LEMMA Gone ==
    ASSUME workers \in [Worker -> WorkerRow], NEW w \in Worker, NEW pc \in PC, Goto(w, pc)
    PROVE  /\ Others(w)
           /\ workers'[w] \in WorkerRow /\ workers'[w].pc = pc
           /\ workers'[w].alive = workers[w].alive /\ workers'[w].reserved = workers[w].reserved
           /\ workers'[w].built = workers[w].built /\ workers'[w].red = workers[w].red
           /\ workers'[w].candidate = workers[w].candidate
<1> DEFINE row == [workers[w] EXCEPT !.pc = pc]
<1>1. workers[w] \in WorkerRow
  OBVIOUS
<1>2. row \in WorkerRow
  BY <1>1 DEF WorkerRow
<1>3. Others(w) /\ workers'[w] = row
  BY <1>2, Moved DEF Goto
<1> QED BY <1>1, <1>2, <1>3 DEF WorkerRow

LEMMA EndedAt ==
    ASSUME PoolTypes, NEW w \in Worker, Ends(w)
    PROVE  /\ Others(w)
           /\ workers'[w] \in WorkerRow /\ workers'[w].pc = "over"
           /\ workers'[w].alive = workers[w].alive /\ ~workers'[w].red
           /\ workers'[w].candidate = workers[w].candidate
           /\ workers[w].candidate => workers'[w].built = workers[w].built
<1>1. workers[w] \in WorkerRow /\ workers \in [Worker -> WorkerRow]
  BY DEF PoolTypes
<1>2. PICK b \in 0 .. MaxSpec : b = IF workers[w].candidate THEN workers[w].built ELSE 0
  BY <1>1, QueueAssumption DEF WorkerRow
<1> DEFINE row == [workers[w] EXCEPT !.pc = "over", !.reserved = {}, !.red = FALSE, !.built = b]
<1>3. row \in WorkerRow
  BY <1>1, <1>2 DEF WorkerRow, PC
<1>4. workers' = [workers EXCEPT ![w] = row]
  BY <1>2 DEF Ends
<1> HIDE DEF row
<1>5. Others(w) /\ workers'[w] = row
  BY <1>1, <1>3, <1>4, Moved
<1>6. /\ row.pc = "over" /\ row.alive = workers[w].alive /\ row.red = FALSE
      /\ row.candidate = workers[w].candidate /\ row.built = b
  BY <1>1 DEF row, WorkerRow
<1> QED BY <1>2, <1>3, <1>5, <1>6

LEMMA HostStepKeeps ==
    ASSUME PoolTypes, HostInv, NEW w \in Worker, Others(w), RowsOK',
           spent'.lapses = 0 => spent.lapses = 0,
           \A v \in Worker \ {w} : RequestsOf(v)' = RequestsOf(v),
           workers'[w].alive => RequestsOf(w)' = Due(w)',
           \A v \in Worker \ {w} : leases[v].state = "active" => leases'[v] = leases[v],
           spent'.lapses = 0 /\ w \in Occupying' =>
               /\ leases'[w].state = "active" /\ leases'[w].resources = workers'[w].reserved
               /\ workers'[w].pc \in {"granted", "building"} => leases'[w].provider = Builder[w]
               /\ workers'[w].pc = "reviewing" => leases'[w].provider = Evaluator[w]
    PROVE  HostInv'
<1>1. RequestsOK'
  <2> SUFFICES ASSUME NEW v \in Worker, v # w, workers'[v].alive PROVE RequestsOf(v)' = Due(v)'
    BY DEF RequestsOK
  <2>1. workers'[v] = workers[v]
    BY DEF Others
  <2>2. RequestsOf(v) = Due(v)
    BY <2>1 DEF HostInv, RequestsOK
  <2> QED BY <2>1, <2>2 DEF Due
<1>2. LeasesFollow'
  <2> SUFFICES ASSUME spent'.lapses = 0, NEW v \in Occupying', v # w
               PROVE  /\ leases'[v].state = "active" /\ leases'[v].resources = workers'[v].reserved
                      /\ workers'[v].pc \in {"granted", "building"} => leases'[v].provider = Builder[v]
                      /\ workers'[v].pc = "reviewing" => leases'[v].provider = Evaluator[v]
    BY DEF LeasesFollow
  <2>1. v \in Worker /\ workers'[v] = workers[v]
    BY DEF Others, Occupying
  <2>2. v \in Occupying
    BY <2>1 DEF Occupying
  <2>3. leases'[v] = leases[v]
    BY <2>1, <2>2 DEF HostInv, LeasesFollow
  <2> QED BY <2>1, <2>2, <2>3 DEF HostInv, LeasesFollow
<1> QED BY <1>1, <1>2 DEF HostInv

\* What the next state needs beside the host.
Spends == spent' \in SpentRow /\ (spent'.lapses = 0 => spent.lapses = 0)
Settles(w) ==
    /\ spent'.crashes = 0 => spent.crashes = 0 /\ workers'[w].alive
    /\ spent'.operator = spent.operator /\ spent.exhausted \subseteq spent'.exhausted
    /\ workers'[w].candidate => workers'[w].pc \in {"closing", "over"}
    /\ workers'[w].candidate \/ workers'[w].pc = "finishing" => ~workers'[w].red
    /\ ClaimMove(w)

LEMMA SpentStays == ASSUME PoolTypes, UNCHANGED spent PROVE Spends
BY DEF PoolTypes, Spends

LEMMA QueueTyped ==
    ASSUME PoolTypes, NEW w \in Worker, ClaimMove(w)
    PROVE  tasks' \in [Task -> TaskState]
BY DEF PoolTypes, ClaimMove, Left, Finished, Taken, Writes

LEMMA StepKeeps ==
    ASSUME PoolInv, NEW w \in Worker, Others(w), Spends, Settles(w), HostInv',
           leases' \in [Worker -> LeaseRow], lastGrant' \in Project \cup {None},
           waiting' \in Seq(RequestRow),
           \A i, j \in DOMAIN waiting' : waiting'[i].owner = waiting'[j].owner => i = j
    PROVE  PoolInv' /\ ReviewedStep
<1>1. PoolTypes /\ AttemptsOK /\ ClaimStands
  BY DEF PoolInv
<1>2. tasks' \in [Task -> TaskState]
  BY <1>1, QueueTyped DEF Settles
<1>3. PoolTypes'
  BY <1>2 DEF PoolTypes, Others, Spends
<1>4. AttemptsOK' /\ ClaimStands'
  BY <1>1, <1>3, ClaimMoveKeeps DEF Settles, Others
<1>5. ReviewedStep
  BY <1>1, MoveReviews DEF Settles
<1> QED BY <1>3, <1>4, <1>5 DEF PoolInv

\* A step that leaves the host alone.
Lives(w) ==
    /\ workers'[w].alive =>
         /\ workers[w].alive
         /\ workers'[w].pc \notin {"waiting", "provider", "reviewing"}
         /\ workers[w].pc \notin {"waiting", "provider"}
    /\ w \in Occupying' =>
         /\ w \in Occupying /\ workers'[w].reserved = workers[w].reserved
         /\ workers'[w].pc \in {"granted", "building"} => workers[w].pc \in {"granted", "building"}

LEMMA LocalStepKeeps ==
    ASSUME PoolInv, NEW w \in Worker, Others(w), Spends, Settles(w), Lives(w), UNCHANGED host
    PROVE  PoolInv' /\ ReviewedStep
<1>1. PoolTypes /\ HostInv
  BY DEF PoolInv
<1>2. leases' = leases /\ waiting' = waiting /\ lastGrant' = lastGrant
  BY DEF host
<1>3. HostInv'
  BY <1>1, <1>2, MoveKeeps DEF Others, Spends, Lives
<1> QED BY <1>1, <1>2, <1>3, StepKeeps DEF PoolTypes
-----------------------------------------------------------------------------
(* The actions that leave the host alone.                                   *)

\* An attempt is over: its claim, if it still has it, was ended.
LEMMA AttemptEnds ==
    ASSUME PoolInv, NEW w \in Worker, Others(w), UNCHANGED spent,
           workers[w].alive, Attempting(w), ~workers[w].candidate,
           workers'[w].alive = workers[w].alive, workers'[w].pc = "closing",
           ~workers'[w].candidate,
           \/ tasks' = tasks
           \/ /\ HoldsLease(w, TaskOf[w])
              /\ Left(TaskOf[w]) \/ (Finished(TaskOf[w]) /\ Earned(w))
    PROVE  Settles(w) /\ w \in Occupying
<1>1. ~Claiming(w)' /\ ~Attempting(w)'
  BY DEF Claiming, Attempting
<1>2. ClaimMove(w)
  BY <1>1 DEF ClaimMove
<1>3. w \in Occupying
  BY DEF Occupying, Attempting
<1> QED BY <1>2, <1>3 DEF Settles

LEMMA NotYet ==
    ASSUME PoolInv, NEW w \in Worker
    PROVE  /\ workers[w] \in WorkerRow
           /\ workers[w].pc \notin {"closing", "over"} => ~workers[w].candidate
           /\ workers[w].pc = "finishing" \/ workers[w].candidate => ~workers[w].red
BY DEF PoolInv, PoolTypes, AttemptsOK, AttemptOK

LEMMA SelectKeeps ==
    ASSUME PoolInv, NEW w \in Worker, Select(w) PROVE PoolInv' /\ ReviewedStep
<1>1. /\ workers[w] \in WorkerRow /\ workers \in [Worker -> WorkerRow] /\ PoolTypes
      /\ workers[w].pc = "off" /\ workers[w].alive /\ ~workers[w].candidate
  BY NotYet DEF PoolInv, PoolTypes, Select, At
<1>2. PICK pc \in {"exhausted", "asking"} :
         pc = IF tasks[TaskOf[w]].failures >= FailureLimit THEN "exhausted" ELSE "asking"
  OBVIOUS
<1>3. PICK r \in SUBSET Declared : r = ResourcesOf[<<TaskOf[w], tasks[TaskOf[w]].spec>>]
  <2>1. tasks[TaskOf[w]].spec \in 0 .. MaxSpec /\ TaskOf[w] \in Task
    BY <1>1, ConstantsFit DEF PoolTypes, TaskState
  <2> QED BY <2>1, ConstantsFit
<1> DEFINE row == [workers[w] EXCEPT !.pc = pc, !.reserved = r]
<1>4. row \in WorkerRow /\ row.pc = pc /\ row.alive /\ ~row.candidate
  BY <1>1 DEF WorkerRow, PC
<1>5. workers' = [workers EXCEPT ![w] = row] /\ UNCHANGED <<tasks, host, spent>>
  BY <1>2, <1>3 DEF Select
<1> HIDE DEF row
<1>6. Others(w) /\ workers'[w] = row
  BY <1>1, <1>4, <1>5, Moved
<1>7. ~Claiming(w)' /\ ~Attempting(w)' /\ w \notin Occupying'
  BY <1>4, <1>6 DEF Claiming, Attempting, Occupying
<1>8. Settles(w)
  BY <1>1, <1>4, <1>5, <1>6, <1>7 DEF Settles, ClaimMove
<1>9. Lives(w)
  BY <1>1, <1>4, <1>6, <1>7 DEF Lives
<1> QED BY <1>1, <1>5, <1>6, <1>8, <1>9, SpentStays, LocalStepKeeps

LEMMA NotStartedKeeps ==
    ASSUME PoolInv, NEW w \in Worker, NotStarted(w) PROVE PoolInv' /\ ReviewedStep
<1>1. /\ workers[w] \in WorkerRow /\ workers \in [Worker -> WorkerRow] /\ PoolTypes
      /\ workers[w].pc = "asking" /\ workers[w].alive /\ ~workers[w].candidate
  BY NotYet DEF PoolInv, PoolTypes, NotStarted, At
<1>2. PICK b \in BOOLEAN : b = (w \in Supervised)
  <2>1. (w \in Supervised) \in BOOLEAN
    OBVIOUS
  <2> QED BY <2>1, Zenon
<1> DEFINE row == [workers[w] EXCEPT !.pc = "over", !.reserved = {}, !.retry = b]
<1>4. row \in WorkerRow /\ row.pc = "over" /\ row.alive /\ ~row.candidate
  BY <1>1 DEF WorkerRow, PC
<1>5. workers' = [workers EXCEPT ![w] = row] /\ UNCHANGED <<tasks, host, spent>>
  BY <1>2 DEF NotStarted
<1> HIDE DEF row
<1>6. Others(w) /\ workers'[w] = row
  BY <1>1, <1>4, <1>5, Moved
<1>7. ~Claiming(w)' /\ ~Attempting(w)' /\ w \notin Occupying'
  BY <1>4, <1>6 DEF Claiming, Attempting, Occupying
<1>8. Settles(w)
  BY <1>1, <1>4, <1>5, <1>6, <1>7 DEF Settles, ClaimMove
<1>9. Lives(w)
  BY <1>1, <1>4, <1>6, <1>7 DEF Lives
<1> QED BY <1>1, <1>5, <1>6, <1>8, <1>9, SpentStays, LocalStepKeeps

LEMMA BlockExhaustedKeeps ==
    ASSUME PoolInv, NEW w \in Worker, BlockExhausted(w) PROVE PoolInv' /\ ReviewedStep
<1>1. /\ PoolTypes /\ workers[w].pc = "exhausted" /\ workers[w].alive /\ ~workers[w].candidate
      /\ Ends(w) /\ UNCHANGED host
  BY NotYet DEF PoolInv, BlockExhausted, At
<1>2. /\ Others(w) /\ workers'[w].pc = "over" /\ workers'[w].alive /\ ~workers'[w].red
      /\ ~workers'[w].candidate
  BY <1>1, EndedAt
<1>3. TaskOf[w] \in Task /\ tasks \in [Task -> TaskState]
  BY <1>1, ConstantsFit DEF PoolTypes
<1>4. (tasks' = tasks /\ tasks[TaskOf[w]].status # "in_progress") \/ Left(TaskOf[w])
  <2>1. ForceBlock(TaskOf[w])
    BY DEF BlockExhausted
  <2>2. CASE tasks[TaskOf[w]].status \in {"pending", "in_progress", "blocked"}
    BY <2>1, <2>2, <1>3, BlockedLeaves DEF ForceBlock
  <2>3. CASE tasks[TaskOf[w]].status \notin {"pending", "in_progress", "blocked"}
    BY <2>1, <2>3 DEF ForceBlock
  <2> QED BY <2>2, <2>3
<1>5. /\ spent' \in SpentRow
      /\ spent'.lapses = spent.lapses /\ spent'.crashes = spent.crashes
      /\ spent'.operator = spent.operator /\ spent.exhausted \subseteq spent'.exhausted
      /\ tasks[TaskOf[w]].status = "in_progress" => TaskOf[w] \in spent'.exhausted
  <2>1. spent \in SpentRow
    BY <1>1 DEF PoolTypes
  <2>2. spent' = IF tasks[TaskOf[w]].status # "in_progress" THEN spent
                 ELSE [spent EXCEPT !.exhausted = @ \cup {TaskOf[w]}]
    BY DEF BlockExhausted
  <2>3. CASE tasks[TaskOf[w]].status # "in_progress"
    BY <2>1, <2>2, <2>3
  <2>4. CASE tasks[TaskOf[w]].status = "in_progress"
    BY <2>1, <2>2, <2>4, <1>3 DEF SpentRow
  <2> QED BY <2>3, <2>4
<1>6. ~Claiming(w)' /\ ~Attempting(w)' /\ w \notin Occupying'
  BY <1>2 DEF Claiming, Attempting, Occupying
<1>7. ClaimMove(w)
  BY <1>4, <1>5, <1>6 DEF ClaimMove
<1>8. Settles(w) /\ Spends
  BY <1>1, <1>2, <1>5, <1>7 DEF Settles, Spends
<1>9. Lives(w)
  BY <1>1, <1>2, <1>6 DEF Lives
<1> QED BY <1>1, <1>2, <1>8, <1>9, LocalStepKeeps

LEMMA ClaimTaskKeeps ==
    ASSUME PoolInv, NEW w \in Worker, ClaimTask(w) PROVE PoolInv' /\ ReviewedStep
<1>1. /\ workers[w] \in WorkerRow /\ workers \in [Worker -> WorkerRow] /\ PoolTypes
      /\ workers[w].pc = "granted" /\ workers[w].alive /\ ~workers[w].candidate
      /\ UNCHANGED <<host, spent>>
  BY NotYet DEF PoolInv, PoolTypes, ClaimTask, At
<1>2. TaskOf[w] \in Task /\ tasks \in [Task -> TaskState]
  BY <1>1, ConstantsFit DEF PoolTypes
<1>3. w \in Occupying
  BY <1>1 DEF Occupying
<1>4. CASE Claimable(TaskOf[w])
  <2>1. Taken(w, TaskOf[w])
    BY <1>2, <1>4, ClaimTakes DEF ClaimTask
  <2>2. PICK b \in 0 .. MaxSpec : b = tasks[TaskOf[w]].spec
    BY <1>2 DEF TaskState
  <2> DEFINE row == [workers[w] EXCEPT !.pc = "building", !.built = b]
  <2>3. /\ row \in WorkerRow /\ row.pc = "building" /\ row.alive /\ ~row.candidate
        /\ row.built = b /\ row.reserved = workers[w].reserved
    BY <1>1 DEF WorkerRow, PC
  <2>4. workers' = [workers EXCEPT ![w] = row]
    BY <1>4, <2>2 DEF ClaimTask
  <2> HIDE DEF row
  <2>5. Others(w) /\ workers'[w] = row
    BY <1>1, <2>3, <2>4, Moved
  <2>6. Settles(w)
    BY <1>1, <2>1, <2>2, <2>3, <2>5 DEF Settles, ClaimMove
  <2>7. Lives(w)
    BY <1>1, <1>3, <2>3, <2>5 DEF Lives
  <2> QED BY <1>1, <2>5, <2>6, <2>7, SpentStays, LocalStepKeeps
<1>5. CASE ~Claimable(TaskOf[w])
  <2>1. Goto(w, "closing") /\ tasks' = tasks
    BY <1>5 DEF ClaimTask
  <2>2. /\ Others(w) /\ workers'[w].pc = "closing" /\ workers'[w].alive
        /\ workers'[w].reserved = workers[w].reserved /\ ~workers'[w].candidate
    BY <1>1, <2>1, Gone DEF PC
  <2>3. ~Claiming(w)' /\ ~Attempting(w)'
    BY <2>2 DEF Claiming, Attempting
  <2>4. Settles(w)
    BY <1>1, <2>1, <2>2, <2>3 DEF Settles, ClaimMove
  <2>5. Lives(w)
    BY <1>1, <1>3, <2>2 DEF Lives
  <2> QED BY <1>1, <2>2, <2>4, <2>5, SpentStays, LocalStepKeeps
<1> QED BY <1>4, <1>5

\* It ends with the host's rows as they are.
LEMMA AttemptEndsHere ==
    ASSUME PoolInv, NEW w \in Worker, Others(w), UNCHANGED <<host, spent>>,
           workers[w].alive, Attempting(w), workers[w].pc \notin {"closing", "over", "provider"},
           workers'[w].alive = workers[w].alive, workers'[w].pc = "closing",
           workers'[w].reserved = workers[w].reserved,
           workers'[w].candidate = workers[w].candidate,
           \/ tasks' = tasks
           \/ /\ HoldsLease(w, TaskOf[w])
              /\ Left(TaskOf[w]) \/ (Finished(TaskOf[w]) /\ Earned(w))
    PROVE  PoolInv' /\ ReviewedStep
<1>1. ~workers[w].candidate /\ PoolTypes
  BY NotYet DEF PoolInv
<1>2. Settles(w) /\ w \in Occupying
  BY <1>1, AttemptEnds
<1>3. workers[w].pc # "waiting"
  BY <1>1 DEF Attempting
<1>4. Lives(w)
  BY <1>2, <1>3 DEF Lives
<1> QED BY <1>1, <1>2, <1>4, SpentStays, LocalStepKeeps

\* The step to closing that notes whether the supervisor may try again.
LEMMA ClosedWith ==
    ASSUME PoolTypes, NEW w \in Worker, NEW again \in BOOLEAN,
           workers' = [workers EXCEPT ![w].pc = "closing", ![w].retry = again]
    PROVE  /\ Others(w) /\ workers'[w].pc = "closing"
           /\ workers'[w].alive = workers[w].alive /\ workers'[w].reserved = workers[w].reserved
           /\ workers'[w].candidate = workers[w].candidate
<1>1. workers[w] \in WorkerRow /\ workers \in [Worker -> WorkerRow]
  BY DEF PoolTypes
<1> DEFINE row == [workers[w] EXCEPT !.pc = "closing", !.retry = again]
<1>2. /\ row \in WorkerRow /\ row.pc = "closing" /\ row.alive = workers[w].alive
      /\ row.reserved = workers[w].reserved /\ row.candidate = workers[w].candidate
  BY <1>1 DEF WorkerRow, PC
<1>3. workers' = [workers EXCEPT ![w] = row]
  OBVIOUS
<1> HIDE DEF row
<1> QED BY <1>1, <1>2, <1>3, Moved

LEMMA FailsHere ==
    ASSUME PoolInv, NEW w \in Worker, NEW counted \in BOOLEAN, NEW red \in BOOLEAN,
           Fails(w, counted, red), UNCHANGED <<host, spent>>,
           workers[w].alive, Attempting(w), workers[w].pc \notin {"closing", "over", "provider"}
    PROVE  PoolInv' /\ ReviewedStep
<1>1. PoolTypes /\ tasks \in [Task -> TaskState] /\ TaskOf[w] \in Task
  BY ConstantsFit DEF PoolInv, PoolTypes
<1>2. tasks' = tasks \/ (Left(TaskOf[w]) /\ HoldsLease(w, TaskOf[w]))
  BY <1>1, EndsLeave DEF Fails
<1>3. /\ Others(w) /\ workers'[w].pc = "closing"
      /\ workers'[w].alive = workers[w].alive /\ workers'[w].reserved = workers[w].reserved
      /\ workers'[w].candidate = workers[w].candidate
  BY <1>1, Gone DEF Fails, PC, PoolTypes
<1> QED BY <1>2, <1>3, AttemptEndsHere

LEMMA FailsForNowHere ==
    ASSUME PoolInv, NEW w \in Worker, NEW red \in BOOLEAN,
           FailsForNow(w, red), UNCHANGED <<host, spent>>,
           workers[w].alive, Attempting(w), workers[w].pc \notin {"closing", "over", "provider"}
    PROVE  PoolInv' /\ ReviewedStep
<1>1. PoolTypes /\ tasks \in [Task -> TaskState] /\ TaskOf[w] \in Task
  BY ConstantsFit DEF PoolInv, PoolTypes
<1>2. tasks' = tasks \/ (Left(TaskOf[w]) /\ HoldsLease(w, TaskOf[w]))
  BY <1>1, EndsLeave DEF FailsForNow
<1>3. (w \in Supervised) \in BOOLEAN
  OBVIOUS
<1>4. /\ Others(w) /\ workers'[w].pc = "closing"
      /\ workers'[w].alive = workers[w].alive /\ workers'[w].reserved = workers[w].reserved
      /\ workers'[w].candidate = workers[w].candidate
  BY <1>1, <1>3, ClosedWith DEF FailsForNow
<1> QED BY <1>2, <1>4, AttemptEndsHere

LEMMA ReleaseClaimKeeps ==
    ASSUME PoolInv, NEW w \in Worker, ReleaseClaim(w) PROVE PoolInv' /\ ReviewedStep
<1>1. /\ PoolTypes /\ tasks \in [Task -> TaskState] /\ TaskOf[w] \in Task
      /\ UNCHANGED <<host, spent>> /\ workers[w].pc \in {"building", "verifying"}
      /\ workers[w].alive /\ Attempting(w)
  BY ConstantsFit DEF PoolInv, PoolTypes, ReleaseClaim, At, Attempting
<1>2. tasks' = tasks \/ (Left(TaskOf[w]) /\ HoldsLease(w, TaskOf[w]))
  BY <1>1, EndsLeave DEF ReleaseClaim
<1>3. (At(w, "verifying") /\ w \in Supervised) \in BOOLEAN
  OBVIOUS
<1>4. /\ Others(w) /\ workers'[w].pc = "closing"
      /\ workers'[w].alive = workers[w].alive /\ workers'[w].reserved = workers[w].reserved
      /\ workers'[w].candidate = workers[w].candidate
  BY <1>1, <1>3, ClosedWith DEF ReleaseClaim
<1> QED BY <1>1, <1>2, <1>4, AttemptEndsHere

\* A worker goes on with its attempt, on the rows it holds.
LEMMA GoesOn ==
    ASSUME PoolInv, NEW w \in Worker, UNCHANGED <<tasks, host, spent>>, Others(w),
           workers[w].alive, Attempting(w), workers[w].pc \notin {"closing", "over", "provider"},
           workers'[w].alive = workers[w].alive, workers'[w].built = workers[w].built,
           workers'[w].reserved = workers[w].reserved,
           workers'[w].pc \notin {"waiting", "provider", "reviewing", "granted", "building"},
           workers'[w].candidate => workers'[w].pc = "closing",
           workers'[w].candidate \/ workers'[w].pc = "finishing" => ~workers'[w].red
    PROVE  PoolInv' /\ ReviewedStep
<1>1. ~workers[w].candidate /\ PoolTypes
  BY NotYet DEF PoolInv
<1>2. w \in Occupying /\ Claiming(w) /\ workers[w].pc # "waiting"
  BY <1>1 DEF Attempting, Occupying, Claiming
<1>3. Settles(w)
  BY <1>2 DEF Settles, ClaimMove
<1>4. Lives(w)
  BY <1>2 DEF Lives
<1> QED BY <1>1, <1>3, <1>4, SpentStays, LocalStepKeeps

LEMMA VerifiedKeeps ==
    ASSUME PoolInv, NEW w \in Worker, Verified(w) PROVE PoolInv' /\ ReviewedStep
<1>1. /\ PoolTypes /\ UNCHANGED <<host, spent>>
      /\ workers[w].pc = "verifying" /\ workers[w].alive /\ Attempting(w)
      /\ ~workers[w].candidate
  BY NotYet DEF PoolInv, Verified, At, Attempting
<1>2. CASE Goto(w, "requesting") /\ UNCHANGED tasks
  <2>1. /\ Others(w) /\ workers'[w].pc = "requesting" /\ workers'[w].alive
        /\ workers'[w].reserved = workers[w].reserved /\ ~workers'[w].candidate
        /\ workers'[w].built = workers[w].built
    BY <1>1, <1>2, Gone DEF PC, PoolTypes
  <2> QED BY <1>1, <1>2, <2>1, GoesOn
<1>3. CASE FailsForNow(w, FALSE)
  BY <1>1, <1>3, FailsForNowHere
<1>4. CASE \E red \in BOOLEAN : Fails(w, TRUE, red)
  BY <1>1, <1>4, FailsHere
<1> QED BY <1>2, <1>3, <1>4 DEF Verified

LEMMA SettleKeeps ==
    ASSUME PoolInv, NEW w \in Worker, Settle(w) PROVE PoolInv' /\ ReviewedStep
<1>1. /\ PoolTypes /\ UNCHANGED <<host, spent>>
      /\ workers[w].pc = "reviewed" /\ workers[w].alive /\ Attempting(w)
      /\ workers[w] \in WorkerRow /\ workers \in [Worker -> WorkerRow]
  BY NotYet DEF PoolInv, PoolTypes, Settle, At, Attempting
<1>2. CASE FailsForNow(w, TRUE)
  BY <1>1, <1>2, FailsForNowHere
<1>3. CASE Fails(w, TRUE, FALSE) \/ Fails(w, TRUE, TRUE)
  BY <1>1, <1>3, FailsHere
<1>4. CASE /\ ~workers[w].red /\ UNCHANGED tasks
           /\ workers' = [workers EXCEPT ![w].pc = IF w \in Supervised THEN "closing"
                                                                     ELSE "finishing",
                                         ![w].candidate = w \in Supervised]
  <2>1. PICK b \in BOOLEAN : b = (w \in Supervised)
    <3>1. (w \in Supervised) \in BOOLEAN
      OBVIOUS
    <3> QED BY <3>1, Zenon
  <2>2. PICK pc \in {"closing", "finishing"} :
           pc = (IF w \in Supervised THEN "closing" ELSE "finishing")
    OBVIOUS
  <2>3. b => pc = "closing"
    BY <2>1, <2>2
  <2> DEFINE row == [workers[w] EXCEPT !.pc = pc, !.candidate = b]
  <2>4. /\ row \in WorkerRow /\ row.pc = pc /\ row.alive /\ row.candidate = b
        /\ row.reserved = workers[w].reserved /\ row.built = workers[w].built /\ ~row.red
    BY <1>1, <1>4 DEF WorkerRow, PC
  <2>5. workers' = [workers EXCEPT ![w] = row]
    BY <1>4, <2>1, <2>2
  <2> HIDE DEF row
  <2>6. Others(w) /\ workers'[w] = row
    BY <1>1, <2>4, <2>5, Moved
  <2> QED BY <1>1, <1>4, <2>3, <2>4, <2>6, GoesOn
<1> QED BY <1>2, <1>3, <1>4 DEF Settle

LEMMA FinishTaskKeeps ==
    ASSUME PoolInv, NEW w \in Worker, FinishTask(w) PROVE PoolInv' /\ ReviewedStep
<1>1. /\ PoolTypes /\ UNCHANGED <<host, spent>>
      /\ workers[w].pc = "finishing" /\ workers[w].alive /\ Attempting(w) /\ ~workers[w].red
  BY NotYet DEF PoolInv, FinishTask, At, Attempting
<1>2. CASE CanFinish(w, TaskOf[w])
  <2>1. Finish(TaskOf[w]) /\ Goto(w, "closing")
    BY <1>2 DEF FinishTask
  <2>2. TaskOf[w] \in Task /\ tasks \in [Task -> TaskState]
    BY <1>1, ConstantsFit DEF PoolTypes
  <2>3. Finished(TaskOf[w])
    BY <2>1, <2>2, FinishFinishes
  <2>4. /\ Others(w) /\ workers'[w].pc = "closing"
        /\ workers'[w].alive = workers[w].alive /\ workers'[w].reserved = workers[w].reserved
        /\ workers'[w].candidate = workers[w].candidate
    BY <1>1, <2>1, Gone DEF PC, PoolTypes
  <2>5. HoldsLease(w, TaskOf[w]) /\ tasks[TaskOf[w]].claimed = tasks[TaskOf[w]].spec
    BY <1>2 DEF CanFinish
  <2>6. Earned(w)
    BY <1>1, <2>4, <2>5 DEF Earned, PoolInv, AttemptsOK, AttemptOK, HoldsLease
  <2> QED BY <1>1, <2>3, <2>4, <2>5, <2>6, AttemptEndsHere
<1>3. CASE ~CanFinish(w, TaskOf[w])
  BY <1>1, <1>3, FailsHere DEF FinishTask
<1> QED BY <1>2, <1>3
-----------------------------------------------------------------------------
(* Faults, the supervisor, the landing lane and the human.                  *)

LEMMA FaultSpends ==
    ASSUME spent \in SpentRow, NEW kind \in {"crashes", "lapses", "operator"}, Fault(kind)
    PROVE  /\ spent' \in SpentRow /\ spent'.exhausted = spent.exhausted
           /\ (spent'.lapses = 0 => spent.lapses = 0)
           /\ kind # "lapses" => spent'.lapses = spent.lapses
           /\ (spent'.crashes = 0 => spent.crashes = 0)
           /\ kind # "crashes" => spent'.crashes = spent.crashes
           /\ kind # "operator" => spent'.operator = spent.operator
           /\ kind = "crashes" => spent'.crashes # 0
           /\ kind = "lapses" => spent'.lapses # 0
           /\ kind = "operator" => spent'.operator # 0
<1>1. CASE kind = "crashes"
  BY <1>1 DEF Fault, SpentRow
<1>2. CASE kind = "lapses"
  BY <1>2 DEF Fault, SpentRow
<1>3. CASE kind = "operator"
  BY <1>3 DEF Fault, SpentRow
<1> QED BY <1>1, <1>2, <1>3

LEMMA CrashKeeps ==
    ASSUME PoolInv, NEW w \in Worker, Crash(w) PROVE PoolInv' /\ ReviewedStep
<1>1. /\ PoolTypes /\ workers[w] \in WorkerRow /\ workers \in [Worker -> WorkerRow]
      /\ UNCHANGED <<tasks, host>> /\ spent \in SpentRow
      /\ workers[w].candidate => workers[w].pc \in {"closing", "over"}
  BY NotYet DEF PoolInv, PoolTypes, Crash
<1>2. /\ spent' \in SpentRow /\ spent'.lapses = spent.lapses /\ spent'.crashes # 0
      /\ spent'.operator = spent.operator /\ spent'.exhausted = spent.exhausted
  BY <1>1, FaultSpends DEF Crash
<1> DEFINE row == [workers[w] EXCEPT !.alive = FALSE, !.reserved = {}, !.red = FALSE,
                                     !.retry = FALSE]
<1>3. /\ row \in WorkerRow /\ row.pc = workers[w].pc /\ ~row.alive /\ ~row.red
      /\ row.candidate = workers[w].candidate /\ row.built = workers[w].built
  BY <1>1 DEF WorkerRow
<1>4. workers' = [workers EXCEPT ![w] = row]
  BY DEF Crash
<1> HIDE DEF row
<1>5. Others(w) /\ workers'[w] = row
  BY <1>1, <1>3, <1>4, Moved
<1>6. w \notin Occupying' /\ (Claiming(w)' => Claiming(w)) /\ (Attempting(w)' => Attempting(w))
  BY <1>3, <1>5 DEF Occupying, Claiming, Attempting
<1>7. Settles(w) /\ Spends /\ Lives(w)
  BY <1>1, <1>2, <1>3, <1>5, <1>6 DEF Settles, ClaimMove, Spends, Lives
<1> QED BY <1>1, <1>5, <1>7, LocalStepKeeps

LEMMA SettleDeadKeeps ==
    ASSUME PoolInv, NEW w \in Worker, SettleDead(w) PROVE PoolInv' /\ ReviewedStep
<1>1. /\ PoolTypes /\ Ends(w) /\ UNCHANGED <<host, spent>> /\ ~workers[w].alive
      /\ tasks \in [Task -> TaskState] /\ TaskOf[w] \in Task
  BY ConstantsFit DEF PoolInv, PoolTypes, SettleDead
<1>2. spent.crashes # 0
  BY <1>1 DEF PoolInv, AttemptsOK
<1>3. /\ Others(w) /\ workers'[w].pc = "over" /\ ~workers'[w].alive /\ ~workers'[w].red
      /\ workers'[w].candidate = workers[w].candidate
      /\ workers[w].candidate => workers'[w].built = workers[w].built
  BY <1>1, EndedAt
<1>4. w \notin Occupying'
  BY <1>3 DEF Occupying
<1>5. CASE ~workers[w].candidate /\ tasks[TaskOf[w]].status = "in_progress"
  <2>1. Left(TaskOf[w])
    BY <1>1, <1>5, BlockedLeaves DEF SettleDead
  <2>2. ~Attempting(w)'
    BY <1>3, <1>5 DEF Attempting
  <2>3. Settles(w)
    BY <1>1, <1>2, <1>3, <2>1, <2>2 DEF Settles, ClaimMove
  <2> QED BY <1>1, <1>3, <1>4, <2>3, SpentStays, LocalStepKeeps DEF Lives
<1>6. CASE ~(~workers[w].candidate /\ tasks[TaskOf[w]].status = "in_progress")
  <2>1. tasks' = tasks
    BY <1>6 DEF SettleDead
  <2>2. (Claiming(w)' => Claiming(w)) /\ (Attempting(w)' => workers[w].candidate)
    BY <1>3, <1>4 DEF Claiming, Attempting
  <2>3. Settles(w)
    BY <1>1, <1>2, <1>3, <2>1, <2>2 DEF Settles, ClaimMove, Attempting
  <2> QED BY <1>1, <1>3, <1>4, <2>3, SpentStays, LocalStepKeeps DEF Lives
<1> QED BY <1>5, <1>6

LEMMA LandKeeps ==
    ASSUME PoolInv, NEW w \in Worker, Land(w) PROVE PoolInv' /\ ReviewedStep
<1>1. /\ PoolTypes /\ UNCHANGED <<host, spent>> /\ tasks \in [Task -> TaskState]
      /\ TaskOf[w] \in Task /\ workers[w] \in WorkerRow /\ workers \in [Worker -> WorkerRow]
      /\ workers[w].pc = "over" /\ workers[w].candidate /\ ~workers[w].red /\ Attempting(w)
  BY NotYet, ConstantsFit DEF PoolInv, PoolTypes, Land, Attempting
<1> DEFINE row == [workers[w] EXCEPT !.candidate = FALSE, !.built = 0]
<1>2. /\ row \in WorkerRow /\ row.pc = "over" /\ row.alive = workers[w].alive
      /\ row.reserved = workers[w].reserved /\ ~row.candidate
  <2>1. 0 \in 0 .. MaxSpec /\ workers[w] \in WorkerRow
    BY <1>1, QueueAssumption
  <2>2. row \in WorkerRow
    BY <2>1 DEF WorkerRow
  <2>3. /\ row.pc = workers[w].pc /\ row.alive = workers[w].alive
        /\ row.reserved = workers[w].reserved /\ row.candidate = FALSE
    BY <2>1 DEF WorkerRow
  <2> QED BY <2>2, <2>3, <1>1
<1>3. workers' = [workers EXCEPT ![w] = row]
  BY DEF Land
<1> HIDE DEF row
<1>4. Others(w) /\ workers'[w] = row
  BY <1>1, <1>2, <1>3, Moved
<1>5. ~Claiming(w)' /\ ~Attempting(w)' /\ w \notin Occupying'
  BY <1>2, <1>4 DEF Claiming, Attempting, Occupying
<1>6. \/ tasks' = tasks
      \/ /\ HoldsLease(w, TaskOf[w])
         /\ Left(TaskOf[w]) \/ (Finished(TaskOf[w]) /\ Earned(w))
  <2>1. CASE CanFinish(w, TaskOf[w]) /\ Finish(TaskOf[w])
    <3>1. HoldsLease(w, TaskOf[w]) /\ tasks[TaskOf[w]].claimed = tasks[TaskOf[w]].spec
      BY <2>1 DEF CanFinish
    <3>2. Finished(TaskOf[w])
      BY <1>1, <2>1, FinishFinishes
    <3>3. Earned(w)
      BY <1>1, <1>2, <1>4, <3>1 DEF Earned, PoolInv, AttemptsOK, AttemptOK, HoldsLease
    <3> QED BY <3>1, <3>2, <3>3
  <2>2. CASE (\E red \in BOOLEAN : Block(w, TaskOf[w], TRUE, red)) \/ Release(w, TaskOf[w])
    BY <1>1, <2>2, EndsLeave
  <2> QED BY <2>1, <2>2 DEF Land
<1>7. Settles(w)
  <2>1. ClaimMove(w)
    BY <1>5, <1>6 DEF ClaimMove
  <2> QED BY <1>1, <1>2, <1>4, <2>1 DEF Settles, PoolInv, AttemptsOK
<1>8. Lives(w)
  BY <1>1, <1>2, <1>4, <1>5 DEF Lives
<1> QED BY <1>1, <1>4, <1>7, <1>8, SpentStays, LocalStepKeeps

LEMMA RetryKeeps ==
    ASSUME PoolInv, NEW w \in Worker, Retry(w) PROVE PoolInv' /\ ReviewedStep
<1>1. /\ PoolTypes /\ UNCHANGED <<host, spent>> /\ tasks \in [Task -> TaskState]
      /\ TaskOf[w] \in Task /\ workers[w] \in WorkerRow /\ workers \in [Worker -> WorkerRow]
      /\ workers[w].pc = "over" /\ workers[w].alive
      /\ workers[w].candidate => ~workers[w].red
  BY NotYet, ConstantsFit DEF PoolInv, PoolTypes, Retry, At
<1> DEFINE row == [workers[w] EXCEPT !.retry = FALSE]
<1>2. /\ row \in WorkerRow /\ row.pc = "over" /\ row.alive
      /\ row.reserved = workers[w].reserved /\ row.candidate = workers[w].candidate
      /\ row.red = workers[w].red
  BY <1>1 DEF WorkerRow
<1>3. workers' = [workers EXCEPT ![w] = row]
  BY DEF Retry
<1> HIDE DEF row
<1>4. Others(w) /\ workers'[w] = row
  BY <1>1, <1>2, <1>3, Moved
<1>5. (Claiming(w)' => Claiming(w)) /\ w \notin Occupying'
  BY <1>2, <1>4 DEF Claiming, Occupying
<1>6. Left(TaskOf[w]) /\ tasks[TaskOf[w]].status # "in_progress"
  BY <1>1, ResumeLeaves DEF Retry
<1>7. Settles(w)
  BY <1>1, <1>2, <1>4, <1>5, <1>6 DEF Settles, ClaimMove
<1>8. Lives(w)
  BY <1>1, <1>2, <1>4, <1>5 DEF Lives
<1> QED BY <1>1, <1>4, <1>7, <1>8, SpentStays, LocalStepKeeps

\* A step of the queue alone, of a human.
LEMMA QueueStepKeeps ==
    ASSUME PoolInv, NEW t \in Task, UNCHANGED <<workers, host>>, Left(t), spent' \in SpentRow,
           spent'.lapses = spent.lapses, spent'.crashes = spent.crashes,
           spent'.exhausted = spent.exhausted,
           spent'.operator # 0 \/ (spent'.operator = spent.operator /\ tasks[t].status # "in_progress")
    PROVE  PoolInv' /\ ReviewedStep
<1>1. PoolTypes /\ HostInv /\ AttemptsOK /\ ClaimStands
  BY DEF PoolInv
<1>2. leases' = leases /\ waiting' = waiting /\ lastGrant' = lastGrant /\ workers' = workers
  BY DEF host
<1>3. PoolTypes'
  BY <1>1, <1>2 DEF PoolTypes, Left, Writes
<1>4. HostInv'
  <2>1. RowsOK'
    BY <1>1, <1>2 DEF HostInv, RowsOK, Active, Holding
  <2>2. RequestsOK'
    BY <1>1, <1>2 DEF HostInv, RequestsOK, RequestsOf, Due
  <2>3. LeasesFollow'
    BY <1>1, <1>2 DEF HostInv, LeasesFollow, Occupying
  <2> QED BY <2>1, <2>2, <2>3 DEF HostInv
<1>5. AttemptsOK' /\ ClaimStands'
  BY <1>1, <1>2, <1>3, QueueMoveKeeps
<1>6. ReviewedStep
  BY <1>1, LeftReviews
<1> QED BY <1>3, <1>4, <1>5, <1>6 DEF PoolInv

LEMMA OperatorKeeps ==
    ASSUME PoolInv, NEW t \in Task, Operator(t) PROVE PoolInv' /\ ReviewedStep
<1>1. /\ PoolTypes /\ UNCHANGED <<workers, host>> /\ tasks \in [Task -> TaskState]
      /\ spent \in SpentRow /\ Gated
  BY DEF PoolInv, PoolTypes, Operator, AttemptsOK, Gated
<1>2. /\ spent' \in SpentRow /\ spent'.lapses = spent.lapses /\ spent'.crashes = spent.crashes
      /\ spent'.exhausted = spent.exhausted /\ spent'.operator # 0
  BY <1>1, FaultSpends DEF Operator
<1>3. Left(t)
  <2>1. CASE ForceDone(t) \/ ImportManifest(t)
    BY <1>1, <2>1, HumanLeaves
  <2>2. CASE tasks[t].status \in {"pending", "in_progress", "blocked"} /\ ForceBlock(t)
    BY <1>1, <2>2, BlockedLeaves DEF ForceBlock
  <2>3. CASE \E reset \in BOOLEAN : Resume(t, reset)
    BY <1>1, <2>3, ResumeLeaves
  <2> QED BY <2>1, <2>2, <2>3 DEF Operator
<1> QED BY <1>1, <1>2, <1>3, QueueStepKeeps

LEMMA ApproveTaskKeeps ==
    ASSUME PoolInv, NEW t \in Task, ApproveTask(t) PROVE PoolInv' /\ ReviewedStep
<1>1. /\ PoolTypes /\ UNCHANGED <<workers, host, spent>> /\ tasks \in [Task -> TaskState]
      /\ spent \in SpentRow /\ Gated
  BY DEF PoolInv, PoolTypes, ApproveTask, AttemptsOK, Gated
<1>2. Left(t) /\ tasks[t].status # "in_progress"
  BY <1>1, HumanLeaves DEF ApproveTask, Approve
<1> QED BY <1>1, <1>2, QueueStepKeeps
-----------------------------------------------------------------------------
(* The actions on the host row.                                             *)
LEMMA ExpiredRows ==
    ASSUME PoolTypes, NEW v \in Worker
    PROVE  /\ Expired \in [Worker -> LeaseRow]
           /\ Expired[v].state = "active" <=> leases[v].state = "active"
           /\ leases[v].state = "active" => Expired[v] = leases[v]
<1>1. ASSUME NEW u \in Worker PROVE [leases[u] EXCEPT !.state = "expired"] \in LeaseRow
  <2>1. leases[u] \in LeaseRow
    BY DEF PoolTypes
  <2> QED BY <2>1 DEF LeaseRow, LeaseState
<1>2. Expired \in [Worker -> LeaseRow]
  <2>1. ASSUME NEW u \in Worker
        PROVE  (IF leases[u].state = "overdue" THEN [leases[u] EXCEPT !.state = "expired"]
                ELSE leases[u]) \in LeaseRow
    BY <1>1 DEF PoolTypes
  <2> QED BY <2>1 DEF Expired
<1>3. Expired[v] = IF leases[v].state = "overdue" THEN [leases[v] EXCEPT !.state = "expired"]
                   ELSE leases[v]
  BY DEF Expired
<1>4. leases[v].state = "overdue" => Expired[v].state = "expired"
  BY <1>3 DEF PoolTypes, LeaseRow
<1> QED BY <1>2, <1>3, <1>4

\* The rows after a step that writes one row.
LEMMA RowSet ==
    ASSUME NEW w \in Worker, leases \in [Worker -> LeaseRow], leases' \in [Worker -> LeaseRow],
           \A v \in Worker \ {w} : /\ leases'[v].state = "active" <=> leases[v].state = "active"
                                   /\ leases[v].state = "active" => leases'[v] = leases[v]
    PROVE  /\ Active' \ {w} = Active \ {w}
           /\ w \in Active' <=> leases'[w].state = "active"
           /\ \A v \in Active \ {w} : leases'[v] = leases[v]
BY DEF Active

LEMMA AskCapacityKeeps ==
    ASSUME PoolInv, NEW w \in Worker, AskCapacity(w) PROVE PoolInv' /\ ReviewedStep
<1>1. /\ PoolTypes /\ HostInv /\ workers[w].pc = "asking" /\ workers[w].alive
      /\ workers[w] \in WorkerRow /\ ~workers[w].candidate
      /\ UNCHANGED <<tasks, leases, lastGrant, spent>> /\ leases \in [Worker -> LeaseRow]
      /\ lastGrant \in Project \cup {None}
  BY NotYet DEF PoolInv, PoolTypes, AskCapacity, At
<1>2. /\ Others(w) /\ workers'[w].pc = "waiting" /\ workers'[w].alive
      /\ workers'[w].reserved = workers[w].reserved /\ ~workers'[w].candidate
  BY <1>1, Gone DEF AskCapacity, PC, PoolTypes
<1>3. RequestsOf(w) = {}
  BY <1>1 DEF HostInv, RequestsOK, Due
<1> DEFINE q == Request(w, "worker", Builder[w], workers[w].reserved)
<1>4. q \in RequestRow /\ q.owner = w
  BY <1>1, ConstantsFit DEF Request, RequestRow, WorkerRow
<1>5. waiting' = Append(waiting, q)
  BY DEF AskCapacity
<1>6. Due(w)' = {q}
  BY <1>2 DEF Due, Request
<1> HIDE DEF q
<1>7. /\ waiting' \in Seq(RequestRow)
      /\ \A i, j \in DOMAIN waiting' : waiting'[i].owner = waiting'[j].owner => i = j
      /\ RequestsOf(w)' = {q}
      /\ \A v \in Worker \ {w} : RequestsOf(v)' = RequestsOf(v)
  BY <1>1, <1>3, <1>4, <1>5, AskAdds
<1>8. ~Claiming(w)' /\ ~Attempting(w)' /\ w \notin Occupying'
  BY <1>2 DEF Claiming, Attempting, Occupying
<1>9. RowsOK'
  BY <1>1 DEF HostInv, RowsOK, Active, Holding
<1>10. Spends
  BY <1>1, SpentStays
<1>11. HostInv'
  BY <1>1, <1>2, <1>6, <1>7, <1>8, <1>9, <1>10, HostStepKeeps DEF Spends
<1>12. Settles(w)
  BY <1>1, <1>2, <1>8 DEF Settles, ClaimMove
<1> QED BY <1>1, <1>2, <1>7, <1>10, <1>11, <1>12, StepKeeps

\* What a grant to the worker that asked for it needs and does.
LEMMA Granted ==
    ASSUME PoolTypes, RowsOK, NEW w \in Worker, NEW q \in RequestRow,
           RequestsOf(w) = {q}, q.owner = w, Allocatable(waiting[IndexOf(w)]),
           q.kind = "worker" \/ w \in Active,
           leases' \in [Worker -> LeaseRow], leases'[w].provider = q.provider,
           leases'[w].resources = IF q.kind = "worker" THEN q.resources ELSE leases[w].resources,
           Active' = Active \cup {w}, \A v \in Active \ {w} : leases'[v] = leases[v]
    PROVE  RowsOK'
<1>1. Allocatable(q)
  BY RequestsAre
<1>2. /\ q.kind = "worker" => Cardinality(Active) < MaxActiveWorkers
      /\ Cardinality(Holding(q.provider)) < ProviderLimit[q.provider]
      /\ \A v \in Active : leases[v].resources \cap q.resources = {}
  BY <1>1 DEF Allocatable, Holding
<1>3. q.provider \in Provider
  BY DEF RequestRow
<1>4. \A v \in Active \ {w} : leases[v].resources \cap leases'[w].resources = {}
  BY <1>2 DEF RowsOK
<1> QED BY <1>2, <1>3, <1>4, RowsGrant

LEMMA PollCapacityKeeps ==
    ASSUME PoolInv, NEW w \in Worker, PollCapacity(w) PROVE PoolInv' /\ ReviewedStep
<1>1. /\ PoolTypes /\ HostInv /\ RowsOK /\ workers[w].pc = "waiting" /\ workers[w].alive
      /\ workers[w] \in WorkerRow /\ ~workers[w].candidate
      /\ UNCHANGED <<tasks, spent>> /\ Cancel(w) /\ SelectedWorker(IndexOf(w))
  BY NotYet DEF PoolInv, HostInv, PollCapacity, At
<1>2. /\ Others(w) /\ workers'[w].pc = "granted" /\ workers'[w].alive
      /\ workers'[w].reserved = workers[w].reserved /\ ~workers'[w].candidate
      /\ workers'[w].built = workers[w].built
  BY <1>1, Gone DEF PollCapacity, PC, PoolTypes
<1> DEFINE q == Request(w, "worker", Builder[w], workers[w].reserved)
           row == [state |-> "active", provider |-> Builder[w], resources |-> workers[w].reserved]
<1>3. /\ q \in RequestRow /\ q.owner = w /\ q.kind = "worker" /\ q.provider = Builder[w]
      /\ q.resources = workers[w].reserved
  BY <1>1, ConstantsFit DEF Request, RequestRow, WorkerRow
<1>4. RequestsOf(w) = {q}
  BY <1>1 DEF HostInv, RequestsOK, Due
<1>5. /\ row \in LeaseRow /\ row.state = "active" /\ row.provider = Builder[w]
      /\ row.resources = workers[w].reserved
  BY <1>1, ConstantsFit DEF LeaseRow, LeaseState, WorkerRow
<1>6. leases' = [Expired EXCEPT ![w] = row]
  BY DEF PollCapacity
<1> HIDE DEF q, row
<1>7. /\ Expired \in [Worker -> LeaseRow]
      /\ \A v \in Worker : /\ Expired[v].state = "active" <=> leases[v].state = "active"
                           /\ leases[v].state = "active" => Expired[v] = leases[v]
  BY <1>1, ExpiredRows
<1>8. /\ leases' \in [Worker -> LeaseRow] /\ leases'[w] = row
      /\ Active' \ {w} = Active \ {w} /\ w \in Active'
      /\ \A v \in Worker \ {w} : leases[v].state = "active" => leases'[v] = leases[v]
      /\ \A v \in Active \ {w} : leases'[v] = leases[v]
  <2>1. leases' \in [Worker -> LeaseRow] /\ leases'[w] = row /\ leases \in [Worker -> LeaseRow]
    BY <1>1, <1>5, <1>6, <1>7 DEF PoolTypes
  <2>2. \A v \in Worker \ {w} : leases'[v] = Expired[v]
    BY <1>6, <1>7
  <2>3. \A v \in Worker \ {w} : /\ leases'[v].state = "active" <=> leases[v].state = "active"
                                /\ leases[v].state = "active" => leases'[v] = leases[v]
    BY <1>7, <2>2
  <2>4. /\ Active' \ {w} = Active \ {w}
        /\ w \in Active' <=> leases'[w].state = "active"
        /\ \A v \in Active \ {w} : leases'[v] = leases[v]
    BY <2>1, <2>3, RowSet
  <2> QED BY <2>1, <2>3, <2>4, <1>5
<1>9. Allocatable(waiting[IndexOf(w)])
  BY <1>1 DEF SelectedWorker, Heads
<1>10. RowsOK'
  <2>1. Active' = Active \cup {w}
    BY <1>8
  <2> QED BY <1>1, <1>3, <1>4, <1>5, <1>8, <1>9, <2>1, Granted
<1>11. /\ waiting' \in Seq(RequestRow)
       /\ \A i, j \in DOMAIN waiting' : waiting'[i].owner = waiting'[j].owner => i = j
       /\ RequestsOf(w)' = {}
       /\ \A v \in Worker \ {w} : RequestsOf(v)' = RequestsOf(v)
  BY <1>1, CancelRemoves
<1>12. Due(w)' = {}
  BY <1>2 DEF Due
<1>13. ~Claiming(w)' /\ ~Attempting(w)'
  BY <1>2 DEF Claiming, Attempting
<1>14. Spends /\ (spent'.lapses = 0 => spent.lapses = 0)
  BY <1>1, SpentStays
<1>15. HostInv'
  BY <1>1, <1>2, <1>5, <1>8, <1>10, <1>11, <1>12, <1>14, HostStepKeeps
<1>16. Settles(w)
  BY <1>1, <1>2, <1>13 DEF Settles, ClaimMove
<1>17. lastGrant' \in Project \cup {None}
  BY ConstantsFit DEF PollCapacity
<1> QED BY <1>2, <1>8, <1>11, <1>14, <1>15, <1>16, <1>17, StepKeeps

\* A step that changes no process: nothing is settled.
LEMMA StillSettles ==
    ASSUME PoolInv, NEW w \in Worker, UNCHANGED <<tasks, workers>>,
           spent'.crashes = spent.crashes, spent'.operator = spent.operator,
           spent'.exhausted = spent.exhausted
    PROVE  Settles(w) /\ Others(w)
<1>1. /\ workers \in [Worker -> WorkerRow]
      /\ workers[w].candidate => workers[w].pc \in {"closing", "over"}
      /\ workers[w].candidate \/ workers[w].pc = "finishing" => ~workers[w].red
      /\ spent.crashes = 0 => workers[w].alive
  BY DEF PoolInv, PoolTypes, AttemptsOK, AttemptOK
<1>2. (Claiming(w)' <=> Claiming(w)) /\ (Attempting(w)' <=> Attempting(w))
  BY DEF Claiming, Attempting, Occupying
<1> QED BY <1>1, <1>2 DEF Settles, ClaimMove, Others

LEMMA PollMarksKeeps ==
    ASSUME PoolInv, NEW w \in Worker, PollMarks(w) PROVE PoolInv' /\ ReviewedStep
<1>1. /\ PoolTypes /\ HostInv /\ RowsOK /\ lastGrant \in Project \cup {None}
      /\ waiting \in Seq(RequestRow)
      /\ \A i, j \in DOMAIN waiting : waiting[i].owner = waiting[j].owner => i = j
      /\ leases' = Expired
      /\ tasks' = tasks /\ workers' = workers /\ waiting' = waiting /\ lastGrant' = lastGrant
      /\ spent' = spent
  BY DEF PoolInv, PoolTypes, HostInv, PollMarks
<1>2. /\ leases' \in [Worker -> LeaseRow]
      /\ \A v \in Worker : /\ leases'[v].state = "active" <=> leases[v].state = "active"
                           /\ leases[v].state = "active" => leases'[v] = leases[v]
  BY <1>1, ExpiredRows
<1>3. Active' = Active /\ \A v \in Active : leases'[v] = leases[v]
  BY <1>2 DEF Active
<1>4. RowsOK'
  BY <1>1, <1>3, RowsShrink
<1>5. \A v \in Worker : RequestsOf(v)' = RequestsOf(v) /\ Due(v)' = Due(v)
  BY <1>1 DEF RequestsOf, Due
<1>6. workers'[w].alive => RequestsOf(w)' = Due(w)'
  BY <1>1, <1>5 DEF HostInv, RequestsOK
<1>7. Settles(w) /\ Others(w) /\ Spends
  BY <1>1, StillSettles, SpentStays
<1>8. spent'.lapses = 0 /\ w \in Occupying' =>
               /\ leases'[w].state = "active" /\ leases'[w].resources = workers'[w].reserved
               /\ workers'[w].pc \in {"granted", "building"} => leases'[w].provider = Builder[w]
               /\ workers'[w].pc = "reviewing" => leases'[w].provider = Evaluator[w]
  BY <1>1, <1>2 DEF HostInv, LeasesFollow, Occupying
<1>9. HostInv'
  BY <1>1, <1>2, <1>4, <1>5, <1>6, <1>7, <1>8, HostStepKeeps
<1> QED BY <1>1, <1>2, <1>7, <1>9, StepKeeps

\* One row is written without taking anything.
LEMMA RowGives ==
    ASSUME PoolTypes, RowsOK, NEW w \in Worker, NEW row \in LeaseRow,
           leases' = [leases EXCEPT ![w] = row],
           row.state = "active" => /\ leases[w].state = "active" /\ row.provider = None
                                  /\ row.resources = leases[w].resources
    PROVE  /\ leases' \in [Worker -> LeaseRow] /\ leases'[w] = row /\ RowsOK'
           /\ \A v \in Worker \ {w} : leases'[v] = leases[v]
<1>1. /\ leases' \in [Worker -> LeaseRow] /\ leases'[w] = row /\ leases \in [Worker -> LeaseRow]
      /\ \A v \in Worker \ {w} : leases'[v] = leases[v]
  BY DEF PoolTypes
<1>2. /\ Active' \ {w} = Active \ {w}
      /\ w \in Active' => w \in Active
  BY <1>1 DEF Active
<1>3. Active' \subseteq Active
  BY <1>2
<1>4. ASSUME NEW v \in Active'
      PROVE  /\ leases'[v].provider \in {leases[v].provider, None}
             /\ leases'[v].resources = leases[v].resources
  <2>1. v \in Worker /\ leases'[v].state = "active"
    BY DEF Active
  <2>2. CASE v = w
    BY <1>1, <2>1, <2>2
  <2>3. CASE v # w
    BY <1>1, <2>1, <2>3
  <2> QED BY <2>2, <2>3
<1>5. RowsOK'
  BY <1>3, <1>4, RowsShrink
<1> QED BY <1>1, <1>5

LEMMA ProviderCleared ==
    ASSUME PoolTypes, RowsOK, NEW w \in Worker, ClearProvider(w)
    PROVE  /\ leases' \in [Worker -> LeaseRow] /\ RowsOK'
           /\ leases'[w].state = "active" /\ leases'[w].resources = leases[w].resources
           /\ \A v \in Worker \ {w} : leases'[v] = leases[v]
<1>1. leases[w] \in LeaseRow /\ leases \in [Worker -> LeaseRow]
  BY DEF PoolTypes
<1> DEFINE row == [leases[w] EXCEPT !.provider = None]
<1>2. /\ row \in LeaseRow /\ row.state = leases[w].state /\ row.provider = None
      /\ row.resources = leases[w].resources
  BY <1>1 DEF LeaseRow
<1>3. leases[w].state = "active" /\ leases' = [leases EXCEPT ![w] = row]
  BY DEF ClearProvider
<1> HIDE DEF row
<1>4. /\ leases' \in [Worker -> LeaseRow] /\ leases'[w] = row /\ RowsOK'
      /\ \A v \in Worker \ {w} : leases'[v] = leases[v]
  BY <1>2, <1>3, RowGives
<1> QED BY <1>2, <1>3, <1>4

\* A worker goes on with its attempt, its own row written.
LEMMA GoesOnWith ==
    ASSUME PoolInv, NEW w \in Worker, UNCHANGED <<tasks, spent>>, Others(w),
           workers[w].alive, Attempting(w), ~workers[w].candidate,
           workers'[w].alive, workers'[w].built = workers[w].built,
           workers'[w].reserved = workers[w].reserved, ~workers'[w].candidate,
           workers'[w].pc \in {"verifying", "requesting", "provider", "reviewing", "reviewed"},
           RowsOK', leases' \in [Worker -> LeaseRow],
           \A v \in Worker \ {w} : leases[v].state = "active" => leases'[v] = leases[v],
           leases[w].state = "active" =>
               leases'[w].state = "active" /\ leases'[w].resources = leases[w].resources,
           spent.lapses = 0 /\ workers'[w].pc = "reviewing" => leases'[w].provider = Evaluator[w],
           waiting' \in Seq(RequestRow),
           \A i, j \in DOMAIN waiting' : waiting'[i].owner = waiting'[j].owner => i = j,
           RequestsOf(w)' = Due(w)', \A v \in Worker \ {w} : RequestsOf(v)' = RequestsOf(v),
           lastGrant' = lastGrant
    PROVE  PoolInv' /\ ReviewedStep
<1>1. PoolTypes /\ HostInv /\ lastGrant \in Project \cup {None}
  BY DEF PoolInv, PoolTypes
<1>2. w \in Occupying /\ Claiming(w)
  BY DEF Attempting, Occupying, Claiming
<1>3. Spends /\ (spent'.lapses = 0 => spent.lapses = 0)
  BY <1>1, SpentStays
<1>4. spent'.lapses = 0 =>
               /\ leases'[w].state = "active" /\ leases'[w].resources = workers'[w].reserved
               /\ workers'[w].pc \in {"granted", "building"} => leases'[w].provider = Builder[w]
               /\ workers'[w].pc = "reviewing" => leases'[w].provider = Evaluator[w]
  BY <1>1, <1>2 DEF HostInv, LeasesFollow
<1>5. HostInv'
  BY <1>1, <1>3, <1>4, HostStepKeeps
<1>6. Settles(w)
  BY <1>2 DEF Settles, ClaimMove
<1> QED BY <1>1, <1>3, <1>5, <1>6, StepKeeps

LEMMA BuiltKeeps ==
    ASSUME PoolInv, NEW w \in Worker, Built(w) PROVE PoolInv' /\ ReviewedStep
<1>1. /\ PoolTypes /\ HostInv /\ RowsOK /\ workers[w].pc = "building" /\ workers[w].alive
      /\ Attempting(w) /\ ~workers[w].candidate
      /\ waiting' = waiting /\ lastGrant' = lastGrant /\ spent' = spent
      /\ waiting \in Seq(RequestRow)
      /\ \A i, j \in DOMAIN waiting : waiting[i].owner = waiting[j].owner => i = j
  BY NotYet DEF PoolInv, PoolTypes, HostInv, Built, At, Attempting
<1>2. CASE ClearProvider(w) /\ Goto(w, "verifying") /\ UNCHANGED tasks
  <2>1. /\ Others(w) /\ workers'[w].pc = "verifying" /\ workers'[w].alive
        /\ workers'[w].reserved = workers[w].reserved /\ ~workers'[w].candidate
        /\ workers'[w].built = workers[w].built
    BY <1>1, <1>2, Gone DEF PC, PoolTypes
  <2>2. /\ leases' \in [Worker -> LeaseRow] /\ RowsOK'
        /\ leases'[w].state = "active" /\ leases'[w].resources = leases[w].resources
        /\ \A v \in Worker \ {w} : leases'[v] = leases[v]
    BY <1>1, <1>2, ProviderCleared
  <2>3. \A v \in Worker : RequestsOf(v)' = RequestsOf(v)
    BY <1>1 DEF RequestsOf
  <2>4. RequestsOf(w)' = Due(w)'
    BY <1>1, <2>1, <2>3 DEF HostInv, RequestsOK, Due
  <2> QED BY <1>1, <1>2, <2>1, <2>2, <2>3, <2>4, GoesOnWith
<1>3. CASE Fails(w, TRUE, FALSE) /\ UNCHANGED leases
  <2>1. UNCHANGED <<host, spent>>
    BY <1>1, <1>3 DEF host
  <2> QED BY <1>1, <1>3, <2>1, FailsHere
<1> QED BY <1>2, <1>3 DEF Built

LEMMA ReviewedKeeps ==
    ASSUME PoolInv, NEW w \in Worker, Reviewed(w) PROVE PoolInv' /\ ReviewedStep
<1>1. /\ PoolTypes /\ HostInv /\ RowsOK /\ workers[w].pc = "reviewing" /\ workers[w].alive
      /\ Attempting(w) /\ ~workers[w].candidate
      /\ workers[w] \in WorkerRow /\ workers \in [Worker -> WorkerRow]
      /\ waiting' = waiting /\ lastGrant' = lastGrant /\ spent' = spent
      /\ waiting \in Seq(RequestRow)
      /\ \A i, j \in DOMAIN waiting : waiting[i].owner = waiting[j].owner => i = j
  BY NotYet DEF PoolInv, PoolTypes, HostInv, Reviewed, At, Attempting
<1>2. CASE /\ ClearProvider(w) /\ UNCHANGED tasks
           /\ \E red \in BOOLEAN : workers' = [workers EXCEPT ![w].pc = "reviewed", ![w].red = red]
  <2>1. PICK red \in BOOLEAN : workers' = [workers EXCEPT ![w].pc = "reviewed", ![w].red = red]
    BY <1>2
  <2> DEFINE row == [workers[w] EXCEPT !.pc = "reviewed", !.red = red]
  <2>2. /\ row \in WorkerRow /\ row.pc = "reviewed" /\ row.alive /\ ~row.candidate
        /\ row.reserved = workers[w].reserved /\ row.built = workers[w].built
    BY <1>1 DEF WorkerRow, PC
  <2>3. workers' = [workers EXCEPT ![w] = row]
    BY <2>1
  <2> HIDE DEF row
  <2>4. Others(w) /\ workers'[w] = row
    BY <1>1, <2>2, <2>3, Moved
  <2>5. /\ leases' \in [Worker -> LeaseRow] /\ RowsOK'
        /\ leases'[w].state = "active" /\ leases'[w].resources = leases[w].resources
        /\ \A v \in Worker \ {w} : leases'[v] = leases[v]
    BY <1>1, <1>2, ProviderCleared
  <2>6. \A v \in Worker : RequestsOf(v)' = RequestsOf(v)
    BY <1>1 DEF RequestsOf
  <2>7. RequestsOf(w)' = Due(w)'
    BY <1>1, <2>2, <2>4, <2>6 DEF HostInv, RequestsOK, Due
  <2> QED BY <1>1, <1>2, <2>2, <2>4, <2>5, <2>6, <2>7, GoesOnWith
<1>3. CASE Fails(w, TRUE, FALSE) /\ UNCHANGED leases
  <2>1. UNCHANGED <<host, spent>>
    BY <1>1, <1>3 DEF host
  <2> QED BY <1>1, <1>3, <2>1, FailsHere
<1> QED BY <1>2, <1>3 DEF Reviewed

LEMMA RequestProviderKeeps ==
    ASSUME PoolInv, NEW w \in Worker, RequestProvider(w) PROVE PoolInv' /\ ReviewedStep
<1>1. /\ PoolTypes /\ HostInv /\ RowsOK /\ workers[w].pc = "requesting" /\ workers[w].alive
      /\ Attempting(w) /\ ~workers[w].candidate /\ leases \in [Worker -> LeaseRow]
      /\ leases' = leases /\ lastGrant' = lastGrant /\ spent' = spent
  BY NotYet DEF PoolInv, PoolTypes, HostInv, RequestProvider, At, Attempting
<1>2. CASE leases[w].state \in {"active", "overdue"}
  <2> DEFINE q == Request(w, "provider", Evaluator[w], {})
  <2>1. waiting' = Append(waiting, q) /\ Goto(w, "provider") /\ tasks' = tasks
    BY <1>2 DEF RequestProvider
  <2>2. /\ Others(w) /\ workers'[w].pc = "provider" /\ workers'[w].alive
        /\ workers'[w].reserved = workers[w].reserved /\ ~workers'[w].candidate
        /\ workers'[w].built = workers[w].built
    BY <1>1, <2>1, Gone DEF PC, PoolTypes
  <2>3. q \in RequestRow /\ q.owner = w
    BY ConstantsFit DEF Request, RequestRow
  <2>4. Due(w)' = {q}
    BY <2>2 DEF Due, Request
  <2> HIDE DEF q
  <2>5. RequestsOf(w) = {}
    BY <1>1 DEF HostInv, RequestsOK, Due
  <2>6. /\ waiting' \in Seq(RequestRow)
        /\ \A i, j \in DOMAIN waiting' : waiting'[i].owner = waiting'[j].owner => i = j
        /\ RequestsOf(w)' = {q}
        /\ \A v \in Worker \ {w} : RequestsOf(v)' = RequestsOf(v)
    BY <1>1, <2>1, <2>3, <2>5, AskAdds
  <2>7. RowsOK'
    BY <1>1 DEF RowsOK, Active, Holding
  <2> QED BY <1>1, <2>1, <2>2, <2>4, <2>6, <2>7, GoesOnWith
<1>3. CASE leases[w].state \notin {"active", "overdue"}
  <2>1. Fails(w, TRUE, FALSE) /\ UNCHANGED waiting
    BY <1>3 DEF RequestProvider
  <2>2. UNCHANGED <<host, spent>>
    BY <1>1, <2>1 DEF host
  <2> QED BY <1>1, <2>1, <2>2, FailsHere
<1> QED BY <1>2, <1>3

LEMMA PollProviderKeeps ==
    ASSUME PoolInv, NEW w \in Worker, PollProvider(w) PROVE PoolInv' /\ ReviewedStep
<1>1. /\ PoolTypes /\ HostInv /\ RowsOK /\ workers[w].pc = "provider" /\ workers[w].alive
      /\ Attempting(w) /\ ~workers[w].candidate /\ leases \in [Worker -> LeaseRow]
      /\ lastGrant \in Project \cup {None}
      /\ tasks \in [Task -> TaskState] /\ TaskOf[w] \in Task
      /\ lastGrant' = lastGrant /\ spent' = spent /\ Cancel(w) /\ SelectedProvider(IndexOf(w))
  BY NotYet, ConstantsFit DEF PoolInv, PoolTypes, HostInv, PollProvider, At, Attempting
<1>2. /\ waiting' \in Seq(RequestRow)
      /\ \A i, j \in DOMAIN waiting' : waiting'[i].owner = waiting'[j].owner => i = j
      /\ RequestsOf(w)' = {}
      /\ \A v \in Worker \ {w} : RequestsOf(v)' = RequestsOf(v)
  BY <1>1, CancelRemoves
<1>3. CASE leases[w].state = "active"
  <2>1. /\ leases' = [Expired EXCEPT ![w].provider = Evaluator[w]]
        /\ Goto(w, "reviewing") /\ tasks' = tasks
    BY <1>3 DEF PollProvider
  <2>2. /\ Others(w) /\ workers'[w].pc = "reviewing" /\ workers'[w].alive
        /\ workers'[w].reserved = workers[w].reserved /\ ~workers'[w].candidate
        /\ workers'[w].built = workers[w].built
    BY <1>1, <2>1, Gone DEF PC, PoolTypes
  <2>3. /\ Expired \in [Worker -> LeaseRow] /\ Expired[w] = leases[w]
        /\ \A v \in Worker : /\ Expired[v].state = "active" <=> leases[v].state = "active"
                             /\ leases[v].state = "active" => Expired[v] = leases[v]
    BY <1>1, <1>3, ExpiredRows
  <2> DEFINE row == [leases[w] EXCEPT !.provider = Evaluator[w]]
  <2>4. /\ row \in LeaseRow /\ row.state = "active" /\ row.provider = Evaluator[w]
        /\ row.resources = leases[w].resources
    BY <1>1, <1>3, ConstantsFit DEF LeaseRow
  <2>5. leases' = [Expired EXCEPT ![w] = row]
    BY <2>1, <2>3
  <2> HIDE DEF row
  <2>6. /\ leases' \in [Worker -> LeaseRow] /\ leases'[w] = row
        /\ \A v \in Worker \ {w} : leases'[v] = Expired[v]
    BY <2>3, <2>4, <2>5
  <2>7. \A v \in Worker \ {w} : /\ leases'[v].state = "active" <=> leases[v].state = "active"
                                /\ leases[v].state = "active" => leases'[v] = leases[v]
    BY <2>3, <2>6
  <2>8. /\ Active' \ {w} = Active \ {w}
        /\ w \in Active' <=> leases'[w].state = "active"
        /\ \A v \in Active \ {w} : leases'[v] = leases[v]
    BY <1>1, <2>6, <2>7, RowSet
  <2>9. w \in Active /\ Active' = Active \cup {w}
    BY <1>3, <2>4, <2>6, <2>8 DEF Active
  <2> DEFINE q == Request(w, "provider", Evaluator[w], {})
  <2>10. q \in RequestRow /\ q.owner = w /\ q.kind = "provider" /\ q.provider = Evaluator[w]
    BY ConstantsFit DEF Request, RequestRow
  <2>11. RequestsOf(w) = {q}
    BY <1>1 DEF HostInv, RequestsOK, Due
  <2> HIDE DEF q
  <2>12. RowsOK'
    BY <1>1, <2>4, <2>6, <2>8, <2>9, <2>10, <2>11, Granted DEF SelectedProvider
  <2>13. Due(w)' = {}
    BY <2>2 DEF Due
  <2> QED BY <1>1, <1>2, <2>1, <2>2, <2>4, <2>6, <2>7, <2>12, <2>13, GoesOnWith
<1>4. CASE leases[w].state # "active"
  <2>1. Fails(w, TRUE, FALSE) /\ leases' = leases
    BY <1>4 DEF PollProvider
  <2>2. tasks' = tasks \/ (Left(TaskOf[w]) /\ HoldsLease(w, TaskOf[w]))
    BY <1>1, <2>1, EndsLeave DEF Fails
  <2>3. /\ Others(w) /\ workers'[w].pc = "closing" /\ workers'[w].alive
        /\ workers'[w].reserved = workers[w].reserved /\ ~workers'[w].candidate
    BY <1>1, <2>1, Gone DEF Fails, PC, PoolTypes
  <2>4. Settles(w) /\ w \in Occupying
    BY <1>1, <2>2, <2>3, AttemptEnds
  <2>5. RowsOK'
    BY <1>1, <2>1 DEF RowsOK, Active, Holding
  <2>6. Due(w)' = {}
    BY <2>3 DEF Due
  <2>7. spent'.lapses = 0 =>
               /\ leases'[w].state = "active" /\ leases'[w].resources = workers'[w].reserved
               /\ workers'[w].pc \in {"granted", "building"} => leases'[w].provider = Builder[w]
               /\ workers'[w].pc = "reviewing" => leases'[w].provider = Evaluator[w]
    BY <1>1, <2>1, <2>3, <2>4 DEF HostInv, LeasesFollow
  <2>8. HostInv'
    BY <1>1, <1>2, <2>1, <2>3, <2>5, <2>6, <2>7, HostStepKeeps
  <2> QED BY <1>1, <1>2, <2>1, <2>3, <2>4, <2>8, SpentStays, StepKeeps
<1> QED BY <1>3, <1>4

\* A process that has ended: its claim was ended before, or is its candidate's.
LEMMA EndedSettles ==
    ASSUME PoolInv, NEW w \in Worker, UNCHANGED <<tasks, spent>>, Ends(w), workers[w].alive
    PROVE  /\ Settles(w) /\ Others(w) /\ Spends /\ w \notin Occupying' /\ Due(w)' = {}
<1>1. PoolTypes /\ (workers[w].candidate => ~workers[w].red)
  BY NotYet DEF PoolInv
<1>2. /\ Others(w) /\ workers'[w].pc = "over" /\ workers'[w].alive /\ ~workers'[w].red
      /\ workers'[w].candidate = workers[w].candidate
      /\ workers[w].candidate => workers'[w].built = workers[w].built
  BY <1>1, EndedAt
<1>3. w \notin Occupying' /\ Due(w)' = {}
  BY <1>2 DEF Occupying, Due
<1>4. (Claiming(w)' => Claiming(w)) /\ (Attempting(w)' => workers[w].candidate /\ Attempting(w))
  BY <1>2, <1>3 DEF Claiming, Attempting
<1>5. Settles(w)
  BY <1>2, <1>4 DEF Settles, ClaimMove
<1> QED BY <1>1, <1>2, <1>3, <1>5, SpentStays

LEMMA GiveUpKeeps ==
    ASSUME PoolInv, NEW w \in Worker, GiveUp(w) PROVE PoolInv' /\ ReviewedStep
<1>1. /\ PoolTypes /\ HostInv /\ workers[w].alive /\ leases \in [Worker -> LeaseRow]
      /\ lastGrant \in Project \cup {None} /\ Cancel(w) /\ Ends(w)
      /\ tasks' = tasks /\ leases' = leases /\ lastGrant' = lastGrant /\ spent' = spent
  BY DEF PoolInv, PoolTypes, GiveUp, At
<1>2. /\ Settles(w) /\ Others(w) /\ Spends /\ w \notin Occupying' /\ Due(w)' = {}
  BY <1>1, EndedSettles
<1>3. /\ waiting' \in Seq(RequestRow)
      /\ \A i, j \in DOMAIN waiting' : waiting'[i].owner = waiting'[j].owner => i = j
      /\ RequestsOf(w)' = {}
      /\ \A v \in Worker \ {w} : RequestsOf(v)' = RequestsOf(v)
  BY <1>1, CancelRemoves
<1>4. RowsOK'
  BY <1>1 DEF HostInv, RowsOK, Active, Holding
<1>5. HostInv'
  BY <1>1, <1>2, <1>3, <1>4, HostStepKeeps
<1> QED BY <1>1, <1>2, <1>3, <1>5, StepKeeps

LEMMA CloseKeeps ==
    ASSUME PoolInv, NEW w \in Worker, Close(w) PROVE PoolInv' /\ ReviewedStep
<1>1. /\ PoolTypes /\ HostInv /\ RowsOK /\ workers[w].alive /\ workers[w].pc = "closing"
      /\ leases \in [Worker -> LeaseRow] /\ waiting \in Seq(RequestRow)
      /\ \A i, j \in DOMAIN waiting : waiting[i].owner = waiting[j].owner => i = j
      /\ lastGrant \in Project \cup {None} /\ Ends(w)
      /\ tasks' = tasks /\ lastGrant' = lastGrant /\ spent' = spent
  BY DEF PoolInv, PoolTypes, HostInv, Close, At
<1>2. /\ Settles(w) /\ Others(w) /\ Spends /\ w \notin Occupying' /\ Due(w)' = {}
  BY <1>1, EndedSettles
<1>3. CASE leases[w].state \in {"active", "overdue"}
  <2> DEFINE row == [leases[w] EXCEPT !.state = "released", !.provider = None, !.resources = {}]
  <2>1. row \in LeaseRow /\ row.state = "released"
    BY <1>1 DEF LeaseRow, LeaseState
  <2>2. leases' = [leases EXCEPT ![w] = row] /\ Cancel(w)
    BY <1>3 DEF Close
  <2> HIDE DEF row
  <2>3. /\ leases' \in [Worker -> LeaseRow] /\ RowsOK'
        /\ \A v \in Worker \ {w} : leases'[v] = leases[v]
    BY <1>1, <2>1, <2>2, RowGives
  <2>4. /\ waiting' \in Seq(RequestRow)
        /\ \A i, j \in DOMAIN waiting' : waiting'[i].owner = waiting'[j].owner => i = j
        /\ RequestsOf(w)' = {}
        /\ \A v \in Worker \ {w} : RequestsOf(v)' = RequestsOf(v)
    BY <1>1, <2>2, CancelRemoves
  <2>5. HostInv'
    BY <1>1, <1>2, <2>3, <2>4, HostStepKeeps
  <2> QED BY <1>1, <1>2, <2>3, <2>4, <2>5, StepKeeps
<1>4. CASE leases[w].state \notin {"active", "overdue"}
  <2>1. leases' = leases /\ waiting' = waiting
    BY <1>4 DEF Close
  <2>2. \A v \in Worker : RequestsOf(v)' = RequestsOf(v)
    BY <2>1 DEF RequestsOf
  <2>3. RequestsOf(w)' = {}
    BY <1>1, <2>2 DEF HostInv, RequestsOK, Due
  <2>4. RowsOK'
    BY <1>1, <2>1 DEF RowsOK, Active, Holding
  <2>5. HostInv'
    BY <1>1, <1>2, <2>1, <2>2, <2>3, <2>4, HostStepKeeps
  <2> QED BY <1>1, <1>2, <2>1, <2>5, StepKeeps
<1> QED BY <1>3, <1>4

LEMMA RunsOutKeeps ==
    ASSUME PoolInv, NEW w \in Worker, RunsOut(w) PROVE PoolInv' /\ ReviewedStep
<1>1. /\ PoolTypes /\ HostInv /\ RowsOK /\ leases[w].state = "active"
      /\ leases \in [Worker -> LeaseRow] /\ waiting \in Seq(RequestRow)
      /\ \A i, j \in DOMAIN waiting : waiting[i].owner = waiting[j].owner => i = j
      /\ lastGrant \in Project \cup {None} /\ spent \in SpentRow
      /\ tasks' = tasks /\ workers' = workers /\ waiting' = waiting /\ lastGrant' = lastGrant
  BY DEF PoolInv, PoolTypes, HostInv, RunsOut
<1> DEFINE row == [leases[w] EXCEPT !.state = "overdue"]
<1>2. row \in LeaseRow /\ row.state = "overdue"
  BY <1>1 DEF LeaseRow, LeaseState
<1>3. leases' = [leases EXCEPT ![w] = row]
  BY DEF RunsOut
<1> HIDE DEF row
<1>4. /\ leases' \in [Worker -> LeaseRow] /\ RowsOK'
      /\ \A v \in Worker \ {w} : leases'[v] = leases[v]
  BY <1>1, <1>2, <1>3, RowGives
<1>5. /\ spent' \in SpentRow /\ (spent'.lapses = 0 => spent.lapses = 0)
      /\ spent'.crashes = spent.crashes /\ spent'.operator = spent.operator
      /\ spent'.exhausted = spent.exhausted
      /\ workers[w].alive => spent'.lapses # 0
  <2>1. CASE workers[w].alive
    BY <1>1, <2>1, FaultSpends DEF RunsOut
  <2>2. CASE ~workers[w].alive
    BY <1>1, <2>2 DEF RunsOut
  <2> QED BY <2>1, <2>2
<1>6. Settles(w) /\ Others(w)
  BY <1>1, <1>5, StillSettles
<1>7. \A v \in Worker : RequestsOf(v)' = RequestsOf(v) /\ Due(v)' = Due(v)
  BY <1>1 DEF RequestsOf, Due
<1>8. workers'[w].alive => RequestsOf(w)' = Due(w)'
  BY <1>1, <1>7 DEF HostInv, RequestsOK
<1>9. spent'.lapses = 0 => w \notin Occupying'
  BY <1>1, <1>5 DEF Occupying
<1>10. HostInv'
  BY <1>1, <1>4, <1>5, <1>6, <1>7, <1>8, <1>9, HostStepKeeps
<1> QED BY <1>1, <1>4, <1>5, <1>6, <1>10, StepKeeps DEF Spends
-----------------------------------------------------------------------------
(* The invariant.                                                           *)
LEMMA PoolInit == ASSUME Init PROVE PoolInv
<1>1. /\ QueueInit /\ waiting = <<>> /\ lastGrant = None
      /\ workers = [w \in Worker |-> [pc |-> "off", alive |-> TRUE, reserved |-> {}, built |-> 0,
                                      red |-> FALSE, candidate |-> FALSE, retry |-> FALSE]]
      /\ leases = [w \in Worker |-> [state |-> "none", provider |-> None, resources |-> {}]]
      /\ spent = [crashes |-> 0, lapses |-> 0, operator |-> 0, exhausted |-> {}]
  BY DEF Init
<1>2. \A w \in Worker : /\ workers[w].pc = "off" /\ workers[w].alive /\ ~workers[w].candidate
                        /\ ~workers[w].red /\ leases[w].state = "none"
  BY <1>1
<1>3. 0 \in 0 .. MaxSpec
  BY QueueAssumption
<1>4. tasks \in [Task -> TaskState] /\ \A t \in Task : ~tasks[t].gate
  BY <1>1, <1>3 DEF QueueInit, TaskState
<1>5. workers \in [Worker -> WorkerRow]
  <2>1. [pc |-> "off", alive |-> TRUE, reserved |-> {}, built |-> 0, red |-> FALSE,
         candidate |-> FALSE, retry |-> FALSE] \in WorkerRow
    BY <1>3 DEF WorkerRow, PC
  <2> QED BY <1>1, <2>1
<1>6. leases \in [Worker -> LeaseRow]
  <2>1. [state |-> "none", provider |-> None, resources |-> {}] \in LeaseRow
    BY DEF LeaseRow, LeaseState
  <2> QED BY <1>1, <2>1
<1>7. spent \in SpentRow /\ waiting \in Seq(RequestRow) /\ DOMAIN waiting = {}
  BY <1>1 DEF SpentRow
<1>8. PoolTypes
  BY <1>1, <1>4, <1>5, <1>6, <1>7 DEF PoolTypes
<1>9. RequestsOK
  BY <1>2, <1>7 DEF RequestsOK, RequestsOf, Due
<1>10. RowsOK
  <2>1. Active = {} /\ \A p \in Provider : Holding(p) = {}
    BY <1>2 DEF Active, Holding
  <2>2. IsFiniteSet({}) /\ Cardinality({}) = 0
    BY FS_EmptySet
  <2>3. \A p \in Provider : 0 <= ProviderLimit[p]
    BY ConstantsFit
  <2>4. 0 <= MaxActiveWorkers
    BY ConstantsFit
  <2> QED BY <2>1, <2>2, <2>3, <2>4 DEF RowsOK
<1>11. Occupying = {}
  BY <1>2 DEF Occupying
<1>12. HostInv
  BY <1>9, <1>10, <1>11 DEF HostInv, LeasesFollow
<1>13. \A w \in Worker : ~Attempting(w) /\ ~Claiming(w)
  BY <1>2, <1>11 DEF Attempting, Claiming
<1>14. AttemptsOK
  BY <1>2, <1>4, <1>13 DEF AttemptsOK, AttemptOK
<1>15. ClaimStands
  BY <1>13 DEF ClaimStands
<1> QED BY <1>8, <1>12, <1>14, <1>15 DEF PoolInv

LEMMA PoolStep == ASSUME PoolInv, Next PROVE PoolInv' /\ ReviewedStep
<1>1. CASE \E w \in Worker : Step(w)
  BY <1>1, SelectKeeps, BlockExhaustedKeeps, AskCapacityKeeps, PollCapacityKeeps, PollMarksKeeps,
     ClaimTaskKeeps, ReleaseClaimKeeps, BuiltKeeps, VerifiedKeeps, RequestProviderKeeps,
     PollProviderKeeps, ReviewedKeeps, SettleKeeps, FinishTaskKeeps, CloseKeeps DEF Step
<1>2. CASE \E w \in Worker : \/ NotStarted(w) \/ GiveUp(w) \/ Crash(w) \/ RunsOut(w)
                             \/ SettleDead(w) \/ Land(w) \/ Retry(w)
  BY <1>2, NotStartedKeeps, GiveUpKeeps, CrashKeeps, RunsOutKeeps, SettleDeadKeeps, LandKeeps,
     RetryKeeps
<1>3. CASE \E t \in Task : Operator(t) \/ ApproveTask(t)
  BY <1>3, OperatorKeeps, ApproveTaskKeeps
<1> QED BY <1>1, <1>2, <1>3 DEF Next

LEMMA PoolStutters == ASSUME PoolInv, UNCHANGED vars PROVE PoolInv' /\ ReviewedStep
<1>1. /\ tasks' = tasks /\ workers' = workers /\ leases' = leases /\ waiting' = waiting
      /\ lastGrant' = lastGrant /\ spent' = spent
  BY DEF vars
<1>2. PoolTypes'
  BY <1>1 DEF PoolInv, PoolTypes
<1>3. HostInv'
  <2>1. RowsOK'
    BY <1>1 DEF PoolInv, HostInv, RowsOK, Active, Holding
  <2>2. RequestsOK'
    BY <1>1 DEF PoolInv, HostInv, RequestsOK, RequestsOf, Due
  <2>3. LeasesFollow'
    BY <1>1 DEF PoolInv, HostInv, LeasesFollow, Occupying
  <2> QED BY <2>1, <2>2, <2>3 DEF HostInv
<1>4. AttemptsOK'
  BY <1>1 DEF PoolInv, AttemptsOK, AttemptOK, Attempting, HoldsLease
<1>5. ClaimStands'
  BY <1>1 DEF PoolInv, ClaimStands, Claiming, Occupying, HoldsLease
<1>6. ReviewedStep
  BY <1>1 DEF PoolInv, AttemptsOK, ReviewedStep
<1> QED BY <1>2, <1>3, <1>4, <1>5, <1>6 DEF PoolInv

(* In every run of the pool the rows of the host are within its limits and in *)
(* step with the processes, each live worker has just the request it waits   *)
(* with, an attempt that has its claim built what the claim says, and the    *)
(* claims stand.                                                            *)
THEOREM PoolInvariant == Spec => []PoolInv
<1>1. Init => PoolInv
  BY PoolInit
<1>2. PoolInv /\ [Next]_vars => PoolInv'
  BY PoolStep, PoolStutters
<1> QED BY <1>1, <1>2, PTL DEF Spec

\* The processes that occupy the host are among those that have a lease.
LEMMA OccupyingFits ==
    ASSUME PoolInv, spent.lapses = 0
    PROVE  /\ IsFiniteSet(Occupying) /\ Cardinality(Occupying) <= MaxActiveWorkers
           /\ \A p \in Provider : Cardinality(Calling(p)) <= ProviderLimit[p]
           /\ \A v, w \in Occupying :
                v # w => workers[v].reserved \cap workers[w].reserved = {}
<1>1. /\ RowsOK /\ IsFiniteSet(Active) /\ Cardinality(Active) <= MaxActiveWorkers
      /\ Cardinality(Active) \in Nat
  BY FS_CardinalityType DEF PoolInv, HostInv, RowsOK
<1>2. \A w \in Occupying :
        /\ w \in Active /\ leases[w].resources = workers[w].reserved
        /\ workers[w].pc \in {"granted", "building"} => leases[w].provider = Builder[w]
        /\ workers[w].pc = "reviewing" => leases[w].provider = Evaluator[w]
  BY DEF PoolInv, HostInv, LeasesFollow, Active, Occupying
<1>3. IsFiniteSet(Occupying) /\ Cardinality(Occupying) <= Cardinality(Active)
  BY <1>1, <1>2, FS_Subset
<1>4. Cardinality(Occupying) <= MaxActiveWorkers
  BY <1>1, <1>3, FS_CardinalityType, ConstantsFit
<1>5. ASSUME NEW p \in Provider PROVE Cardinality(Calling(p)) <= ProviderLimit[p]
  <2>1. Calling(p) \subseteq Holding(p) /\ Holding(p) \subseteq Active
    BY <1>2 DEF Calling, Holding
  <2>2. IsFiniteSet(Holding(p)) /\ IsFiniteSet(Calling(p))
    BY <1>1, <2>1, FS_Subset
  <2>3. Cardinality(Calling(p)) <= Cardinality(Holding(p))
    BY <2>1, <2>2, FS_Subset
  <2>4. Cardinality(Holding(p)) <= ProviderLimit[p]
    BY <1>1 DEF RowsOK
  <2> QED BY <2>2, <2>3, <2>4, FS_CardinalityType, ConstantsFit
<1>6. \A v, w \in Occupying : v # w => workers[v].reserved \cap workers[w].reserved = {}
  BY <1>1, <1>2 DEF RowsOK
<1> QED BY <1>3, <1>4, <1>5, <1>6

(* While no live worker lost its lease, the processes on the host are within *)
(* its limits and no two work with one exclusive resource, whatever crashes, *)
(* expiries, retries and human interventions there were.                    *)
THEOREM HostWithinLimits == Spec => []HostLimits
<1>1. PoolInv => HostLimits
  <2> SUFFICES ASSUME PoolInv PROVE HostLimits
    OBVIOUS
  <2>1. TypeOK
    BY DEF PoolInv, PoolTypes, TypeOK, WorkerRow, LeaseRow, Declared
  <2> QED BY <2>1, OccupyingFits DEF HostLimits
<1> QED BY <1>1, PoolInvariant, PTL

(* While no human touched the queue and no process died, an attempt that is  *)
(* under way has its claim, unless an exhausted attempt ended it.           *)
THEOREM ClaimsStand == Spec => []ClaimStands
<1>1. PoolInv => ClaimStands
  BY DEF PoolInv
<1> QED BY <1>1, PoolInvariant, PTL

(* Done as reviewed is only what the attempt that holds the claim built and  *)
(* its green review saw, and a red review stays gated until then.           *)
THEOREM DoneWasReviewed == Spec => DoneMeansReviewed
<1>1. PoolInv /\ [Next]_vars => [\A t \in Task :
         /\ tasks[t].mode # tasks'[t].mode /\ tasks'[t].mode = "autodev_reviewed" =>
             \E w \in Worker : /\ tasks[t].holder = w /\ workers'[w] # workers[w]
                               /\ workers[w].built = tasks[t].spec /\ ~workers[w].red
         /\ tasks[t].gate => \/ tasks'[t].gate /\ tasks'[t].status # "done"
                            \/ tasks'[t].mode = "autodev_reviewed"]_vars
  BY PoolStep DEF ReviewedStep
<1> QED BY <1>1, PoolInvariant, PTL DEF Spec, DoneMeansReviewed
=============================================================================
