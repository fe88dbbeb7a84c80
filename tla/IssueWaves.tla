----------------------------- MODULE IssueWaves -----------------------------
(***************************************************************************)
(* The execution waves of a plan: which issues may be worked on together.   *)
(*                                                                         *)
(* The scheduler of waves takes, again and again, the issues whose          *)
(* dependencies are placed, and of these in the order of their keys all     *)
(* that do not conflict with one already taken.  The compiler of the plan   *)
(* looks for a cycle of dependencies on its own.                            *)
(***************************************************************************)
EXTENDS Integers, Sequences, FiniteSets, SequencesExt

CONSTANTS
    Key,      \* issue keys, in their order
    Claim     \* what an issue may claim: files, directories, other resources

\* A resource of another kind is never a path: an interface, an object of the
\* database, a shared setting, a place in the landing order.
ASSUME WavesAssumption ==
    /\ Key \subseteq Int /\ IsFiniteSet(Key) /\ Claim # {}
    /\ \A c, d \in Claim : (c.files \cup c.directories) \cap d.resources = {}

VARIABLES
    plan,       \* what each issue depends on, and claims
    remaining,  \* the issues that have no wave yet
    waves

waveVars == <<plan, remaining, waves>>

\* Dependencies that the plan does not hold are dropped first.
WavesInit ==
    /\ \E needs \in [Key -> SUBSET Key], claims \in [Key -> Claim] :
        plan = [k \in Key |-> [needs |-> needs[k], claims |-> claims[k]]]
    /\ remaining = Key
    /\ waves = <<>>

\* A plan without dependencies whose issues have their waves.
WavesPlaced ==
    /\ LET claim == CHOOSE c \in Claim : TRUE IN
        plan = [k \in Key |-> [needs |-> {}, claims |-> claim]]
    /\ remaining = {}
    /\ waves = <<>>

\* A path is a sequence of names; a directory covers itself, the directories
\* below it and the files in them.
Covers(l, r) ==
    \E d \in l.directories : \/ \E below \in r.directories : IsPrefix(d, below)
                             \/ \E file \in r.files : IsStrictPrefix(d, file)

\* Mutant of ConflictFor: a file below a claimed directory does not count.
ConflictForMutant(l, r) ==
    LET dirs(c) == [c EXCEPT !.files = {}]
    IN  \/ l.files \cap r.files # {}
        \/ Covers(l, dirs(r)) \/ Covers(r, dirs(l))
        \/ l.resources \cap r.resources # {}
ConflictFor(l, r) ==
    \/ l.files \cap r.files # {}
    \/ Covers(l, r) \/ Covers(r, l)
    \/ l.resources \cap r.resources # {}

Conflict(k, m) == ConflictFor(plan[k].claims, plan[m].claims)

ReadyKeys == {k \in remaining : plan[k].needs \cap remaining = {}}

InOrder(keys) ==
    CHOOSE order \in [1 .. Cardinality(keys) -> keys] :
        \A i, j \in DOMAIN order : i < j => order[i] < order[j]

\* The ready issues of one wave, in the order of their keys: each that conflicts
\* with none that was chosen before it.
Chosen(chosen) ==
    chosen = {k \in ReadyKeys : \A c \in chosen : c < k => ~Conflict(c, k)}
Selected == CHOOSE chosen \in SUBSET ReadyKeys : Chosen(chosen)

NextWave ==
    /\ ReadyKeys # {}
    /\ waves' = Append(waves, Selected)
    /\ remaining' = remaining \ Selected
    /\ UNCHANGED plan

\* findCycle: some issues of the plan each depend on one another of them.
HasCycle ==
    \E some \in (SUBSET Key) \ {{}} : \A k \in some : plan[k].needs \cap some # {}

\* topologicalOrder: the same rounds, without conflicts.
Place[left \in SUBSET Key] ==
    LET free == {k \in left : plan[k].needs \cap left = {}}
    IN  IF free = {} THEN <<>> ELSE InOrder(free) \o Place[left \ free]

Order == IF HasCycle THEN <<>> ELSE Place[Key]

-----------------------------------------------------------------------------
(* Properties.                                                              *)

\* Two issues touch one thing: a file that both change, a file of one in a
\* directory of the other, a directory they share, a resource that both name.
Touching(k, m) ==
    LET a == plan[k].claims  b == plan[m].claims
        inside(d, c) == {p \in c.files : IsStrictPrefix(d, p)}
                            \cup {p \in c.directories : IsPrefix(d, p)}
    IN  \/ \E p \in a.files \cup a.resources : p \in b.files \cup b.resources
        \/ \E d \in a.directories : inside(d, b) # {}
        \/ \E d \in b.directories : inside(d, a) # {}

\* Every issue has at most one wave, after the waves of all it depends on, and
\* no two of a wave touch one thing; when no wave can follow, what is left over
\* is nothing exactly if some issues do not wait for one another in a circle:
\* the rule by which the compiler, on its own, refuses a plan.  The order of a
\* plan it does not refuse has every issue once and after its dependencies
\* (execution-waves.ts scheduleExecutionWaves, issue-compiler.ts findCycle,
\* topologicalOrder).
WavesRespectThePlan ==
    /\ \A n \in DOMAIN waves : \A k \in waves[n] :
        /\ \A m \in (DOMAIN waves) \ {n} : k \notin waves[m]
        /\ plan[k].needs \subseteq UNION {waves[m] : m \in 1 .. n - 1}
        /\ \A other \in waves[n] \ {k} : ~Touching(k, other)
    /\ ReadyKeys = {} => (remaining = {} <=> ~HasCycle)
    /\ ~HasCycle =>
        /\ Len(Order) = Cardinality(Key) /\ {Order[n] : n \in DOMAIN Order} = Key
        /\ \A n \in DOMAIN Order :
            plan[Order[n]].needs \subseteq {Order[m] : m \in 1 .. n - 1}
=============================================================================
