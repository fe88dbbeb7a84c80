---------------------------- MODULE MCWorkerPool ----------------------------
(* Instances of WorkerPool for TLC.                                         *)
EXTENDS WorkerPool

CONSTANTS w1, w2, w3, t1, t2, t3, p1, p2, codex, port

Projects == <<p1, p2>>
Codex == [w \in Worker |-> codex]
OneCall == [p \in Provider |-> 1]
NoDependency == [t \in Task |-> {}]

\* Two attempts at a task of one project and one at a task of another, which
\* needs the resource that a later declaration of the first needs too.
Attempts == (w1 :> t1) @@ (w2 :> t1) @@ (w3 :> t2)
Queues == (t1 :> p1) @@ (t2 :> p2)
Resources == [d \in Task \X (0 .. MaxSpec) |-> IF d = <<t1, 0>> THEN {} ELSE {port}]

\* Two tasks of one project, the second after the first, and one of another.
OwnTasks == (w1 :> t1) @@ (w2 :> t2) @@ (w3 :> t3)
ThreeQueues == (t1 :> p1) @@ (t2 :> p1) @@ (t3 :> p2)
AfterFirst == [t \in Task |-> IF t = t2 THEN {t1} ELSE {}]
=============================================================================
