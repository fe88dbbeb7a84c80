---------------------------- MODULE MCScheduler ----------------------------
(* Instances of Scheduler for TLC.                                          *)
EXTENDS SchedulerPromises, TLC

CONSTANTS j1, j2, n1, n2, s1, s2, p1

OneProject == [j \in Job |-> p1]
AtHome == [s \in Supervisor |-> n1]
Everywhere == [j \in Job |-> Node]
One == [n \in Node |-> 1]
Two == [n \in Node |-> 2]
DeadlineTwo == [j \in Job |-> 2]

\* Supervisors share the node and are interchangeable.
SupervisorSymmetry == Permutations(Supervisor)
JobSymmetry == Permutations(Job) \cup Permutations(Supervisor)
=============================================================================
