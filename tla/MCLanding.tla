------------------------------ MODULE MCLanding ------------------------------
(* Instances of LandingLane for TLC.                                        *)
EXTENDS LandingLane, TLC

CONSTANTS r1, r2, t1, s1, s2

\* Two attempts at one task.
SameTask == [r \in Run |-> t1]

\* The processes do not differ in anything.
SupervisorSymmetry == Permutations(Supervisor)
=============================================================================
