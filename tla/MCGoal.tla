--------------------------------- MODULE MCGoal ---------------------------------
(* Instances of GoalAcceptance for TLC.                                     *)
EXTENDS GoalAcceptance

CONSTANTS h1, h2, k1, k2

\* Neither the handlers nor the keys differ in anything.
GoalSymmetry == Permutations(Handler) \cup Permutations(Key)
=============================================================================
