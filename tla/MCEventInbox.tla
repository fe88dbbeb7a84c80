--------------------------- MODULE MCEventInbox ---------------------------
(* Instances of EventInbox for TLC.                                         *)
EXTENDS EventInbox, TLC

CONSTANTS p1, p2, w1, w2

\* Neither the processes nor the writers differ in anything.
InboxSymmetry == Permutations(Poller) \cup Permutations(Writer)
PollerSymmetry == Permutations(Poller)
=============================================================================
