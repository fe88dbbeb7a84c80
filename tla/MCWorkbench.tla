---------------------------- MODULE MCWorkbench ----------------------------
(* An instance of Workbench for TLC: mixtures of what may happen.          *)
EXTENDS Workbench, TLC

CONSTANTS p1, p2

NoCommand == [p \in Project |-> 0]
Upto(m, n) == {f \in [Project -> 0 .. 2] : f[p1] <= m /\ f[p2] <= n}
Together(n) == {f \in [Project -> 0 .. n] : f[p1] + f[p2] <= n}

Mixture(changes, commands, replays, failures, lost) ==
    [changes : changes, commands : commands, replays : 0 .. replays,
     failures : 0 .. failures, lost : 0 .. lost]

\* Each kind of fault once about one commit; one fault about two commits; two
\* commands about the commits of one project, and two beside a replay.
MCAffordable ==
    Mixture(Together(1), {NoCommand}, 1, 1, 1)
    \cup Mixture(Together(2), {NoCommand}, 0, 1, 0)
    \cup Mixture(Together(2), {NoCommand}, 0, 0, 1)
    \cup Mixture(Upto(2, 0), Upto(2, 0), 0, 1, 0)
    \cup Mixture(Upto(1, 0), Upto(2, 0), 1, 0, 0)
=============================================================================
