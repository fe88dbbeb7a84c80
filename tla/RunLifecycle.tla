---------------------------- MODULE RunLifecycle ----------------------------
(***************************************************************************)
(* What the rest of the control plane may rely on about a Run: its status  *)
(* moves along the allowed transitions only, and every move is published   *)
(* once, in order, in the same step.  One transaction may make two moves   *)
(* (an outcome that arrives for a queued Run starts it first).             *)
(***************************************************************************)
EXTENDS Sequences

CONSTANTS Run,   \* the Runs
          Moves  \* the allowed <<from, to>> pairs of statuses

VARIABLES status,    \* status of each Run
          published  \* the statuses published for each Run

Init ==
    /\ status = [r \in Run |-> "queued"]
    /\ published = [r \in Run |-> <<>>]

Move(r, to) ==
    /\ <<status[r], to>> \in Moves
    /\ status' = [status EXCEPT ![r] = to]
    /\ published' = [published EXCEPT ![r] = Append(@, to)]

MoveTwice(r, via, to) ==
    /\ {<<status[r], via>>, <<via, to>>} \subseteq Moves
    /\ status' = [status EXCEPT ![r] = to]
    /\ published' = [published EXCEPT ![r] = @ \o <<via, to>>]

Next ==
    \E r \in Run, m \in Moves : Move(r, m[2]) \/ MoveTwice(r, m[1], m[2])

Spec == Init /\ [][Next]_<<status, published>>
=============================================================================
