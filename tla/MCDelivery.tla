------------------------------- MODULE MCDelivery -------------------------------
(* Instances of GitDelivery for TLC.                                        *)
EXTENDS GitDelivery, TLC

CONSTANTS h1, h2, k1, k2

\* One key is enough to repeat a checkpoint or a landing; two let a second
\* deliver start with a key of its own.
MCKeys == [checkpoint |-> {k1}, deliver |-> {k1, k2}, land |-> {k1}]
=============================================================================
