--------------------------- MODULE MCReleaseCenter ---------------------------
(* An instance of ReleaseCenter for TLC.                                    *)
EXTENDS ReleaseCenter, TLC

CONSTANTS h1, h2, g1, g2, ev1, ev2, e1

\* The handlers do not differ in anything.
ReleaseSymmetry == Permutations(Handler)
=============================================================================
