------------------------------ MODULE Services ------------------------------
(***************************************************************************)
(* The services of the control plane that share no row with one another:    *)
(* roles and control commands, sign-in, projection and admission, artifacts *)
(* and reviews, clarifications, and the waves of a plan.                    *)
(*                                                                         *)
(* A step of one neither enables nor disturbs a step of another, so that a  *)
(* behaviour is followed for one of them at a time: "part" says which.      *)
(***************************************************************************)
EXTENDS Access, SignIn, Admission, Evidence, Clarification, IssueWaves

CONSTANT Part    \* the services that are followed

VARIABLE part

vars == <<accessVars, signInVars, admissionVars, evidenceVars,
          clarificationVars, waveVars, part>>

Init ==
    /\ part \in Part
    /\ AccessInit /\ SignInInit /\ AdmissionInit /\ EvidenceInit
    /\ ClarificationInit
    /\ IF part = "waves" THEN WavesInit ELSE WavesPlaced

AccessStep ==
    /\ part = "access" /\ AccessNext
    /\ UNCHANGED <<signInVars, admissionVars, evidenceVars, clarificationVars,
                   waveVars, part>>

SignInStep ==
    /\ part = "signIn" /\ SignInNext
    /\ UNCHANGED <<accessVars, admissionVars, evidenceVars, clarificationVars,
                   waveVars, part>>

AdmissionStep ==
    /\ part = "admission" /\ AdmissionNext
    /\ UNCHANGED <<accessVars, signInVars, evidenceVars, clarificationVars,
                   waveVars, part>>

EvidenceStep ==
    /\ part = "evidence" /\ EvidenceNext
    /\ UNCHANGED <<accessVars, signInVars, admissionVars, clarificationVars,
                   waveVars, part>>

ClarificationStep ==
    /\ part = "clarification" /\ ClarificationNext
    /\ UNCHANGED <<accessVars, signInVars, admissionVars, evidenceVars, waveVars,
                   part>>

WavesStep ==
    /\ part = "waves" /\ NextWave
    /\ UNCHANGED <<accessVars, signInVars, admissionVars, evidenceVars,
                   clarificationVars, part>>

Next == AccessStep \/ SignInStep \/ AdmissionStep \/ EvidenceStep
            \/ ClarificationStep \/ WavesStep

Spec == Init /\ [][Next]_vars
=============================================================================
