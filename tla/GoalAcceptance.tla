---------------------------- MODULE GoalAcceptance ----------------------------
(***************************************************************************)
(* The end of a Goal: acceptance verification plans, the verifier's        *)
(* verdicts, the gap reports of failed ones and the remediation plans made  *)
(* from them, delivery reports, and the acceptance that completes the goal. *)
(*                                                                         *)
(* Verdicts, verification plans and reports are numbered by the list a     *)
(* request read before it waited, and a unique index on goal and revision  *)
(* refuses the second of two that read the same list.                      *)
(***************************************************************************)
EXTENDS GoalPlanning

CONSTANTS
    Key,         \* idempotency keys
    MaxRemedied, \* bound: issue plan revisions, for remediations
    MaxVplans,   \* bound: acceptance verification plans
    MaxVerdicts, \* bound: goal verifications
    MaxReports   \* bound: delivery report revisions

VARIABLES
    vplans,    \* acceptance_verification_plans
    verdicts,  \* goal_verifications
    gaps,      \* verification_gap_reports, by their verification
    receipts,  \* gap_remediation_receipts
    reports    \* delivery_reports

\* The rows: a verification plan, a verdict, a receipt, a report revision.
VplanRow == [plan : Nat \ {0}, goalVersion : Nat \ {0}, contract : Nat \ {0}]
VerdictRow == [vplan : Nat \ {0}, goalVersion : Nat \ {0}, passed : BOOLEAN,
               named : BOOLEAN]
ReceiptRow == [gap : Nat \ {0}, key : Key, plan : Nat \ {0}]
ReportRow == [verdict : Nat \ {0}, contract : Nat \ {0}, goalVersion : Nat \ {0},
              accepted : BOOLEAN]

acceptance == <<vplans, verdicts, gaps, receipts, reports>>
vars == <<planning, ops, acceptance>>

Init ==
    /\ PlanningInit
    /\ vplans = <<>> /\ verdicts = <<>> /\ gaps = {} /\ receipts = {} /\ reports = <<>>

-----------------------------------------------------------------------------
\* AcceptanceVerificationPlanService.compile, of the newest issue plan.
StartCompile(h) ==
    /\ plans # <<>> /\ Begin(h, "compile", [plan |-> Len(plans)])
    /\ UNCHANGED <<planning, acceptance>>

\* compileAcceptanceVerificationPlan: one entry for each criterion of the goal.
Compilation(plan) ==
    [plan |-> plan, goalVersion |-> goal.version, contract |-> goal.contract]
CompileGoal(h) ==
    /\ Doing(h, "compile") /\ goal.status = "verifying"
    /\ Become(h, "compiling", Compilation(Arg(h).plan))
    /\ UNCHANGED <<planning, acceptance>>

CompilePlans(h) ==
    /\ Doing(h, "compiling") /\ plans[Arg(h).plan].status = "approved"
    /\ Become(h, "compiled", [row |-> Arg(h), after |-> Len(vplans)])
    /\ UNCHANGED <<planning, acceptance>>

AppendVplan(h) ==
    /\ Doing(h, "compiled") /\ Len(vplans) = Arg(h).after /\ Len(vplans) < MaxVplans
    /\ vplans' = Append(vplans, Arg(h).row)
    /\ Finish(h)
    /\ UNCHANGED <<planning, verdicts, gaps, receipts, reports>>
-----------------------------------------------------------------------------
\* GoalVerificationService.verify: the newest verification plan, the goal and
\* the issue plan it was compiled for, then the verdicts so far.
\* Mutant of Current: the goal version of the verification plan is not compared.
CurrentMutant(v) ==
    /\ goal.status = "verifying"
    /\ v.plan = Len(plans) /\ Newest(plans).status = "approved"
Current(v) ==
    /\ goal.status = "verifying" /\ goal.version = v.goalVersion
    /\ v.plan = Len(plans) /\ Newest(plans).status = "approved"
StartVerify(h) ==
    /\ vplans # <<>> /\ Current(Newest(vplans))
    /\ Begin(h, "verify", [vplan |-> Len(vplans), goalVersion |-> goal.version])
    /\ UNCHANGED <<planning, acceptance>>

VerifyReads(h) ==
    /\ Doing(h, "verify") /\ Become(h, "session", [row |-> Arg(h), after |-> Len(verdicts)])
    /\ UNCHANGED <<planning, acceptance>>

\* What the verifier says in the end, and the worst it says of the criteria, the
\* non-goals and the constraints, none of which it may leave out.
Finding == {"passed", "failed", "needs_manual"}
VerifierOutput == [overall : Finding, sections : Finding]
\* derivedVerdict, with the worst result of the commands and the signed evidence.
Derived(result, output) ==
    LET found == {result, output.overall, output.sections} IN
    CASE "failed" \in found -> "failed"
      [] "failed" \notin found /\ "needs_manual" \in found -> "needs_manual"
      [] OTHER -> "passed"
\* named: the verdict can tell what is amiss.  (It cannot if a command failed, or
\* the verifier is not content, and yet every section is in order.)
NewVerdict(h, result, output) ==
    [vplan |-> Arg(h).row.vplan, goalVersion |-> Arg(h).row.goalVersion,
     passed |-> Derived(result, output) = "passed", named |-> output.sections # "passed"]
\* The commands and the verifier session are over; the revision is unique.
AppendVerdict(h, result, output) ==
    /\ Doing(h, "session") /\ Len(verdicts) = Arg(h).after /\ Len(verdicts) < MaxVerdicts
    /\ verdicts' = Append(verdicts, NewVerdict(h, result, output))
    /\ Finish(h)
    /\ UNCHANGED <<planning, vplans, gaps, receipts, reports>>

\* VerificationGapService.create, for the newest verdict; one report for each.
Failed(verdict) == ~verdict.passed
NamesAGap(verdict) == verdict.named
GapRow == {v \in 1 .. Len(verdicts) : Failed(verdicts[v]) /\ NamesAGap(verdicts[v])}
StartGap(h) ==
    /\ verdicts # <<>> /\ Len(verdicts) \in GapRow \ gaps
    /\ Begin(h, "gap", [verdict |-> Len(verdicts)])
    /\ UNCHANGED <<planning, acceptance>>
AppendGap(h) ==
    /\ Doing(h, "gap") /\ gaps' = gaps \cup {Arg(h).verdict} /\ Finish(h)
    /\ UNCHANGED <<planning, vplans, verdicts, receipts, reports>>
-----------------------------------------------------------------------------
\* VerificationGapService.confirm, through the remediation adapter.
SourceOf(g) == vplans[verdicts[g].vplan].plan
Receipted(g, key) == \E r \in receipts : r.gap = g /\ r.key = key

StartRemedy(h, g, key) ==
    /\ ~Receipted(g, key)
    /\ Begin(h, "remedy", [gap |-> g, key |-> key])
    /\ UNCHANGED <<planning, acceptance>>

\* The remediation of an earlier request for the same report.
Recovers(g) == Newest(plans).base = SourceOf(g) /\ Newest(plans).run = g
\* Mutant of Confirmed: the revision the plan follows is not compared.
ConfirmedMutant(plan, g) == plan.status = "draft" /\ plan.valid
Confirmed(plan, g) == plan.base = SourceOf(g) /\ plan.status = "draft" /\ plan.valid
\* confirm goes on with the plan the adapter returned, or throws.
GoOnWith(h, plan, n) ==
    IF Confirmed(plan, Arg(h).gap)
    THEN Become(h, "receipt", [gap |-> Arg(h).gap, key |-> Arg(h).key, plan |-> n])
    ELSE Finish(h)

\* createDraft of the adapter reads the newest plan ...
RemedyLook(h) ==
    /\ Doing(h, "remedy")
    /\ IF Recovers(Arg(h).gap) THEN GoOnWith(h, Newest(plans), Len(plans))
       ELSE IF Len(plans) = SourceOf(Arg(h).gap) THEN Become(h, "redraft", Arg(h))
       ELSE Finish(h)
    /\ UNCHANGED <<planning, acceptance>>
\* ... and createDraft of the service reads it again.
RemedyDraft(h) ==
    /\ Doing(h, "redraft")
    /\ LET source == plans[SourceOf(Arg(h).gap)] IN
       \E issues \in IssuePlanDraft :
         Become(h, "reappend",
                [gap |-> Arg(h).gap, key |-> Arg(h).key,
                 draft |-> Draft(source.spec, source.contract, Arg(h).gap, issues)])
    /\ UNCHANGED <<planning, acceptance>>
RemedyAppend(h) ==
    /\ Doing(h, "reappend") /\ Len(plans) < MaxRemedied
    /\ LET d == Arg(h).draft IN
       IF StillNewest(d.base)
       THEN AppendRow(d) /\ GoOnWith(h, Newest(plans'), Len(plans'))
       ELSE Become(h, "raced", [gap |-> Arg(h).gap, key |-> Arg(h).key]) /\ UNCHANGED plans
    /\ UNCHANGED <<goal, specs, acceptance>>
\* Another revision came first: it may be this report's.
RemedyRaced(h) ==
    /\ Doing(h, "raced")
    /\ IF Recovers(Arg(h).gap) THEN GoOnWith(h, Newest(plans), Len(plans)) ELSE Finish(h)
    /\ UNCHANGED <<planning, acceptance>>

SaveReceipt(h) ==
    /\ Doing(h, "receipt")
    /\ receipts' = IF Receipted(Arg(h).gap, Arg(h).key) THEN receipts
                   ELSE receipts \cup {Arg(h)}
    /\ Finish(h)
    /\ UNCHANGED <<planning, vplans, verdicts, gaps, reports>>
-----------------------------------------------------------------------------
\* DeliveryReportService.generate, for the newest verdict: the sources, the
\* reports so far, the goal again, the new revision.
StartReport(h) ==
    /\ verdicts # <<>> /\ Newest(verdicts).passed /\ Newest(verdicts).vplan = Len(vplans)
    /\ goal.status = "verifying" /\ goal.version = Newest(verdicts).goalVersion
    /\ Begin(h, "report", [verdict |-> Len(verdicts), contract |-> goal.contract,
                           goalVersion |-> goal.version, accepted |-> FALSE])
    /\ UNCHANGED <<planning, acceptance>>

ReportReads(h) ==
    /\ Doing(h, "report") /\ Become(h, "synchronize", [row |-> Arg(h), after |-> Len(reports)])
    /\ UNCHANGED <<planning, acceptance>>

Synchronized(version) == goal.version = version
SynchronizeGoal(h) ==
    /\ Doing(h, "synchronize") /\ Synchronized(Arg(h).row.goalVersion)
    /\ Become(h, "publish", Arg(h))
    /\ UNCHANGED <<planning, acceptance>>

AppendReport(h) ==
    /\ Doing(h, "publish") /\ Len(reports) = Arg(h).after /\ Len(reports) < MaxReports
    /\ reports' = Append(reports, Arg(h).row)
    /\ Finish(h)
    /\ UNCHANGED <<planning, vplans, verdicts, gaps, receipts>>

\* accept: the newest report, the goal, then a transaction that locks the
\* newest report it sees and the goal, and looks at both again.
StartAccept(h) ==
    /\ reports # <<>> /\ ~Newest(reports).accepted
    /\ Begin(h, "accept", [report |-> Len(reports)])
    /\ UNCHANGED <<planning, acceptance>>

AcceptGoal(h) ==
    /\ Doing(h, "accept") /\ goal.status = "verifying"
    /\ Become(h, "accepting", [report |-> Arg(h).report, version |-> goal.version])
    /\ UNCHANGED <<planning, acceptance>>

AcceptSnapshot(h) ==
    /\ Doing(h, "accepting") /\ Len(reports) = Arg(h).report
    /\ Become(h, "completing", Arg(h))
    /\ UNCHANGED <<planning, acceptance>>

StillVerifying(version) == goal.status = "verifying" /\ goal.version = version
AcceptCommit(h) ==
    /\ Doing(h, "completing") /\ Len(reports) < MaxReports
    /\ StillVerifying(Arg(h).version) /\ Len(reports) = Arg(h).report
    /\ reports' = Append(reports, [Newest(reports) EXCEPT !.accepted = TRUE])
    /\ goal' = [goal EXCEPT !.status = "completed", !.version = @ + 1]
    /\ Finish(h)
    /\ UNCHANGED <<specs, plans, vplans, verdicts, gaps, receipts>>
-----------------------------------------------------------------------------
AcceptanceStep(h) ==
    \/ StartCompile(h) \/ CompileGoal(h) \/ CompilePlans(h) \/ AppendVplan(h)
    \/ StartVerify(h) \/ VerifyReads(h)
    \/ \E result \in Finding, output \in VerifierOutput : AppendVerdict(h, result, output)
    \/ StartGap(h) \/ AppendGap(h)
    \/ \E g \in gaps, k \in Key : StartRemedy(h, g, k)
    \/ RemedyLook(h) \/ RemedyDraft(h) \/ RemedyAppend(h) \/ RemedyRaced(h) \/ SaveReceipt(h)
    \/ StartReport(h) \/ ReportReads(h) \/ SynchronizeGoal(h) \/ AppendReport(h)
    \/ StartAccept(h) \/ AcceptGoal(h) \/ AcceptSnapshot(h) \/ AcceptCommit(h)

Next ==
    \/ (GoalStep \/ SpecStep \/ \E h \in Handler : PlanningStep(h)) /\ UNCHANGED acceptance
    \/ \E h \in Handler : AcceptanceStep(h)

Spec == Init /\ [][Next]_vars
-----------------------------------------------------------------------------
(* Rows stay in their domains and refer to rows that exist; a gap report is *)
(* for a verdict that failed.                                               *)
TypeOK ==
    /\ goal \in GoalRow /\ specs \in Seq(SpecRow) /\ plans \in Seq(PlanRow)
    /\ vplans \in Seq(VplanRow) /\ \A v \in 1 .. Len(vplans) : vplans[v].plan <= Len(plans)
    /\ verdicts \in Seq(VerdictRow)
    /\ \A v \in 1 .. Len(verdicts) : verdicts[v].vplan <= Len(vplans)
    /\ gaps \subseteq GapRow
    /\ receipts \subseteq ReceiptRow /\ \A r \in receipts : r.gap \in gaps
    /\ reports \in Seq(ReportRow)

(* Every receipt for a gap report names one plan, and that plan is the      *)
(* revision right after the one that failed, however many people confirm    *)
(* the remediation at once or again (confirm and the adapter's recovery).   *)
ReceiptsNameOnePlan ==
    /\ TypeOK
    /\ \A r \in receipts :
        /\ plans[r.plan].base = SourceOf(r.gap) /\ plans[r.plan].run = r.gap
        /\ \A q \in receipts : q.gap = r.gap => q.plan = r.plan

(* What a delivery report shows was verified: a verdict that passed, by a   *)
(* verification plan compiled for the very contract the report prints and   *)
(* for an approved issue plan, although the goal can be edited at any time  *)
(* between compiling, verifying and reporting (verify, generate).  And an   *)
(* accepted report is the last word: no request that gathered its sources   *)
(* before the acceptance adds a revision after it (synchronizeGoal).        *)
ReportsWereVerified ==
    \A r \in 1 .. Len(reports) :
        LET verdict == verdicts[reports[r].verdict]
            vplan == vplans[verdict.vplan]
        IN  /\ reports[r].accepted => r = Len(reports)
            /\ verdict.passed /\ vplan.contract = reports[r].contract
            /\ plans[vplan.plan].status = "approved"
=============================================================================
