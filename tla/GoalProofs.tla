----------------------------- MODULE GoalProofs -----------------------------
(***************************************************************************)
(* Theorems about GoalAcceptance, for any number of requests, edits,       *)
(* revisions and keys.                                                     *)
(***************************************************************************)
EXTENDS GoalAcceptance, TLAPS

-----------------------------------------------------------------------------
(* What the rows say of each other.                                        *)

\* A plan is numbered by the revision it follows.
PlansGood ==
    /\ plans \in Seq(PlanRow)
    /\ \A p \in 1 .. Len(plans) : plans[p].spec <= Len(specs) /\ plans[p].base = p - 1

\* The contract a goal version stands for is that of the goal until it moves on.
ContractAt(row) ==
    /\ row.goalVersion <= goal.version
    /\ row.goalVersion = goal.version => row.contract = goal.contract
VplanGood(row) == row \in VplanRow /\ row.plan <= Len(plans) /\ ContractAt(row)
Approved(p) == plans[p].status = "approved"
VplansGood ==
    /\ vplans \in Seq(VplanRow)
    /\ \A v \in 1 .. Len(vplans) : VplanGood(vplans[v]) /\ Approved(vplans[v].plan)

\* A verdict was reached for the goal version of its verification plan.
OfVplan(row) ==
    /\ row.vplan \in 1 .. Len(vplans)
    /\ row.goalVersion = vplans[row.vplan].goalVersion
VerdictsGood ==
    /\ verdicts \in Seq(VerdictRow)
    /\ \A v \in 1 .. Len(verdicts) : OfVplan(verdicts[v])
    /\ gaps \subseteq GapRow

\* A receipt names the revision after the one that failed, drafted for its gap.
Remedies(row) ==
    /\ row \in ReceiptRow /\ row.gap \in gaps /\ row.plan <= Len(plans)
    /\ plans[row.plan].base = SourceOf(row.gap) /\ plans[row.plan].run = row.gap
ReceiptsGood == \A r \in receipts : Remedies(r)

\* What a report shows was verified; the accepted one is the last.
Shows(row) ==
    /\ row \in ReportRow /\ row.verdict <= Len(verdicts)
    /\ verdicts[row.verdict].passed
    /\ vplans[verdicts[row.verdict].vplan].contract = row.contract
AnyAccepted == \E r \in 1 .. Len(reports) : reports[r].accepted
ReportsGood ==
    /\ reports \in Seq(ReportRow)
    /\ \A r \in 1 .. Len(reports) : Shows(reports[r])
    /\ \A r \in 1 .. Len(reports) :
         reports[r].accepted => r = Len(reports) /\ goal.status = "completed"
-----------------------------------------------------------------------------
(* What a request has in hand, and may still rely on.                      *)
DraftGood(d) ==
    /\ d.spec \in 1 .. Len(specs) /\ d.contract \in Nat \ {0}
    /\ d.base \in Nat /\ d.run \in Nat /\ d.valid \in BOOLEAN
\* A report that was begun while the goal was being verified, in the version it
\* names: if the goal is still in that version, it is still being verified.
Reportable(row) ==
    /\ Shows(row) /\ ~row.accepted
    /\ row.goalVersion <= goal.version
    /\ row.goalVersion = goal.version => goal.status = "verifying"
\* The next report revision, unless another comes before it.
NextReport(after) ==
    /\ after \in Nat /\ after <= Len(reports)
    /\ AnyAccepted => after < Len(reports)
Remedying(arg) == arg.gap \in gaps /\ arg.key \in Key
OpGood(op) ==
    /\ op.kind \in {"generate", "planner"} => op.arg.contract \in Nat \ {0}
    /\ op.kind = "planner" => op.arg.spec \in 1 .. Len(specs)
    /\ op.kind = "append" => DraftGood(op.arg)
    /\ op.kind \in {"decide", "locked"} =>
         /\ op.arg.plan \in 1 .. Len(plans)
         /\ op.arg.decision \in {"approved", "rejected", "draft"}
    /\ op.kind = "compile" => op.arg.plan \in 1 .. Len(plans)
    /\ op.kind = "compiling" => VplanGood(op.arg)
    /\ op.kind = "compiled" => VplanGood(op.arg.row) /\ Approved(op.arg.row.plan)
    /\ op.kind = "verify" => OfVplan(op.arg)
    /\ op.kind = "session" => OfVplan(op.arg.row)
    /\ op.kind = "gap" => op.arg.verdict \in GapRow
    /\ op.kind \in {"remedy", "redraft", "reappend", "raced"} => Remedying(op.arg)
    /\ op.kind = "reappend" => DraftGood(op.arg.draft) /\ op.arg.draft.run = op.arg.gap
    /\ op.kind = "receipt" => Remedies(op.arg)
    /\ op.kind = "report" => Reportable(op.arg)
    /\ op.kind \in {"synchronize", "publish"} => Reportable(op.arg.row)
    /\ op.kind = "synchronize" => op.arg.after \in Nat /\ op.arg.after <= Len(reports)
    /\ op.kind = "publish" => NextReport(op.arg.after)
    /\ op.kind \in {"accept", "accepting", "completing"} => op.arg.report \in Nat \ {0}
OpsGood == DOMAIN ops = Handler /\ \A h \in Handler : OpGood(ops[h])

GoalInv ==
    /\ goal \in GoalRow /\ specs \in Seq(SpecRow)
    /\ PlansGood /\ VplansGood /\ VerdictsGood /\ ReceiptsGood /\ ReportsGood
    /\ OpsGood
-----------------------------------------------------------------------------
(* What every step does to the tables: rows are only added, what a row says *)
(* of others stays, and so does an approval; the goal moves on or stays.    *)
GoalMoves ==
    /\ goal' \in GoalRow /\ goal.version <= goal'.version
    /\ goal'.version = goal.version => goal' = goal
    /\ goal.status = "completed" => goal'.status = "completed"
PlansGrow ==
    /\ plans' \in Seq(PlanRow) /\ Len(plans) <= Len(plans')
    /\ \A p \in 1 .. Len(plans) :
         /\ plans'[p].base = plans[p].base /\ plans'[p].run = plans[p].run
         /\ plans'[p].spec = plans[p].spec
         /\ Approved(p) => plans'[p].status = "approved"
Grew ==
    /\ GoalMoves /\ PlansGrow
    /\ specs' \in Seq(SpecRow) /\ Len(specs) <= Len(specs')
    /\ vplans' \in Seq(VplanRow) /\ Len(vplans) <= Len(vplans')
    /\ \A v \in 1 .. Len(vplans) : vplans'[v] = vplans[v]
    /\ verdicts' \in Seq(VerdictRow) /\ Len(verdicts) <= Len(verdicts')
    /\ \A v \in 1 .. Len(verdicts) : verdicts'[v] = verdicts[v]
    /\ gaps \subseteq gaps'
    /\ reports' \in Seq(ReportRow) /\ (reports' = reports \/ Len(reports) < Len(reports'))

LEMMA Lengths ==
    ASSUME GoalInv
    PROVE  /\ Len(specs) \in Nat /\ Len(plans) \in Nat /\ Len(vplans) \in Nat
           /\ Len(verdicts) \in Nat /\ Len(reports) \in Nat
           /\ goal.version \in Nat
BY DEF GoalInv, PlansGood, VplansGood, VerdictsGood, ReportsGood, GoalRow

LEMMA LengthsAfter ==
    ASSUME Grew
    PROVE  /\ Len(specs') \in Nat /\ Len(plans') \in Nat /\ Len(vplans') \in Nat
           /\ Len(verdicts') \in Nat /\ Len(reports') \in Nat
           /\ goal'.version \in Nat
BY DEF Grew, GoalMoves, PlansGrow, GoalRow

\* The chain from a gap report to the plan its verdict was about.
LEMMA Chain ==
    ASSUME GoalInv, NEW g \in gaps
    PROVE  /\ g \in 1 .. Len(verdicts) /\ verdicts[g].vplan \in 1 .. Len(vplans)
           /\ SourceOf(g) \in 1 .. Len(plans)
<1>1. g \in 1 .. Len(verdicts)
  BY DEF GoalInv, VerdictsGood, GapRow
<1>2. verdicts[g].vplan \in 1 .. Len(vplans)
  BY <1>1 DEF GoalInv, VerdictsGood, OfVplan
<1>3. SourceOf(g) \in 1 .. Len(plans)
  <2>1. VplanGood(vplans[verdicts[g].vplan])
    BY <1>2 DEF GoalInv, VplansGood
  <2> QED
    BY <2>1, Lengths DEF VplanGood, VplanRow, SourceOf
<1> QED
  BY <1>1, <1>2, <1>3

LEMMA SourceKept ==
    ASSUME GoalInv, Grew, NEW g \in gaps
    PROVE  SourceOf(g)' = SourceOf(g)
<1>1. g \in 1 .. Len(verdicts) /\ verdicts[g].vplan \in 1 .. Len(vplans)
  BY Chain
<1>2. verdicts'[g] = verdicts[g]
  BY <1>1 DEF Grew
<1>3. vplans'[verdicts[g].vplan] = vplans[verdicts[g].vplan]
  BY <1>1 DEF Grew
<1> QED
  BY <1>2, <1>3 DEF SourceOf

LEMMA GapRowGrows ==
    ASSUME GoalInv, Grew
    PROVE  GapRow \subseteq GapRow'
BY Lengths, LengthsAfter DEF Grew, GapRow, Failed, NamesAGap

LEMMA ApprovedKept ==
    ASSUME GoalInv, Grew, NEW p \in 1 .. Len(plans), Approved(p)
    PROVE  Approved(p)'
BY DEF Grew, PlansGrow, Approved

LEMMA VplanKept ==
    ASSUME GoalInv, Grew, NEW row, VplanGood(row)
    PROVE  VplanGood(row)'
<1>1. row \in VplanRow /\ row.plan \in Nat /\ row.goalVersion \in Nat
  BY DEF VplanGood, VplanRow
<1>2. row.plan <= Len(plans')
  BY <1>1, Lengths, LengthsAfter DEF Grew, PlansGrow, VplanGood
<1>3. ContractAt(row)'
  BY <1>1, Lengths, LengthsAfter DEF Grew, GoalMoves, VplanGood, ContractAt
<1> QED
  BY <1>1, <1>2, <1>3 DEF VplanGood

LEMMA OfVplanKept ==
    ASSUME GoalInv, Grew, NEW row, OfVplan(row)
    PROVE  OfVplan(row)'
BY Lengths, LengthsAfter DEF Grew, OfVplan

LEMMA RemediesKept ==
    ASSUME GoalInv, Grew, NEW row, Remedies(row)
    PROVE  Remedies(row)'
<1>1. row.gap \in gaps /\ row.plan \in 1 .. Len(plans)
  BY Lengths DEF Remedies, ReceiptRow
<1>2. SourceOf(row.gap)' = SourceOf(row.gap)
  BY <1>1, SourceKept
<1>3. plans'[row.plan].base = plans[row.plan].base /\ plans'[row.plan].run = plans[row.plan].run
  BY <1>1 DEF Grew, PlansGrow
<1>4. row.plan <= Len(plans')
  BY <1>1, Lengths, LengthsAfter DEF Grew, PlansGrow
<1> QED
  BY <1>1, <1>2, <1>3, <1>4 DEF Remedies, Grew

LEMMA ShowsKept ==
    ASSUME GoalInv, Grew, NEW row, Shows(row)
    PROVE  Shows(row)'
<1>1. row.verdict \in 1 .. Len(verdicts)
  BY Lengths DEF Shows, ReportRow
<1>2. verdicts'[row.verdict] = verdicts[row.verdict]
  BY <1>1 DEF Grew
<1>3. verdicts[row.verdict].vplan \in 1 .. Len(vplans)
  BY <1>1 DEF GoalInv, VerdictsGood, OfVplan
<1>4. vplans'[verdicts[row.verdict].vplan] = vplans[verdicts[row.verdict].vplan]
  BY <1>3 DEF Grew
<1>5. row.verdict <= Len(verdicts')
  BY <1>1, Lengths, LengthsAfter DEF Grew
<1> QED
  BY <1>2, <1>4, <1>5 DEF Shows

LEMMA ReportableKept ==
    ASSUME GoalInv, Grew, NEW row, Reportable(row)
    PROVE  Reportable(row)'
<1>1. row.goalVersion \in Nat
  BY DEF Reportable, Shows, ReportRow
<1>2. Shows(row)'
  BY ShowsKept DEF Reportable
<1> QED
  BY <1>1, <1>2, Lengths, LengthsAfter DEF Reportable, Grew, GoalMoves

LEMMA NextReportKept ==
    ASSUME GoalInv, Grew, NEW after, NextReport(after)
    PROVE  NextReport(after)'
<1>1. CASE reports' = reports
  BY <1>1 DEF NextReport, AnyAccepted
<1>2. CASE Len(reports) < Len(reports')
  BY <1>2, Lengths, LengthsAfter DEF NextReport
<1> QED
  BY <1>1, <1>2 DEF Grew

LEMMA DraftKept ==
    ASSUME GoalInv, Grew, NEW d, DraftGood(d)
    PROVE  DraftGood(d)'
BY Lengths, LengthsAfter DEF Grew, DraftGood

\* What a request has in hand is as good after the step of another.
LEMMA OpKept ==
    ASSUME GoalInv, Grew, NEW op, OpGood(op)
    PROVE  OpGood(op)'
<1>1. Len(specs) <= Len(specs') /\ Len(plans) <= Len(plans') /\ Len(reports) <= Len(reports')
  BY Lengths, LengthsAfter DEF Grew, PlansGrow
<1>2. \A n : /\ n \in 1 .. Len(specs) => n \in 1 .. Len(specs')
             /\ n \in 1 .. Len(plans) => n \in 1 .. Len(plans')
             /\ n \in Nat /\ n <= Len(reports) => n <= Len(reports')
  BY <1>1, Lengths, LengthsAfter
<1>3. op.kind = "append" => DraftGood(op.arg)'
  BY DraftKept DEF OpGood
<1>4. op.kind = "reappend" => DraftGood(op.arg.draft)' /\ op.arg.draft.run = op.arg.gap
  BY DraftKept DEF OpGood
<1>5. op.kind = "compiling" => VplanGood(op.arg)'
  BY VplanKept DEF OpGood
<1>6. op.kind = "compiled" => VplanGood(op.arg.row)' /\ Approved(op.arg.row.plan)'
  <2> SUFFICES ASSUME op.kind = "compiled"
               PROVE  VplanGood(op.arg.row)' /\ Approved(op.arg.row.plan)'
    OBVIOUS
  <2>1. VplanGood(op.arg.row) /\ Approved(op.arg.row.plan)
    BY DEF OpGood
  <2>2. op.arg.row.plan \in 1 .. Len(plans)
    BY <2>1, Lengths DEF VplanGood, VplanRow
  <2> QED
    BY <2>1, <2>2, VplanKept, ApprovedKept
<1>7. /\ op.kind = "verify" => OfVplan(op.arg)'
      /\ op.kind = "session" => OfVplan(op.arg.row)'
  BY OfVplanKept DEF OpGood
<1>8. op.kind = "gap" => op.arg.verdict \in GapRow'
  BY GapRowGrows DEF OpGood
<1>9. op.kind \in {"remedy", "redraft", "reappend", "raced"} => Remedying(op.arg)'
  BY DEF OpGood, Remedying, Grew
<1>10. op.kind = "receipt" => Remedies(op.arg)'
  BY RemediesKept DEF OpGood
<1>11. /\ op.kind = "report" => Reportable(op.arg)'
       /\ op.kind \in {"synchronize", "publish"} => Reportable(op.arg.row)'
  BY ReportableKept DEF OpGood
<1>12. op.kind = "publish" => NextReport(op.arg.after)'
  BY NextReportKept DEF OpGood
<1>13. /\ op.kind \in {"generate", "planner"} => op.arg.contract \in Nat \ {0}
       /\ op.kind = "planner" => op.arg.spec \in 1 .. Len(specs')
       /\ op.kind \in {"decide", "locked"} =>
            op.arg.plan \in 1 .. Len(plans') /\ op.arg.decision \in {"approved", "rejected", "draft"}
       /\ op.kind = "compile" => op.arg.plan \in 1 .. Len(plans')
       /\ op.kind = "synchronize" => op.arg.after \in Nat /\ op.arg.after <= Len(reports')
       /\ op.kind \in {"accept", "accepting", "completing"} => op.arg.report \in Nat \ {0}
  BY <1>2 DEF OpGood
<1> QED
  BY <1>3, <1>4, <1>5, <1>6, <1>7, <1>8, <1>9, <1>10, <1>11, <1>12, <1>13 DEF OpGood
-----------------------------------------------------------------------------
(* The tables a step leaves alone, and the requests it leaves waiting.      *)
LEMMA PlansStill ==
    ASSUME GoalInv, Grew, UNCHANGED plans
    PROVE  PlansGood'
<1>1. \A p \in 1 .. Len(plans) : plans[p].spec \in Nat /\ plans[p].spec <= Len(specs)
  <2> TAKE p \in 1 .. Len(plans)
  <2>1. plans[p] \in PlanRow /\ plans[p].spec <= Len(specs)
    BY DEF GoalInv, PlansGood
  <2> QED
    BY <2>1 DEF PlanRow
<1> QED
  BY <1>1, Lengths, LengthsAfter DEF GoalInv, PlansGood, Grew

LEMMA VplansStill ==
    ASSUME GoalInv, Grew, UNCHANGED vplans
    PROVE  VplansGood'
<1> SUFFICES ASSUME NEW v \in 1 .. Len(vplans)
             PROVE  VplanGood(vplans[v])' /\ Approved(vplans[v].plan)'
  BY DEF GoalInv, VplansGood
<1>1. PICK row : row = vplans[v]
  OBVIOUS
<1>2. VplanGood(row) /\ Approved(row.plan) /\ row.plan \in 1 .. Len(plans)
  BY <1>1, Lengths DEF GoalInv, VplansGood, VplanGood, VplanRow
<1>3. VplanGood(row)' /\ Approved(row.plan)'
  BY <1>2, VplanKept, ApprovedKept
<1> QED
  BY <1>1, <1>3 DEF VplanGood, Approved, ContractAt

LEMMA VerdictsStill ==
    ASSUME GoalInv, Grew, UNCHANGED <<verdicts, gaps>>
    PROVE  VerdictsGood'
<1>1. ASSUME NEW v \in 1 .. Len(verdicts)
      PROVE  OfVplan(verdicts[v])'
  <2>1. PICK row : row = verdicts[v]
    OBVIOUS
  <2>2. OfVplan(row)
    BY <2>1 DEF GoalInv, VerdictsGood
  <2>3. OfVplan(row)'
    BY <2>2, OfVplanKept
  <2> QED
    BY <2>1, <2>3 DEF OfVplan
<1>2. gaps' \subseteq GapRow'
  BY GapRowGrows DEF GoalInv, VerdictsGood
<1> QED
  BY <1>1, <1>2 DEF GoalInv, VerdictsGood

LEMMA ReceiptsStill ==
    ASSUME GoalInv, Grew, UNCHANGED receipts
    PROVE  ReceiptsGood'
BY RemediesKept DEF GoalInv, ReceiptsGood

LEMMA ReportsStill ==
    ASSUME GoalInv, Grew, UNCHANGED reports
    PROVE  ReportsGood'
<1>1. ASSUME NEW r \in 1 .. Len(reports)
      PROVE  Shows(reports[r])'
  <2>1. PICK row : row = reports[r]
    OBVIOUS
  <2>2. Shows(row)
    BY <2>1 DEF GoalInv, ReportsGood
  <2>3. Shows(row)'
    BY <2>2, ShowsKept
  <2> QED
    BY <2>1, <2>3 DEF Shows
<1>2. goal.status = "completed" => goal'.status = "completed"
  BY DEF Grew, GoalMoves
<1> QED
  BY <1>1, <1>2 DEF GoalInv, ReportsGood

LEMMA OpsKept ==
    ASSUME GoalInv, Grew, NEW h \in Handler, NEW new, OpGood(new)',
           ops' = [ops EXCEPT ![h] = new]
    PROVE  OpsGood'
<1>1. DOMAIN ops' = Handler
  BY DEF GoalInv, OpsGood
<1>2. ASSUME NEW g \in Handler
      PROVE  OpGood(ops[g])'
  <2>1. PICK op : op = ops'[g]
    OBVIOUS
  <2>2. op = new \/ op = ops[g]
    BY <2>1 DEF GoalInv, OpsGood
  <2>3. OpGood(ops[g])
    BY DEF GoalInv, OpsGood
  <2>4. OpGood(op)'
    <3>1. CASE op = new
      BY <3>1
    <3>2. CASE op = ops[g]
      <4>1. OpGood(op)
        BY <2>3, <3>2
      <4> QED
        BY <4>1, OpKept
    <3> QED
      BY <2>2, <3>1, <3>2
  <2> QED
    BY <2>1, <2>4 DEF OpGood
<1> QED
  BY <1>1, <1>2 DEF OpsGood

LEMMA OpsStill ==
    ASSUME GoalInv, Grew, UNCHANGED ops
    PROVE  OpsGood'
<1>1. ASSUME NEW g \in Handler
      PROVE  OpGood(ops[g])'
  <2>1. PICK op : op = ops[g]
    OBVIOUS
  <2>2. OpGood(op)'
    BY <2>1, OpKept DEF GoalInv, OpsGood
  <2> QED
    BY <2>1, <2>2 DEF OpGood
<1> QED
  BY <1>1 DEF GoalInv, OpsGood

LEMMA IdleGood == OpGood(Idle)'
BY DEF OpGood, Idle

LEMMA QuietGrew ==
    ASSUME GoalInv, UNCHANGED <<planning, acceptance>>
    PROVE  Grew
BY Lengths
DEF GoalInv, planning, acceptance, Grew, GoalMoves, PlansGrow, PlansGood, VplansGood,
    VerdictsGood, ReportsGood, Approved

\* A step that touches no table.
LEMMA QuietStep ==
    ASSUME GoalInv, UNCHANGED <<planning, acceptance>>, NEW h \in Handler, NEW new,
           OpGood(new), ops' = [ops EXCEPT ![h] = new]
    PROVE  GoalInv'
<1>1. Grew
  BY QuietGrew
<1>2. OpGood(new)'
  BY <1>1, OpKept
<1> QED
  BY <1>1, <1>2, PlansStill, VplansStill, VerdictsStill, ReceiptsStill, ReportsStill, OpsKept
  DEF GoalInv, planning, acceptance

LEMMA QuietFinish ==
    ASSUME GoalInv, UNCHANGED <<planning, acceptance>>, NEW h \in Handler, Finish(h)
    PROVE  GoalInv'
BY QuietStep DEF Finish, OpGood, Idle

LEMMA QuietBecome ==
    ASSUME GoalInv, UNCHANGED <<planning, acceptance>>, NEW h \in Handler, NEW kind, NEW arg,
           Become(h, kind, arg), OpGood([kind |-> kind, arg |-> arg])
    PROVE  GoalInv'
BY QuietStep DEF Become
-----------------------------------------------------------------------------
(* Steps that touch no table: what a request takes in hand.                 *)
LEMMA PlanningReads ==
    ASSUME GoalInv, NEW h \in Handler,
           \/ ReadContract(h) \/ ReadSpec(h) \/ Planned(h) \/ RevisePlan(h)
           \/ \E d \in {"approved", "rejected", "draft"} : StartDecision(h, d)
           \/ DecisionSnapshot(h) \/ Abandon(h),
           UNCHANGED acceptance
    PROVE  GoalInv'
<1>1. OpGood(ops[h])
  BY DEF GoalInv, OpsGood
<1>2. CASE ReadContract(h)
  <2>1. goal.contract \in Nat \ {0}
    BY DEF GoalInv, GoalRow
  <2>2. OpGood([kind |-> "generate", arg |-> [contract |-> goal.contract]])
    BY <2>1 DEF OpGood
  <2> QED
    BY <1>2, <2>2, QuietBecome DEF ReadContract, Begin
<1>3. CASE ReadSpec(h)
  <2>1. Len(specs) \in 1 .. Len(specs)
    BY <1>3, Lengths DEF ReadSpec, GoalInv
  <2>2. Arg(h).contract \in Nat \ {0}
    BY <1>1, <1>3 DEF ReadSpec, Doing, OpGood, Arg
  <2>3. OpGood([kind |-> "planner", arg |-> [contract |-> Arg(h).contract, spec |-> Len(specs)]])
    BY <2>1, <2>2 DEF OpGood
  <2> QED
    BY <1>3, <2>3, QuietBecome DEF ReadSpec
<1>4. CASE Planned(h)
  <2>1. Arg(h).contract \in Nat \ {0} /\ Arg(h).spec \in 1 .. Len(specs)
    BY <1>1, <1>4 DEF Planned, Doing, OpGood, Arg
  <2>2. PICK issues \in IssuePlanDraft :
          Become(h, "append", Draft(Arg(h).spec, Arg(h).contract, 0, issues))
    BY <1>4 DEF Planned
  <2>3. DraftGood(Draft(Arg(h).spec, Arg(h).contract, 0, issues))
    BY <2>1, Lengths DEF Draft, DraftGood, Compiles
  <2>4. OpGood([kind |-> "append", arg |-> Draft(Arg(h).spec, Arg(h).contract, 0, issues)])
    BY <2>3 DEF OpGood
  <2> QED
    BY <1>4, <2>2, <2>4, QuietBecome DEF Planned
<1>5. CASE RevisePlan(h)
  <2>1. PICK issues \in IssuePlanDraft :
          Become(h, "append",
                 Draft(Newest(plans).spec, Newest(plans).contract, Newest(plans).run, issues))
    BY <1>5 DEF RevisePlan, Begin
  <2>2. Newest(plans) \in PlanRow /\ Newest(plans).spec <= Len(specs)
    BY <1>5, Lengths DEF RevisePlan, Newest, GoalInv, PlansGood
  <2>3. PICK d : d = Draft(Newest(plans).spec, Newest(plans).contract, Newest(plans).run, issues)
    OBVIOUS
  <2>4. DraftGood(d)
    BY <2>2, <2>3, Lengths DEF Draft, DraftGood, Compiles, PlanRow
  <2>5. OpGood([kind |-> "append", arg |-> d])
    BY <2>4 DEF OpGood
  <2> QED
    BY <1>5, <2>1, <2>3, <2>5, QuietBecome DEF RevisePlan
<1>6. CASE \E d \in {"approved", "rejected", "draft"} : StartDecision(h, d)
  <2>1. PICK d \in {"approved", "rejected", "draft"} : StartDecision(h, d)
    BY <1>6
  <2>2. Len(plans) \in 1 .. Len(plans)
    BY <2>1, Lengths DEF StartDecision, GoalInv, PlansGood
  <2>3. PICK arg : arg = [plan |-> Len(plans), version |-> Newest(plans).version, decision |-> d]
    OBVIOUS
  <2>4. OpGood([kind |-> "decide", arg |-> arg])
    BY <2>2, <2>3 DEF OpGood
  <2> QED
    BY <2>1, <2>3, <2>4, QuietBecome DEF StartDecision, Begin
<1>7. CASE DecisionSnapshot(h)
  <2>1. OpGood([kind |-> "locked", arg |-> Arg(h)])
    BY <1>1, <1>7 DEF DecisionSnapshot, Doing, OpGood, Arg
  <2> QED
    BY <1>7, <2>1, QuietBecome, QuietFinish DEF DecisionSnapshot
<1>8. CASE Abandon(h)
  BY <1>8, QuietFinish DEF Abandon
<1> QED
  BY <1>2, <1>3, <1>4, <1>5, <1>6, <1>7, <1>8

LEMMA VerifyingReads ==
    ASSUME GoalInv, NEW h \in Handler,
           \/ StartCompile(h) \/ CompileGoal(h) \/ CompilePlans(h)
           \/ StartVerify(h) \/ VerifyReads(h) \/ StartGap(h)
    PROVE  GoalInv'
<1>1. OpGood(ops[h])
  BY DEF GoalInv, OpsGood
<1>2. CASE StartCompile(h)
  <2>1. Len(plans) \in 1 .. Len(plans)
    BY <1>2, Lengths DEF StartCompile, GoalInv, PlansGood
  <2>2. OpGood([kind |-> "compile", arg |-> [plan |-> Len(plans)]])
    BY <2>1 DEF OpGood
  <2> QED
    BY <1>2, <2>2, QuietBecome DEF StartCompile, Begin
<1>3. CASE CompileGoal(h)
  <2>1. Arg(h).plan \in 1 .. Len(plans)
    BY <1>1, <1>3 DEF CompileGoal, Doing, OpGood, Arg
  <2>2. PICK row : row = Compilation(Arg(h).plan)
    OBVIOUS
  <2>3. goal.version \in Nat \ {0} /\ goal.contract \in Nat \ {0}
    BY DEF GoalInv, GoalRow
  <2>4. VplanGood(row)
    BY <2>1, <2>2, <2>3, Lengths DEF Compilation, VplanGood, VplanRow, ContractAt
  <2>5. OpGood([kind |-> "compiling", arg |-> row])
    BY <2>4 DEF OpGood
  <2> QED
    BY <1>3, <2>2, <2>5, QuietBecome DEF CompileGoal
<1>4. CASE CompilePlans(h)
  <2>1. VplanGood(Arg(h)) /\ Approved(Arg(h).plan)
    BY <1>1, <1>4 DEF CompilePlans, Doing, OpGood, Arg, Approved
  <2>2. PICK arg : arg = [row |-> Arg(h), after |-> Len(vplans)]
    OBVIOUS
  <2>3. OpGood([kind |-> "compiled", arg |-> arg])
    BY <2>1, <2>2 DEF OpGood
  <2> QED
    BY <1>4, <2>2, <2>3, QuietBecome DEF CompilePlans
<1>5. CASE StartVerify(h)
  <2>1. PICK arg : arg = [vplan |-> Len(vplans), goalVersion |-> goal.version]
    OBVIOUS
  <2>2. OfVplan(arg)
    BY <1>5, <2>1, Lengths DEF StartVerify, GoalInv, VplansGood, OfVplan, Current, Newest
  <2>3. OpGood([kind |-> "verify", arg |-> arg])
    BY <2>2 DEF OpGood
  <2> QED
    BY <1>5, <2>1, <2>3, QuietBecome DEF StartVerify, Begin
<1>6. CASE VerifyReads(h)
  <2>1. OfVplan(Arg(h))
    BY <1>1, <1>6 DEF VerifyReads, Doing, OpGood, Arg
  <2>2. PICK arg : arg = [row |-> Arg(h), after |-> Len(verdicts)]
    OBVIOUS
  <2>3. OpGood([kind |-> "session", arg |-> arg])
    BY <2>1, <2>2 DEF OpGood
  <2> QED
    BY <1>6, <2>2, <2>3, QuietBecome DEF VerifyReads
<1>7. CASE StartGap(h)
  <2>1. OpGood([kind |-> "gap", arg |-> [verdict |-> Len(verdicts)]])
    BY <1>7 DEF StartGap, OpGood
  <2> QED
    BY <1>7, <2>1, QuietBecome DEF StartGap, Begin
<1> QED
  BY <1>2, <1>3, <1>4, <1>5, <1>6, <1>7

\* A receipt is prepared for a plan that follows the source of its gap report.
LEMMA GoesOn ==
    ASSUME GoalInv, NEW h \in Handler, NEW n \in 1 .. Len(plans),
           Remedying(Arg(h)), plans[n].run = Arg(h).gap, GoOnWith(h, plans[n], n),
           UNCHANGED <<planning, acceptance>>
    PROVE  GoalInv'
<1>1. CASE Confirmed(plans[n], Arg(h).gap)
  <2>1. PICK row : row = [gap |-> Arg(h).gap, key |-> Arg(h).key, plan |-> n]
    OBVIOUS
  <2>2. Arg(h).gap \in Nat \ {0}
    BY Chain, Lengths DEF Remedying
  <2>3. Remedies(row)
    BY <1>1, <2>1, <2>2, Lengths DEF Remedies, ReceiptRow, Remedying, Confirmed
  <2>4. OpGood([kind |-> "receipt", arg |-> row])
    BY <2>3 DEF OpGood
  <2> QED
    BY <1>1, <2>1, <2>4, QuietBecome DEF GoOnWith
<1>2. CASE ~Confirmed(plans[n], Arg(h).gap)
  BY <1>2, QuietFinish DEF GoOnWith
<1> QED
  BY <1>1, <1>2

LEMMA RemedyReads ==
    ASSUME GoalInv, NEW h \in Handler,
           \/ \E g \in gaps, k \in Key : StartRemedy(h, g, k)
           \/ RemedyLook(h) \/ RemedyDraft(h) \/ RemedyRaced(h)
    PROVE  GoalInv'
<1>1. OpGood(ops[h])
  BY DEF GoalInv, OpsGood
<1>2. CASE \E g \in gaps, k \in Key : StartRemedy(h, g, k)
  <2>1. PICK g \in gaps, k \in Key : StartRemedy(h, g, k)
    BY <1>2
  <2>2. PICK arg : arg = [gap |-> g, key |-> k]
    OBVIOUS
  <2>3. OpGood([kind |-> "remedy", arg |-> arg])
    BY <2>2 DEF OpGood, Remedying
  <2> QED
    BY <2>1, <2>2, <2>3, QuietBecome DEF StartRemedy, Begin
<1>3. ASSUME Doing(h, "remedy") \/ Doing(h, "redraft") \/ Doing(h, "raced")
      PROVE  Remedying(Arg(h)) /\ Len(plans) \in 1 .. Len(plans)
  <2>1. Remedying(Arg(h))
    BY <1>1, <1>3 DEF OpGood, Doing, Arg
  <2> QED
    BY <2>1, Chain, Lengths DEF Remedying
<1>4. CASE RemedyLook(h)
  <2>1. UNCHANGED <<planning, acceptance>> /\ Remedying(Arg(h)) /\ Len(plans) \in 1 .. Len(plans)
    BY <1>3, <1>4 DEF RemedyLook
  <2>2. CASE Recovers(Arg(h).gap)
    BY <1>4, <2>1, <2>2, GoesOn DEF RemedyLook, Recovers, Newest
  <2>3. CASE Become(h, "redraft", Arg(h))
    <3>1. OpGood([kind |-> "redraft", arg |-> Arg(h)])
      BY <2>1 DEF OpGood
    <3> QED
      BY <2>1, <2>3, <3>1, QuietBecome
  <2>4. CASE Finish(h)
    BY <2>1, <2>4, QuietFinish
  <2> QED
    BY <1>4, <2>2, <2>3, <2>4 DEF RemedyLook
<1>5. CASE RemedyDraft(h)
  <2>1. UNCHANGED <<planning, acceptance>> /\ Remedying(Arg(h))
    BY <1>3, <1>5 DEF RemedyDraft
  <2>2. SourceOf(Arg(h).gap) \in 1 .. Len(plans)
    BY <2>1, Chain DEF Remedying
  <2>3. PICK source : source = plans[SourceOf(Arg(h).gap)]
    OBVIOUS
  <2>4. source \in PlanRow /\ source.spec <= Len(specs)
    BY <2>2, <2>3 DEF GoalInv, PlansGood
  <2>5. PICK issues \in IssuePlanDraft :
          Become(h, "reappend",
                 [gap |-> Arg(h).gap, key |-> Arg(h).key,
                  draft |-> Draft(source.spec, source.contract, Arg(h).gap, issues)])
    BY <1>5, <2>3 DEF RemedyDraft
  <2>6. PICK d : d = Draft(source.spec, source.contract, Arg(h).gap, issues)
    OBVIOUS
  <2>7. Arg(h).gap \in Nat
    BY <2>1, Chain, Lengths DEF Remedying
  <2>8. DraftGood(d) /\ d.run = Arg(h).gap
    BY <2>4, <2>6, <2>7, Lengths DEF Draft, DraftGood, Compiles, PlanRow
  <2>9. PICK arg : arg = [gap |-> Arg(h).gap, key |-> Arg(h).key, draft |-> d]
    OBVIOUS
  <2>10. OpGood([kind |-> "reappend", arg |-> arg])
    BY <2>1, <2>8, <2>9 DEF OpGood, Remedying
  <2> QED
    BY <2>1, <2>5, <2>6, <2>9, <2>10, QuietBecome
<1>6. CASE RemedyRaced(h)
  <2>1. UNCHANGED <<planning, acceptance>> /\ Remedying(Arg(h)) /\ Len(plans) \in 1 .. Len(plans)
    BY <1>3, <1>6 DEF RemedyRaced
  <2>2. CASE Recovers(Arg(h).gap)
    BY <1>6, <2>1, <2>2, GoesOn DEF RemedyRaced, Recovers, Newest
  <2>3. CASE ~Recovers(Arg(h).gap)
    BY <1>6, <2>1, <2>3, QuietFinish DEF RemedyRaced
  <2> QED
    BY <2>2, <2>3
<1> QED
  BY <1>2, <1>4, <1>5, <1>6

LEMMA AcceptingReads ==
    ASSUME GoalInv, NEW h \in Handler,
           \/ StartReport(h) \/ ReportReads(h) \/ SynchronizeGoal(h)
           \/ StartAccept(h) \/ AcceptGoal(h) \/ AcceptSnapshot(h)
    PROVE  GoalInv'
<1>1. OpGood(ops[h])
  BY DEF GoalInv, OpsGood
<1>2. CASE StartReport(h)
  <2>1. PICK verdict : verdict = Newest(verdicts)
    OBVIOUS
  <2>2. /\ Len(verdicts) \in 1 .. Len(verdicts) /\ verdict = verdicts[Len(verdicts)]
        /\ verdict.passed /\ goal.status = "verifying" /\ goal.version = verdict.goalVersion
    BY <1>2, <2>1, Lengths DEF StartReport, Newest, GoalInv, VerdictsGood
  <2>3. OfVplan(verdict)
    BY <2>2 DEF GoalInv, VerdictsGood
  <2>4. ContractAt(vplans[verdict.vplan])
    BY <2>3 DEF OfVplan, GoalInv, VplansGood, VplanGood
  <2>5. vplans[verdict.vplan].contract = goal.contract
    BY <2>2, <2>3, <2>4 DEF OfVplan, ContractAt
  <2>6. goal.version \in Nat \ {0} /\ goal.contract \in Nat \ {0}
    BY DEF GoalInv, GoalRow
  <2>7. PICK row : row = [verdict |-> Len(verdicts), contract |-> goal.contract,
                          goalVersion |-> goal.version, accepted |-> FALSE]
    OBVIOUS
  <2>8. Reportable(row)
    BY <2>2, <2>5, <2>6, <2>7 DEF Reportable, Shows, ReportRow
  <2>9. OpGood([kind |-> "report", arg |-> row])
    BY <2>8 DEF OpGood
  <2> QED
    BY <1>2, <2>7, <2>9, QuietBecome DEF StartReport, Begin
<1>3. CASE ReportReads(h)
  <2>1. Reportable(Arg(h))
    BY <1>1, <1>3 DEF ReportReads, Doing, OpGood, Arg
  <2>2. PICK arg : arg = [row |-> Arg(h), after |-> Len(reports)]
    OBVIOUS
  <2>3. OpGood([kind |-> "synchronize", arg |-> arg])
    BY <2>1, <2>2, Lengths DEF OpGood
  <2> QED
    BY <1>3, <2>2, <2>3, QuietBecome DEF ReportReads
<1>4. CASE SynchronizeGoal(h)
  <2>1. Reportable(Arg(h).row) /\ Arg(h).after \in Nat /\ Arg(h).after <= Len(reports)
    BY <1>1, <1>4 DEF SynchronizeGoal, Doing, OpGood, Arg
  <2>2. goal.status = "verifying"
    BY <1>4, <2>1 DEF SynchronizeGoal, Synchronized, Reportable
  <2>3. ~AnyAccepted
    BY <2>2 DEF AnyAccepted, GoalInv, ReportsGood
  <2>4. OpGood([kind |-> "publish", arg |-> Arg(h)])
    BY <2>1, <2>3 DEF OpGood, NextReport
  <2> QED
    BY <1>4, <2>4, QuietBecome DEF SynchronizeGoal
<1>5. CASE StartAccept(h)
  <2>1. Len(reports) \in Nat \ {0}
    BY <1>5, Lengths DEF StartAccept, GoalInv, ReportsGood
  <2>2. OpGood([kind |-> "accept", arg |-> [report |-> Len(reports)]])
    BY <2>1 DEF OpGood
  <2> QED
    BY <1>5, <2>2, QuietBecome DEF StartAccept, Begin
<1>6. CASE AcceptGoal(h)
  <2>1. Arg(h).report \in Nat \ {0}
    BY <1>1, <1>6 DEF AcceptGoal, Doing, OpGood, Arg
  <2>2. PICK arg : arg = [report |-> Arg(h).report, version |-> goal.version]
    OBVIOUS
  <2>3. OpGood([kind |-> "accepting", arg |-> arg])
    BY <2>1, <2>2 DEF OpGood
  <2> QED
    BY <1>6, <2>2, <2>3, QuietBecome DEF AcceptGoal
<1>7. CASE AcceptSnapshot(h)
  <2>1. Arg(h).report \in Nat \ {0}
    BY <1>1, <1>7 DEF AcceptSnapshot, Doing, OpGood, Arg
  <2>2. OpGood([kind |-> "completing", arg |-> Arg(h)])
    BY <2>1 DEF OpGood
  <2> QED
    BY <1>7, <2>2, QuietBecome DEF AcceptSnapshot
<1> QED
  BY <1>2, <1>3, <1>4, <1>5, <1>6, <1>7
-----------------------------------------------------------------------------
(* Steps that write one table: it grows, and its new row is good.           *)
LEMMA Still ==
    ASSUME GoalInv
    PROVE  /\ UNCHANGED goal => GoalMoves
           /\ UNCHANGED plans => PlansGrow
           /\ UNCHANGED specs => specs' \in Seq(SpecRow) /\ Len(specs) <= Len(specs')
           /\ UNCHANGED vplans =>
                /\ vplans' \in Seq(VplanRow) /\ Len(vplans) <= Len(vplans')
                /\ \A v \in 1 .. Len(vplans) : vplans'[v] = vplans[v]
           /\ UNCHANGED verdicts =>
                /\ verdicts' \in Seq(VerdictRow) /\ Len(verdicts) <= Len(verdicts')
                /\ \A v \in 1 .. Len(verdicts) : verdicts'[v] = verdicts[v]
           /\ UNCHANGED reports => reports' \in Seq(ReportRow)
BY Lengths
DEF GoalInv, GoalMoves, PlansGrow, PlansGood, VplansGood, VerdictsGood, ReportsGood, Approved

LEMMA FinishKeeps ==
    ASSUME GoalInv, Grew, NEW h \in Handler, Finish(h)
    PROVE  OpsGood'
BY IdleGood, OpsKept DEF Finish

LEMMA GoalStepKeeps ==
    ASSUME GoalInv, GoalStep, UNCHANGED acceptance
    PROVE  GoalInv'
<1>1. goal \in GoalRow
  BY DEF GoalInv
<1>2. UNCHANGED <<specs, plans, ops, vplans, verdicts, gaps, receipts, reports>>
  BY DEF GoalStep, EditGoal, Transition, acceptance
<1>3. GoalMoves
  <2>1. /\ goal = [status |-> goal.status, version |-> goal.version,
                   contract |-> goal.contract, changes |-> goal.changes]
        /\ goal.status \in GoalStatus /\ goal.version \in Nat \ {0}
        /\ goal.contract \in Nat \ {0} /\ goal.changes \in 0 .. MaxChanges
    BY <1>1 DEF GoalRow
  <2>2. CASE EditGoal
    <3>1. goal' = [status |-> goal.status, version |-> goal.version + 1,
                   contract |-> goal.version + 1, changes |-> goal.changes + 1]
      BY <2>1, <2>2 DEF EditGoal, Edited
    <3>2. goal.changes + 1 \in 0 .. MaxChanges
      BY <2>1, <2>2, PlanningAssumption DEF EditGoal
    <3>3. goal' \in GoalRow
      BY <2>1, <3>1, <3>2 DEF GoalRow
    <3>4. goal'.version = goal.version + 1 /\ goal'.status = goal.status
      BY <3>1
    <3> QED
      BY <2>1, <3>3, <3>4 DEF GoalMoves
  <2>3. CASE \E s \in GoalStatus : Transition(s)
    <3>1. PICK s \in GoalStatus : Transition(s)
      BY <2>3
    <3>2. goal' = [status |-> s, version |-> goal.version + 1,
                   contract |-> goal.contract, changes |-> goal.changes + 1]
      BY <2>1, <3>1 DEF Transition, Moved
    <3>3. goal.changes + 1 \in 0 .. MaxChanges
      BY <2>1, <3>1, PlanningAssumption DEF Transition
    <3>4. goal' \in GoalRow
      BY <2>1, <3>2, <3>3 DEF GoalRow
    <3>5. goal'.version = goal.version + 1
      BY <3>2
    <3>6. goal.status # "completed"
      BY <3>1 DEF Transition, Follows, Closed
    <3> QED
      BY <2>1, <3>4, <3>5, <3>6 DEF GoalMoves
  <2> QED
    BY <2>2, <2>3 DEF GoalStep
<1>4. Grew
  BY <1>2, <1>3, Still DEF Grew
<1> QED
  BY <1>2, <1>3, <1>4, PlansStill, VplansStill, VerdictsStill, ReceiptsStill, ReportsStill, OpsStill
  DEF GoalInv, GoalMoves

LEMMA SpecStepKeeps ==
    ASSUME GoalInv, SpecStep, UNCHANGED acceptance
    PROVE  GoalInv'
<1>1. specs \in Seq(SpecRow) /\ goal \in GoalRow
  BY DEF GoalInv
<1>2. UNCHANGED <<goal, plans, ops, vplans, verdicts, gaps, receipts, reports>>
  BY DEF SpecStep, GenerateSpec, DecideSpec, acceptance
<1>3. specs' \in Seq(SpecRow) /\ Len(specs) <= Len(specs')
  <2>1. CASE GenerateSpec
    <3>1. NewSpec \in SpecRow
      BY <1>1 DEF NewSpec, SpecRow, GoalRow
    <3> QED
      BY <1>1, <2>1, <3>1 DEF GenerateSpec
  <2>2. CASE \E s \in {"in_review", "approved", "rejected"} : DecideSpec(s)
    <3>1. PICK s \in {"in_review", "approved", "rejected"} : DecideSpec(s)
      BY <2>2
    <3>2. PICK row : row = [specs[Len(specs)] EXCEPT !.status = s]
      OBVIOUS
    <3>3. specs' = [specs EXCEPT ![Len(specs)] = row]
      BY <3>1, <3>2 DEF DecideSpec
    <3>4. Len(specs) \in 1 .. Len(specs)
      BY <1>1, <3>1 DEF DecideSpec
    <3>5. specs[Len(specs)] \in SpecRow
      BY <1>1, <3>4
    <3>6. row \in SpecRow
      BY <3>1, <3>2, <3>5 DEF SpecRow
    <3> QED
      BY <1>1, <3>3, <3>4, <3>6
  <2> QED
    BY <2>1, <2>2 DEF SpecStep
<1>4. Grew
  BY <1>2, <1>3, Still DEF Grew
<1> QED
  BY <1>1, <1>2, <1>3, <1>4, PlansStill, VplansStill, VerdictsStill, ReceiptsStill, ReportsStill,
     OpsStill
  DEF GoalInv

\* The new revision follows the newest one, which is why it may be appended.
LEMMA PlanAppended ==
    ASSUME GoalInv, NEW d, DraftGood(d), StillNewest(d.base), AppendRow(d)
    PROVE  /\ PlansGrow /\ Len(plans') = Len(plans) + 1
           /\ plans'[Len(plans')].base = d.base /\ plans'[Len(plans')].run = d.run
           /\ \A p \in 1 .. Len(plans') : plans'[p].spec <= Len(specs) /\ plans'[p].base = p - 1
<1>1. PICK row : row = [status |-> "draft", version |-> 1, base |-> d.base, spec |-> d.spec,
                        contract |-> d.contract, valid |-> d.valid, run |-> d.run]
  OBVIOUS
<1>2. plans' = Append(plans, row)
  BY <1>1 DEF AppendRow
<1>3. /\ row \in PlanRow /\ row.base = d.base /\ row.run = d.run
      /\ row.spec <= Len(specs) /\ row.base = Len(plans)
  BY <1>1, Lengths DEF DraftGood, PlanRow, StillNewest
<1>4. plans \in Seq(PlanRow)
  BY DEF GoalInv, PlansGood
<1>5. /\ plans' \in Seq(PlanRow) /\ Len(plans') = Len(plans) + 1
      /\ plans'[Len(plans) + 1] = row /\ \A p \in 1 .. Len(plans) : plans'[p] = plans[p]
  BY <1>2, <1>3, <1>4
<1>6. PlansGrow
  BY <1>5, Lengths DEF PlansGrow, Approved
<1>7. ASSUME NEW p \in 1 .. Len(plans')
      PROVE  plans'[p].spec <= Len(specs) /\ plans'[p].base = p - 1
  <2>1. CASE p \in 1 .. Len(plans)
    BY <1>5, <2>1 DEF GoalInv, PlansGood
  <2>2. CASE p = Len(plans) + 1
    BY <1>3, <1>5, <2>2, Lengths
  <2> QED
    BY <1>5, <2>1, <2>2, Lengths
<1> QED
  BY <1>3, <1>5, <1>6, <1>7

LEMMA AppendPlanKeeps ==
    ASSUME GoalInv, NEW h \in Handler, AppendPlan(h), UNCHANGED acceptance
    PROVE  GoalInv'
<1>1. UNCHANGED <<goal, specs, vplans, verdicts, gaps, receipts, reports>> /\ Finish(h)
  BY DEF AppendPlan, acceptance
<1>2. CASE StillNewest(Arg(h).base)
  <2>1. OpGood(ops[h])
    BY DEF GoalInv, OpsGood
  <2>2. DraftGood(Arg(h))
    BY <2>1 DEF AppendPlan, Doing, OpGood, Arg
  <2>3. AppendRow(Arg(h))
    BY <1>2 DEF AppendPlan
  <2>4. /\ PlansGrow
        /\ \A p \in 1 .. Len(plans') : plans'[p].spec <= Len(specs) /\ plans'[p].base = p - 1
    BY <1>2, <2>2, <2>3, PlanAppended
  <2>5. Grew
    BY <1>1, <2>4, Still DEF Grew
  <2>6. PlansGood'
    BY <1>1, <2>4 DEF PlansGood, PlansGrow
  <2> QED
    BY <1>1, <2>5, <2>6, VplansStill, VerdictsStill, ReceiptsStill, ReportsStill, FinishKeeps
    DEF GoalInv
<1>3. CASE ~StillNewest(Arg(h).base)
  BY <1>1, <1>3, QuietFinish DEF AppendPlan, planning, acceptance
<1> QED
  BY <1>2, <1>3

\* Two decisions of one revision: the second finds it decided.
LEMMA DecisionCommitKeeps ==
    ASSUME GoalInv, NEW h \in Handler, DecisionCommit(h), UNCHANGED acceptance
    PROVE  GoalInv'
<1>1. UNCHANGED <<goal, specs, vplans, verdicts, gaps, receipts, reports>> /\ Finish(h)
  BY DEF DecisionCommit, acceptance
<1>2. CASE AsRead(plans[Arg(h).plan], Arg(h).version)
  <2>1. OpGood(ops[h])
    BY DEF GoalInv, OpsGood
  <2>2. Arg(h).plan \in 1 .. Len(plans) /\ Arg(h).decision \in {"approved", "rejected", "draft"}
    BY <2>1 DEF DecisionCommit, Doing, OpGood, Arg
  <2>3. PICK n : n = Arg(h).plan
    OBVIOUS
  <2>4. PICK old : old = plans[n]
    OBVIOUS
  <2>5. plans \in Seq(PlanRow) /\ old \in PlanRow /\ n \in 1 .. Len(plans)
    BY <2>2, <2>3, <2>4 DEF GoalInv, PlansGood
  <2>6. PICK row : row = [old EXCEPT !.status = Arg(h).decision, !.version = @ + 1]
    OBVIOUS
  <2>7. plans' = [plans EXCEPT ![n] = row]
    BY <1>2, <2>3, <2>4, <2>5, <2>6 DEF DecisionCommit
  <2>8. /\ row \in PlanRow /\ row.base = old.base /\ row.run = old.run /\ row.spec = old.spec
        /\ old.status = "draft"
    <3>1. old.status = "draft"
      BY <1>2, <2>3, <2>4 DEF AsRead
    <3>2. PICK d : d = Arg(h).decision
      OBVIOUS
    <3>3. old \in PlanRow
      BY <2>5
    <3>4. old = [status |-> old.status, version |-> old.version, base |-> old.base,
                 spec |-> old.spec, contract |-> old.contract, valid |-> old.valid,
                 run |-> old.run]
      BY <3>3 DEF PlanRow
    <3>5. row = [status |-> d, version |-> old.version + 1, base |-> old.base,
                 spec |-> old.spec, contract |-> old.contract, valid |-> old.valid,
                 run |-> old.run]
      BY <2>6, <3>2, <3>4
    <3>6. /\ old.version + 1 \in Nat \ {0} /\ old.base \in Nat /\ old.spec \in Nat \ {0}
          /\ old.contract \in Nat \ {0} /\ old.valid \in BOOLEAN /\ old.run \in Nat
      BY <3>3 DEF PlanRow
    <3>7. d \in {"draft", "approved", "rejected"}
      BY <2>2, <3>2
    <3>8. row \in PlanRow
      BY <3>7, <3>5, <3>6 DEF PlanRow
    <3> QED
      BY <3>1, <3>8, <3>5
  <2>9. /\ plans' \in Seq(PlanRow) /\ Len(plans') = Len(plans)
        /\ \A p \in 1 .. Len(plans) : plans'[p] = IF p = n THEN row ELSE plans[p]
    BY <2>5, <2>7, <2>8
  <2>10. PlansGrow
    BY <2>4, <2>8, <2>9, Lengths DEF PlansGrow, Approved
  <2>11. Grew
    BY <1>1, <2>10, Still DEF Grew
  <2>12. PlansGood'
    BY <1>1, <2>4, <2>8, <2>9 DEF GoalInv, PlansGood
  <2> QED
    BY <1>1, <2>11, <2>12, VplansStill, VerdictsStill, ReceiptsStill, ReportsStill, FinishKeeps
    DEF GoalInv
<1>3. CASE ~AsRead(plans[Arg(h).plan], Arg(h).version)
  BY <1>1, <1>3, QuietFinish DEF DecisionCommit, planning, acceptance
<1> QED
  BY <1>2, <1>3

LEMMA AppendVplanKeeps ==
    ASSUME GoalInv, NEW h \in Handler, AppendVplan(h)
    PROVE  GoalInv'
<1>1. UNCHANGED <<goal, specs, plans, verdicts, gaps, receipts, reports>> /\ Finish(h)
  BY DEF AppendVplan, planning
<1>2. PICK row : row = Arg(h).row
  OBVIOUS
<1>3. VplanGood(row) /\ Approved(row.plan)
  <2>1. OpGood(ops[h])
    BY DEF GoalInv, OpsGood
  <2> QED
    BY <1>2, <2>1 DEF AppendVplan, Doing, OpGood, Arg
<1>4. vplans \in Seq(VplanRow) /\ row \in VplanRow /\ row.plan \in 1 .. Len(plans)
  BY <1>3, Lengths DEF GoalInv, VplansGood, VplanGood, VplanRow
<1>5. /\ vplans' \in Seq(VplanRow) /\ Len(vplans') = Len(vplans) + 1
      /\ vplans'[Len(vplans) + 1] = row /\ \A v \in 1 .. Len(vplans) : vplans'[v] = vplans[v]
  BY <1>2, <1>4 DEF AppendVplan
<1>6. Grew
  BY <1>1, <1>5, Lengths, Still DEF Grew
<1>7. ASSUME NEW v \in 1 .. Len(vplans')
      PROVE  VplanGood(vplans[v])' /\ Approved(vplans[v].plan)'
  <2>1. PICK any : any = vplans'[v]
    OBVIOUS
  <2>2. v = Len(vplans) + 1 \/ v \in 1 .. Len(vplans)
    BY <1>5, Lengths
  <2>3. VplanGood(any) /\ Approved(any.plan)
    <3>1. CASE v = Len(vplans) + 1
      BY <1>3, <1>5, <2>1, <3>1
    <3>2. CASE v \in 1 .. Len(vplans)
      <4>1. any = vplans[v]
        BY <1>5, <2>1, <3>2
      <4> QED
        BY <3>2, <4>1 DEF GoalInv, VplansGood
    <3> QED
      BY <2>2, <3>1, <3>2
  <2>5. any.plan \in 1 .. Len(plans)
    BY <2>3, Lengths DEF VplanGood, VplanRow
  <2>4. VplanGood(any)' /\ Approved(any.plan)'
    BY <1>6, <2>3, <2>5, VplanKept, ApprovedKept
  <2> QED
    BY <2>1, <2>4 DEF VplanGood, Approved, ContractAt
<1>8. VplansGood'
  BY <1>5, <1>7 DEF VplansGood
<1> QED
  BY <1>1, <1>6, <1>8, PlansStill, VerdictsStill, ReceiptsStill, ReportsStill, FinishKeeps
  DEF GoalInv

LEMMA AppendVerdictKeeps ==
    ASSUME GoalInv, NEW h \in Handler, NEW result, NEW output, AppendVerdict(h, result, output)
    PROVE  GoalInv'
<1>1. UNCHANGED <<goal, specs, plans, vplans, gaps, receipts, reports>> /\ Finish(h)
  BY DEF AppendVerdict, planning
<1>2. PICK row : row = NewVerdict(h, result, output)
  OBVIOUS
<1>3. OfVplan(Arg(h).row)
  <2>1. OpGood(ops[h])
    BY DEF GoalInv, OpsGood
  <2> QED
    BY <2>1 DEF AppendVerdict, Doing, OpGood, Arg
<1>4. OfVplan(row) /\ row.passed \in BOOLEAN /\ row.named \in BOOLEAN
  BY <1>2, <1>3 DEF NewVerdict, OfVplan
<1>5. vplans[row.vplan].goalVersion \in Nat \ {0}
  <2>1. vplans[row.vplan] \in VplanRow
    BY <1>4 DEF GoalInv, VplansGood, OfVplan
  <2> QED
    BY <2>1 DEF VplanRow
<1>6. verdicts \in Seq(VerdictRow) /\ row \in VerdictRow
  BY <1>2, <1>4, <1>5, Lengths DEF GoalInv, VerdictsGood, OfVplan, VerdictRow, NewVerdict
<1>7. /\ verdicts' \in Seq(VerdictRow) /\ Len(verdicts') = Len(verdicts) + 1
      /\ verdicts'[Len(verdicts) + 1] = row
      /\ \A v \in 1 .. Len(verdicts) : verdicts'[v] = verdicts[v]
  BY <1>2, <1>6 DEF AppendVerdict
<1>8. Grew
  BY <1>1, <1>7, Lengths, Still DEF Grew
<1>9. ASSUME NEW v \in 1 .. Len(verdicts')
      PROVE  OfVplan(verdicts[v])'
  <2>1. PICK any : any = verdicts'[v]
    OBVIOUS
  <2>2. v = Len(verdicts) + 1 \/ v \in 1 .. Len(verdicts)
    BY <1>7, Lengths
  <2>3. OfVplan(any)
    <3>1. CASE v = Len(verdicts) + 1
      BY <1>4, <1>7, <2>1, <3>1
    <3>2. CASE v \in 1 .. Len(verdicts)
      <4>1. any = verdicts[v]
        BY <1>7, <2>1, <3>2
      <4> QED
        BY <3>2, <4>1 DEF GoalInv, VerdictsGood
    <3> QED
      BY <2>2, <3>1, <3>2
  <2>4. OfVplan(any)'
    BY <1>8, <2>3, OfVplanKept
  <2> QED
    BY <2>1, <2>4 DEF OfVplan
<1>10. gaps' \subseteq GapRow'
  BY <1>1, <1>8, GapRowGrows DEF GoalInv, VerdictsGood
<1>11. VerdictsGood'
  BY <1>7, <1>9, <1>10 DEF VerdictsGood
<1> QED
  BY <1>1, <1>8, <1>11, PlansStill, VplansStill, ReceiptsStill, ReportsStill, FinishKeeps
  DEF GoalInv

LEMMA AppendGapKeeps ==
    ASSUME GoalInv, NEW h \in Handler, AppendGap(h)
    PROVE  GoalInv'
<1>1. UNCHANGED <<goal, specs, plans, vplans, verdicts, receipts, reports>> /\ Finish(h)
  BY DEF AppendGap, planning
<1>2. Arg(h).verdict \in GapRow /\ gaps' = gaps \cup {Arg(h).verdict}
  <2>1. OpGood(ops[h])
    BY DEF GoalInv, OpsGood
  <2> QED
    BY <2>1 DEF AppendGap, Doing, OpGood, Arg
<1>3. Grew
  BY <1>1, <1>2, Still DEF Grew
<1>4. gaps' \subseteq GapRow'
  <2>1. GapRow \subseteq GapRow'
    BY <1>3, GapRowGrows
  <2> QED
    BY <1>2, <2>1 DEF GoalInv, VerdictsGood
<1>5. \A v \in 1 .. Len(verdicts') : OfVplan(verdicts[v])'
  BY <1>1 DEF GoalInv, VerdictsGood, OfVplan
<1>6. VerdictsGood'
  BY <1>1, <1>4, <1>5 DEF GoalInv, VerdictsGood
<1> QED
  BY <1>1, <1>3, <1>6, PlansStill, VplansStill, ReceiptsStill, ReportsStill, FinishKeeps
  DEF GoalInv

LEMMA RemedyAppendKeeps ==
    ASSUME GoalInv, NEW h \in Handler, RemedyAppend(h)
    PROVE  GoalInv'
<1>1. UNCHANGED <<goal, specs, vplans, verdicts, gaps, receipts, reports>>
  BY DEF RemedyAppend, acceptance
<1>2. PICK arg : arg = Arg(h)
  OBVIOUS
<1>3. Remedying(arg) /\ DraftGood(arg.draft) /\ arg.draft.run = arg.gap
  <2>1. OpGood(ops[h])
    BY DEF GoalInv, OpsGood
  <2> QED
    BY <1>2, <2>1 DEF RemedyAppend, Doing, OpGood, Arg
<1>4. CASE StillNewest(arg.draft.base)
  <2>1. AppendRow(arg.draft) /\ GoOnWith(h, Newest(plans'), Len(plans'))
    BY <1>2, <1>4 DEF RemedyAppend
  <2>2. /\ PlansGrow /\ Len(plans') = Len(plans) + 1
        /\ plans'[Len(plans')].run = arg.gap
        /\ \A p \in 1 .. Len(plans') : plans'[p].spec <= Len(specs) /\ plans'[p].base = p - 1
    BY <1>3, <1>4, <2>1, PlanAppended
  <2>3. Grew
    BY <1>1, <2>2, Still DEF Grew
  <2>4. PlansGood'
    BY <1>1, <2>2 DEF PlansGood, PlansGrow
  <2>5. OpsGood'
    <3>1. CASE Confirmed(Newest(plans'), arg.gap)
      <4>1. PICK row : row = [gap |-> arg.gap, key |-> arg.key, plan |-> Len(plans')]
        OBVIOUS
      <4>2. ops' = [ops EXCEPT ![h] = [kind |-> "receipt", arg |-> row]]
        BY <1>2, <2>1, <3>1, <4>1 DEF GoOnWith, Become
      <4>3. arg.gap \in Nat \ {0} /\ arg.gap \in gaps /\ arg.key \in Key
        BY <1>3, Chain, Lengths DEF Remedying
      <4>4. SourceOf(arg.gap)' = SourceOf(arg.gap)
        BY <1>1 DEF SourceOf
      <4>5. plans'[Len(plans')].base = SourceOf(arg.gap)
        BY <3>1 DEF Confirmed, Newest
      <4>6. row \in ReceiptRow
        BY <2>2, <4>1, <4>3, Lengths DEF ReceiptRow
      <4>7. Remedies(row)'
        BY <1>1, <2>2, <4>1, <4>3, <4>4, <4>5, <4>6, Lengths DEF Remedies
      <4>8. OpGood([kind |-> "receipt", arg |-> row])'
        BY <4>7 DEF OpGood
      <4> QED
        BY <2>3, <4>2, <4>8, OpsKept
    <3>2. CASE ~Confirmed(Newest(plans'), arg.gap)
      BY <1>2, <2>1, <2>3, <3>2, FinishKeeps DEF GoOnWith
    <3> QED
      BY <3>1, <3>2
  <2> QED
    BY <1>1, <2>3, <2>4, <2>5, VplansStill, VerdictsStill, ReceiptsStill, ReportsStill
    DEF GoalInv
<1>5. CASE ~StillNewest(arg.draft.base)
  <2>1. Become(h, "raced", [gap |-> arg.gap, key |-> arg.key]) /\ UNCHANGED <<planning, acceptance>>
    BY <1>2, <1>5 DEF RemedyAppend, planning
  <2>2. PICK new : new = [gap |-> arg.gap, key |-> arg.key]
    OBVIOUS
  <2>3. OpGood([kind |-> "raced", arg |-> new])
    BY <1>3, <2>2 DEF OpGood, Remedying
  <2> QED
    BY <2>1, <2>2, <2>3, QuietBecome
<1> QED
  BY <1>4, <1>5

LEMMA SaveReceiptKeeps ==
    ASSUME GoalInv, NEW h \in Handler, SaveReceipt(h)
    PROVE  GoalInv'
<1>1. UNCHANGED <<goal, specs, plans, vplans, verdicts, gaps, reports>> /\ Finish(h)
  BY DEF SaveReceipt, planning
<1>2. Remedies(Arg(h)) /\ receipts' \subseteq receipts \cup {Arg(h)}
  <2>1. OpGood(ops[h])
    BY DEF GoalInv, OpsGood
  <2> QED
    BY <2>1 DEF SaveReceipt, Doing, OpGood, Arg
<1>3. Grew
  BY <1>1, Still DEF Grew
<1>4. ReceiptsGood'
  <2>1. PICK all : all = receipts \cup {Arg(h)}
    OBVIOUS
  <2>2. \A r \in all : Remedies(r)
    BY <1>2, <2>1 DEF GoalInv, ReceiptsGood
  <2>3. \A r \in all : Remedies(r)'
    BY <1>3, <2>2, RemediesKept
  <2> QED
    BY <1>2, <2>1, <2>3 DEF ReceiptsGood
<1> QED
  BY <1>1, <1>3, <1>4, PlansStill, VplansStill, VerdictsStill, ReportsStill, FinishKeeps
  DEF GoalInv

\* A report whose goal was found unchanged after the reports were counted: if
\* its revision is still free, none was accepted since.
LEMMA AppendReportKeeps ==
    ASSUME GoalInv, NEW h \in Handler, AppendReport(h)
    PROVE  GoalInv'
<1>1. UNCHANGED <<goal, specs, plans, vplans, verdicts, gaps, receipts>> /\ Finish(h)
  BY DEF AppendReport, planning
<1>2. PICK row : row = Arg(h).row
  OBVIOUS
<1>3. Reportable(row) /\ NextReport(Arg(h).after)
  <2>1. OpGood(ops[h])
    BY DEF GoalInv, OpsGood
  <2> QED
    BY <1>2, <2>1 DEF AppendReport, Doing, OpGood, Arg
<1>4. ~AnyAccepted
  BY <1>3, Lengths DEF AppendReport, NextReport
<1>5. reports \in Seq(ReportRow) /\ row \in ReportRow /\ Shows(row) /\ ~row.accepted
  BY <1>3 DEF GoalInv, ReportsGood, Reportable, Shows
<1>6. /\ reports' \in Seq(ReportRow) /\ Len(reports') = Len(reports) + 1
      /\ reports'[Len(reports) + 1] = row
      /\ \A r \in 1 .. Len(reports) : reports'[r] = reports[r]
  BY <1>2, <1>5 DEF AppendReport
<1>7. Grew
  BY <1>1, <1>6, Lengths, Still DEF Grew
<1>8. ASSUME NEW r \in 1 .. Len(reports')
      PROVE  Shows(reports[r])' /\ ~reports'[r].accepted
  <2>1. PICK any : any = reports'[r]
    OBVIOUS
  <2>2. r = Len(reports) + 1 \/ r \in 1 .. Len(reports)
    BY <1>6, Lengths
  <2>3. Shows(any) /\ ~any.accepted
    <3>1. CASE r = Len(reports) + 1
      BY <1>5, <1>6, <2>1, <3>1
    <3>2. CASE r \in 1 .. Len(reports)
      <4>1. any = reports[r]
        BY <1>6, <2>1, <3>2
      <4> QED
        BY <1>4, <3>2, <4>1 DEF GoalInv, ReportsGood, AnyAccepted
    <3> QED
      BY <2>2, <3>1, <3>2
  <2>4. Shows(any)'
    BY <1>7, <2>3, ShowsKept
  <2> QED
    BY <2>1, <2>3, <2>4 DEF Shows
<1>9. ReportsGood'
  BY <1>6, <1>8 DEF ReportsGood
<1> QED
  BY <1>1, <1>7, <1>9, PlansStill, VplansStill, VerdictsStill, ReceiptsStill, FinishKeeps
  DEF GoalInv

\* The acceptance closes the goal, and its revision is the last.
LEMMA AcceptCommitKeeps ==
    ASSUME GoalInv, NEW h \in Handler, AcceptCommit(h)
    PROVE  GoalInv'
<1>1. UNCHANGED <<specs, plans, vplans, verdicts, gaps, receipts>> /\ Finish(h)
  BY DEF AcceptCommit
<1>2. goal.status = "verifying" /\ Len(reports) = Arg(h).report
  BY DEF AcceptCommit, StillVerifying
<1>3. Arg(h).report \in Nat \ {0}
  <2>1. OpGood(ops[h])
    BY DEF GoalInv, OpsGood
  <2> QED
    BY <2>1 DEF AcceptCommit, Doing, OpGood, Arg
<1>4. goal \in GoalRow /\ reports \in Seq(ReportRow) /\ Len(reports) \in 1 .. Len(reports)
  BY <1>2, <1>3 DEF GoalInv, ReportsGood
<1>5. GoalMoves /\ goal'.status = "completed" /\ goal' \in GoalRow
  <2>1. goal = [status |-> goal.status, version |-> goal.version,
                contract |-> goal.contract, changes |-> goal.changes]
    BY <1>4 DEF GoalRow
  <2>2. /\ goal.version \in Nat \ {0}
        /\ goal.contract \in Nat \ {0} /\ goal.changes \in 0 .. MaxChanges
    BY <1>4 DEF GoalRow
  <2>3. goal' = [status |-> "completed", version |-> goal.version + 1,
                 contract |-> goal.contract, changes |-> goal.changes]
    BY <2>1 DEF AcceptCommit
  <2>4. goal' \in GoalRow
    BY <2>2, <2>3 DEF GoalRow, GoalStatus
  <2>5. goal'.version = goal.version + 1 /\ goal'.status = "completed"
    BY <2>3
  <2> QED
    BY <2>2, <2>4, <2>5 DEF GoalMoves
<1>6. PICK old : old = Newest(reports)
  OBVIOUS
<1>7. old \in ReportRow /\ Shows(old)
  BY <1>4, <1>6 DEF Newest, GoalInv, ReportsGood
<1>8. PICK row : row = [old EXCEPT !.accepted = TRUE]
  OBVIOUS
<1>9. row \in ReportRow /\ row.verdict = old.verdict /\ row.contract = old.contract
  BY <1>7, <1>8 DEF ReportRow
<1>10. Shows(row)
  BY <1>7, <1>9 DEF Shows
<1>11. /\ reports' \in Seq(ReportRow) /\ Len(reports') = Len(reports) + 1
       /\ reports'[Len(reports) + 1] = row
       /\ \A r \in 1 .. Len(reports) : reports'[r] = reports[r]
  BY <1>4, <1>6, <1>8, <1>9 DEF AcceptCommit
<1>12. Grew
  BY <1>1, <1>5, <1>11, Lengths, Still DEF Grew
<1>13. ASSUME NEW r \in 1 .. Len(reports')
       PROVE  Shows(reports[r])' /\ (reports'[r].accepted => r = Len(reports'))
  <2>1. PICK any : any = reports'[r]
    OBVIOUS
  <2>2. r = Len(reports) + 1 \/ r \in 1 .. Len(reports)
    BY <1>11, Lengths
  <2>3. Shows(any) /\ (any.accepted => r = Len(reports) + 1)
    <3>1. CASE r = Len(reports) + 1
      BY <1>10, <1>11, <2>1, <3>1
    <3>2. CASE r \in 1 .. Len(reports)
      <4>1. any = reports[r]
        BY <1>11, <2>1, <3>2
      <4> QED
        BY <1>2, <3>2, <4>1 DEF GoalInv, ReportsGood
    <3> QED
      BY <2>2, <3>1, <3>2
  <2>4. Shows(any)'
    BY <1>12, <2>3, ShowsKept
  <2> QED
    BY <1>11, <2>1, <2>3, <2>4 DEF Shows
<1>14. ReportsGood'
  BY <1>5, <1>11, <1>13 DEF ReportsGood
<1> QED
  BY <1>1, <1>5, <1>12, <1>14, PlansStill, VplansStill, VerdictsStill, ReceiptsStill, FinishKeeps
  DEF GoalInv
-----------------------------------------------------------------------------
LEMMA GoalInvInit ==
    ASSUME Init
    PROVE  GoalInv
<1>1. /\ vplans = <<>> /\ verdicts = <<>> /\ gaps = {} /\ receipts = {} /\ reports = <<>>
      /\ ops = [h \in Handler |-> Idle]
  BY DEF Init, PlanningInit
<1>2. OpsGood
  BY <1>1 DEF OpsGood, OpGood, Idle
<1>3. VplansGood /\ VerdictsGood /\ ReceiptsGood /\ ReportsGood
  BY <1>1 DEF VplansGood, VerdictsGood, ReceiptsGood, ReportsGood
<1>4. goal \in GoalRow /\ specs \in Seq(SpecRow) /\ PlansGood
  <2>1. CASE ClarifiedGoal
    <3>1. goal \in GoalRow
      BY <2>1, PlanningAssumption DEF ClarifiedGoal, GoalRow, GoalStatus
    <3> QED
      BY <2>1, <3>1 DEF ClarifiedGoal, PlansGood
  <2>2. CASE VerifiedGoal
    <3>1. goal \in GoalRow
      BY <2>2, PlanningAssumption DEF VerifiedGoal, GoalRow, GoalStatus
    <3>2. PICK spec : spec = [status |-> "approved", contract |-> 1]
      OBVIOUS
    <3>3. PICK plan : plan = [status |-> "approved", version |-> 2, base |-> 0, spec |-> 1,
                              contract |-> 1, valid |-> TRUE, run |-> 0]
      OBVIOUS
    <3>4. specs = <<spec>> /\ plans = <<plan>>
      BY <2>2, <3>2, <3>3 DEF VerifiedGoal
    <3>5. spec \in SpecRow /\ plan \in PlanRow /\ plan.spec = 1 /\ plan.base = 0
      BY <3>2, <3>3 DEF SpecRow, PlanRow
    <3>6. /\ specs \in Seq(SpecRow) /\ plans \in Seq(PlanRow)
          /\ Len(specs) = 1 /\ Len(plans) = 1 /\ plans[1] = plan
      BY <3>4, <3>5
    <3> QED
      BY <3>1, <3>5, <3>6 DEF PlansGood
  <2> QED
    BY <2>1, <2>2 DEF Init, PlanningInit
<1> QED
  BY <1>2, <1>3, <1>4 DEF GoalInv

LEMMA GoalInvStep ==
    ASSUME GoalInv, [Next]_vars
    PROVE  GoalInv'
<1>1. CASE GoalStep /\ UNCHANGED acceptance
  BY <1>1, GoalStepKeeps
<1>2. CASE SpecStep /\ UNCHANGED acceptance
  BY <1>2, SpecStepKeeps
<1>3. ASSUME NEW h \in Handler, PlanningStep(h), UNCHANGED acceptance
      PROVE  GoalInv'
  BY <1>3, PlanningReads, AppendPlanKeeps, DecisionCommitKeeps DEF PlanningStep
<1>4. ASSUME NEW h \in Handler, AcceptanceStep(h)
      PROVE  GoalInv'
  <2>1. CASE \/ StartCompile(h) \/ CompileGoal(h) \/ CompilePlans(h)
             \/ StartVerify(h) \/ VerifyReads(h) \/ StartGap(h)
    BY <2>1, VerifyingReads
  <2>2. CASE AppendVplan(h)
    BY <2>2, AppendVplanKeeps
  <2>3. CASE \E result \in Finding, output \in VerifierOutput : AppendVerdict(h, result, output)
    BY <2>3, AppendVerdictKeeps
  <2>4. CASE AppendGap(h)
    BY <2>4, AppendGapKeeps
  <2>5. CASE \/ \E g \in gaps, k \in Key : StartRemedy(h, g, k)
             \/ RemedyLook(h) \/ RemedyDraft(h) \/ RemedyRaced(h)
    BY <2>5, RemedyReads
  <2>6. CASE RemedyAppend(h)
    BY <2>6, RemedyAppendKeeps
  <2>7. CASE SaveReceipt(h)
    BY <2>7, SaveReceiptKeeps
  <2>8. CASE \/ StartReport(h) \/ ReportReads(h) \/ SynchronizeGoal(h)
             \/ StartAccept(h) \/ AcceptGoal(h) \/ AcceptSnapshot(h)
    BY <2>8, AcceptingReads
  <2>9. CASE AppendReport(h)
    BY <2>9, AppendReportKeeps
  <2>10. CASE AcceptCommit(h)
    BY <2>10, AcceptCommitKeeps
  <2> QED
    BY <1>4, <2>1, <2>2, <2>3, <2>4, <2>5, <2>6, <2>7, <2>8, <2>9, <2>10 DEF AcceptanceStep
<1>5. CASE UNCHANGED vars
  <2>1. UNCHANGED <<planning, acceptance>> /\ UNCHANGED ops
    BY <1>5 DEF vars
  <2>2. Grew
    BY <2>1, QuietGrew
  <2> QED
    BY <2>1, <2>2, PlansStill, VplansStill, VerdictsStill, ReceiptsStill, ReportsStill, OpsStill
    DEF GoalInv, planning, acceptance
<1> QED
  BY <1>1, <1>2, <1>3, <1>4, <1>5 DEF Next

THEOREM GoalIsSound == Spec => []GoalInv
<1>1. Init => GoalInv
  BY GoalInvInit
<1>2. GoalInv /\ [Next]_vars => GoalInv'
  BY GoalInvStep
<1> QED
  BY <1>1, <1>2, PTL DEF Spec
-----------------------------------------------------------------------------
LEMMA GoalTypes ==
    ASSUME GoalInv
    PROVE  TypeOK
<1>1. \A v \in 1 .. Len(vplans) : vplans[v].plan <= Len(plans)
  BY DEF GoalInv, VplansGood, VplanGood
<1>2. \A v \in 1 .. Len(verdicts) : verdicts[v].vplan <= Len(vplans)
  BY Lengths DEF GoalInv, VerdictsGood, OfVplan
<1>3. receipts \subseteq ReceiptRow /\ \A r \in receipts : r.gap \in gaps
  BY DEF GoalInv, ReceiptsGood, Remedies
<1> QED
  BY <1>1, <1>2, <1>3
  DEF TypeOK, GoalInv, PlansGood, VplansGood, VerdictsGood, ReportsGood

(* However many people confirm the remediation of a gap report, at once or *)
(* again, its receipts name one plan, the revision right after the one that *)
(* failed (VerificationGapService.confirm, the remediation adapter).        *)
THEOREM ReceiptsAlwaysNameOnePlan == Spec => []ReceiptsNameOnePlan
<1>1. GoalInv => ReceiptsNameOnePlan
  <2> SUFFICES ASSUME GoalInv
               PROVE  ReceiptsNameOnePlan
    OBVIOUS
  <2>1. ASSUME NEW r \in receipts
        PROVE  /\ plans[r.plan].base = SourceOf(r.gap) /\ plans[r.plan].run = r.gap
               /\ SourceOf(r.gap) = r.plan - 1 /\ r.plan \in Nat
    <3>1. Remedies(r)
      BY DEF GoalInv, ReceiptsGood
    <3>2. r.plan \in 1 .. Len(plans)
      BY <3>1, Lengths DEF Remedies, ReceiptRow
    <3> QED
      BY <3>1, <3>2, Lengths DEF Remedies, GoalInv, PlansGood
  <2>2. ASSUME NEW r \in receipts, NEW q \in receipts, q.gap = r.gap
        PROVE  q.plan = r.plan
    <3>1. SourceOf(r.gap) = r.plan - 1 /\ r.plan \in Nat
      BY <2>1
    <3>2. SourceOf(r.gap) = q.plan - 1 /\ q.plan \in Nat
      BY <2>1, <2>2
    <3> QED
      BY <3>1, <3>2
  <2> QED
    BY <2>1, <2>2, GoalTypes DEF ReceiptsNameOnePlan
<1> QED
  BY <1>1, GoalIsSound, PTL

(* What a delivery report shows was verified for the contract it prints,    *)
(* whenever the goal was edited in between, and an accepted report is the   *)
(* last (verify, generate, accept).                                         *)
THEOREM ReportsAlwaysWereVerified == Spec => []ReportsWereVerified
<1>1. GoalInv => ReportsWereVerified
  <2> SUFFICES ASSUME GoalInv, NEW r \in 1 .. Len(reports)
               PROVE  /\ reports[r].accepted => r = Len(reports)
                      /\ verdicts[reports[r].verdict].passed
                      /\ vplans[verdicts[reports[r].verdict].vplan].contract = reports[r].contract
                      /\ plans[vplans[verdicts[reports[r].verdict].vplan].plan].status = "approved"
    BY DEF ReportsWereVerified
  <2>1. Shows(reports[r]) /\ (reports[r].accepted => r = Len(reports))
    BY DEF GoalInv, ReportsGood
  <2>2. reports[r].verdict \in 1 .. Len(verdicts)
    BY <2>1, Lengths DEF Shows, ReportRow
  <2>3. verdicts[reports[r].verdict].vplan \in 1 .. Len(vplans)
    BY <2>2 DEF GoalInv, VerdictsGood, OfVplan
  <2> QED
    BY <2>1, <2>3 DEF Shows, GoalInv, VplansGood, Approved
<1> QED
  BY <1>1, GoalIsSound, PTL
-----------------------------------------------------------------------------
\* One step of DecisionsStand, by the table it is about.
GoalStands == goal.status \in Closed => goal'.status = goal.status
PlansStand == \A p \in 1 .. Len(plans) : plans[p].status # "draft" => plans'[p] = plans[p]
SpecsStand ==
    \A s \in 1 .. Len(specs) :
        specs[s].status \in {"approved", "rejected"} => specs'[s] = specs[s]

LEMMA AppendStands ==
    ASSUME GoalInv, NEW d, AppendRow(d)
    PROVE  PlansStand
<1>1. PICK row : plans' = Append(plans, row)
  BY DEF AppendRow
<1>2. \A p \in 1 .. Len(plans) : plans'[p] = plans[p]
  BY <1>1 DEF GoalInv, PlansGood
<1> QED
  BY <1>2 DEF PlansStand

LEMMA CommitStands ==
    ASSUME GoalInv, NEW h \in Handler, DecisionCommit(h)
    PROVE  PlansStand
<1>1. CASE AsRead(plans[Arg(h).plan], Arg(h).version)
  <2>1. PICK n : n = Arg(h).plan
    OBVIOUS
  <2>2. PICK row : plans' = [plans EXCEPT ![n] = row]
    BY <1>1, <2>1 DEF DecisionCommit
  <2>3. plans[n].status = "draft"
    BY <1>1, <2>1 DEF AsRead
  <2>4. \A p \in 1 .. Len(plans) : p # n => plans'[p] = plans[p]
    BY <2>2 DEF GoalInv, PlansGood
  <2> QED
    BY <2>3, <2>4 DEF PlansStand
<1>2. CASE ~AsRead(plans[Arg(h).plan], Arg(h).version)
  BY <1>2 DEF DecisionCommit, PlansStand
<1> QED
  BY <1>1, <1>2

LEMMA SpecStepStands ==
    ASSUME GoalInv, SpecStep
    PROVE  SpecsStand
<1>1. specs \in Seq(SpecRow)
  BY DEF GoalInv
<1>2. CASE GenerateSpec
  <2>1. PICK row : row = NewSpec
    OBVIOUS
  <2>2. \A s \in 1 .. Len(specs) : specs'[s] = specs[s]
    BY <1>1, <1>2, <2>1 DEF GenerateSpec
  <2> QED
    BY <2>2 DEF SpecsStand
<1>3. CASE \E s \in {"in_review", "approved", "rejected"} : DecideSpec(s)
  <2>1. PICK s \in {"in_review", "approved", "rejected"} : DecideSpec(s)
    BY <1>3
  <2>2. PICK row : row = [specs[Len(specs)] EXCEPT !.status = s]
    OBVIOUS
  <2>3. specs' = [specs EXCEPT ![Len(specs)] = row]
    BY <2>1, <2>2 DEF DecideSpec
  <2>4. specs[Len(specs)].status \in {"draft", "in_review"}
    BY <2>1 DEF DecideSpec, SpecDecidable, Newest
  <2>5. \A n \in 1 .. Len(specs) : n # Len(specs) => specs'[n] = specs[n]
    BY <1>1, <2>3
  <2> QED
    BY <2>4, <2>5 DEF SpecsStand
<1> QED
  BY <1>2, <1>3 DEF SpecStep

LEMMA StillStands ==
    /\ UNCHANGED goal => GoalStands
    /\ UNCHANGED plans => PlansStand
    /\ UNCHANGED specs => SpecsStand
BY DEF GoalStands, PlansStand, SpecsStand

LEMMA NextStands ==
    ASSUME GoalInv, [Next]_vars
    PROVE  GoalStands /\ PlansStand /\ SpecsStand
<1>1. CASE GoalStep
  <2>1. GoalStands
    BY <1>1 DEF GoalStep, EditGoal, Edited, Transition, Follows, Closed, GoalStands, GoalInv, GoalRow
  <2> QED
    BY <1>1, <2>1, StillStands DEF GoalStep, EditGoal, Transition
<1>2. CASE SpecStep
  BY <1>2, SpecStepStands, StillStands DEF SpecStep, GenerateSpec, DecideSpec
<1>3. ASSUME NEW h \in Handler, PlanningStep(h)
      PROVE  GoalStands /\ PlansStand /\ SpecsStand
  <2>1. CASE AppendPlan(h)
    BY <2>1, AppendStands, StillStands DEF AppendPlan
  <2>2. CASE DecisionCommit(h)
    BY <2>2, CommitStands, StillStands DEF DecisionCommit
  <2>3. CASE \/ ReadContract(h) \/ ReadSpec(h) \/ Planned(h) \/ RevisePlan(h)
             \/ \E d \in {"approved", "rejected", "draft"} : StartDecision(h, d)
             \/ DecisionSnapshot(h) \/ Abandon(h)
    <3>1. UNCHANGED planning
      BY <2>3
      DEF ReadContract, ReadSpec, Planned, RevisePlan, StartDecision, DecisionSnapshot, Abandon
    <3> QED
      BY <3>1, StillStands DEF planning
  <2> QED
    BY <1>3, <2>1, <2>2, <2>3 DEF PlanningStep
<1>4. ASSUME NEW h \in Handler, AcceptanceStep(h)
      PROVE  GoalStands /\ PlansStand /\ SpecsStand
  <2>1. CASE RemedyAppend(h)
    BY <2>1, AppendStands, StillStands DEF RemedyAppend
  <2>2. CASE AcceptCommit(h)
    <3>1. GoalStands
      BY <2>2 DEF AcceptCommit, StillVerifying, GoalStands, Closed
    <3> QED
      BY <2>2, <3>1, StillStands DEF AcceptCommit
  <2>3. CASE ~RemedyAppend(h) /\ ~AcceptCommit(h)
    <3>1. UNCHANGED planning
      BY <1>4, <2>3
      DEF AcceptanceStep, StartCompile, CompileGoal, CompilePlans, AppendVplan, StartVerify,
          VerifyReads, AppendVerdict, StartGap, AppendGap, StartRemedy, RemedyLook, RemedyDraft,
          RemedyRaced, SaveReceipt, StartReport, ReportReads, SynchronizeGoal, AppendReport,
          StartAccept, AcceptGoal, AcceptSnapshot
    <3> QED
      BY <3>1, StillStands DEF planning
  <2> QED
    BY <2>1, <2>2, <2>3
<1>5. CASE UNCHANGED vars
  BY <1>5, StillStands DEF vars, planning
<1> QED
  BY <1>1, <1>2, <1>3, <1>4, <1>5 DEF Next

(* What was decided stays decided: an approved or rejected revision of a    *)
(* plan or a specification, and a closed goal, whoever decides from a stale *)
(* page (commitApproval, commitTransition, acceptDeliveryReport).           *)
THEOREM DecisionsAlwaysStand == Spec => DecisionsStand
<1>1. GoalInv /\ [Next]_vars =>
        [/\ goal.status \in Closed => goal'.status = goal.status
         /\ \A p \in 1 .. Len(plans) : plans[p].status # "draft" => plans'[p] = plans[p]
         /\ \A s \in 1 .. Len(specs) :
              specs[s].status \in {"approved", "rejected"} => specs'[s] = specs[s]]_planning
  BY NextStands DEF GoalStands, PlansStand, SpecsStand
<1> QED
  BY <1>1, GoalIsSound, PTL DEF Spec, DecisionsStand
=============================================================================
