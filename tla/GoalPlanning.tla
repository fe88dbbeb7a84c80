----------------------------- MODULE GoalPlanning -----------------------------
(***************************************************************************)
(* One Goal of the control plane: the contract its owner edits, the        *)
(* statuses it goes through, its specifications, and the issue plans made  *)
(* from them.                                                              *)
(*                                                                         *)
(* Requests run in handlers.  A request reads with queries of their own,   *)
(* may wait for a planner or a verifier, and commits at the end; so what   *)
(* it read is kept in ops.  A request whose transaction repeats every      *)
(* check it made before (a goal edit, a transition, a specification) is    *)
(* one step.  A request that is refused, or replays a stored receipt,      *)
(* changes nothing: it does not begin, or stays until it is abandoned.     *)
(*                                                                         *)
(* The queries of one request run in parallel.  They are taken in an order *)
(* that loses no outcome: what has to be unchanged since a row the request *)
(* was given (the newest revision, the version of the goal) is read first, *)
(* because if it is so at the end it was so at the start; the list whose   *)
(* length numbers the new row is read last.                                *)
(*                                                                         *)
(* Revisions are counted by their place: the first plan is plans[1].       *)
(***************************************************************************)
EXTENDS Integers, Sequences, FiniteSets, TLC

CONSTANTS
    Handler,         \* requests under way
    MaxChanges,      \* bound: edits and transitions of the goal
    MaxSpecs,        \* bound: specification revisions
    MaxPlans,        \* bound: issue plan revisions, for the planner and for revisions
    MaxPlanVersion   \* bound: version of one plan revision

ASSUME PlanningAssumption ==
    /\ MaxChanges \in Nat /\ MaxSpecs \in Nat /\ MaxPlans \in Nat /\ MaxPlanVersion \in Nat

VARIABLES
    goal,       \* goals: status, version, and the contract (its criteria)
    specs,      \* spec_revisions
    plans,      \* issue_plan_revisions
    ops         \* the request each handler runs

planning == <<goal, specs, plans>>

GoalStatus == {"draft", "clarifying", "planning", "approved", "executing", "verifying",
               "completed", "cancelled"}
Closed == {"completed", "cancelled"}
Idle == [kind |-> "idle"]

(* The rows, as far as they are told apart. *)
GoalRow == [status : GoalStatus, version : Nat \ {0}, contract : Nat \ {0}, changes : 0 .. MaxChanges]
SpecRow == [status : {"draft", "in_review", "approved", "rejected"}, contract : Nat \ {0}]
\* run is the planner run: 0 for the planner, else the gap report it answers.
PlanRow == [status : {"draft", "approved", "rejected"}, version : Nat \ {0}, base : Nat,
            spec : Nat \ {0}, contract : Nat \ {0}, valid : BOOLEAN, run : Nat]

\* A goal that has been clarified, or one whose plan was carried out.
ClarifiedGoal ==
    /\ goal = [status |-> "planning", version |-> 3, contract |-> 1, changes |-> 0]
    /\ specs = <<>> /\ plans = <<>>
VerifiedGoal ==
    /\ goal = [status |-> "verifying", version |-> 6, contract |-> 1, changes |-> 0]
    /\ specs = <<[status |-> "approved", contract |-> 1]>>
    /\ plans = <<[status |-> "approved", version |-> 2, base |-> 0, spec |-> 1,
                  contract |-> 1, valid |-> TRUE, run |-> 0]>>
PlanningInit ==
    /\ ClarifiedGoal \/ VerifiedGoal
    /\ ops = [h \in Handler |-> Idle]
-----------------------------------------------------------------------------
Doing(h, kind) == ops[h].kind = kind
Become(h, kind, arg) == ops' = [ops EXCEPT ![h] = [kind |-> kind, arg |-> arg]]
Begin(h, kind, arg) == ops[h] = Idle /\ Become(h, kind, arg)
Finish(h) == ops' = [ops EXCEPT ![h] = Idle]
Arg(h) == ops[h].arg

Newest(rows) == rows[Len(rows)]
-----------------------------------------------------------------------------
\* The goal.  The guards of a transition are claims of the client, and an edit
\* is taken in any status; both are refused when the version has moved.
Follows == {<<"draft", "clarifying">>, <<"clarifying", "planning">>, <<"planning", "approved">>,
            <<"approved", "executing">>, <<"executing", "verifying">>,
            <<"verifying", "completed">>}
                \cup {<<s, "cancelled">> : s \in GoalStatus \ Closed}

Moved(s) == [goal EXCEPT !.status = s, !.version = @ + 1, !.changes = @ + 1]
Transition(s) ==
    /\ <<goal.status, s>> \in Follows /\ goal.changes < MaxChanges
    /\ goal' = Moved(s)
    /\ UNCHANGED <<specs, plans, ops>>

Edited == [goal EXCEPT !.version = @ + 1, !.contract = goal.version + 1, !.changes = @ + 1]
EditGoal ==
    /\ goal.changes < MaxChanges
    /\ goal' = Edited
    /\ UNCHANGED <<specs, plans, ops>>

\* The specification: both transactions hold the goal row and look again.
NewSpec == [status |-> "draft", contract |-> goal.contract]
GenerateSpec ==
    /\ goal.status = "planning" /\ Len(specs) < MaxSpecs
    /\ specs' = Append(specs, NewSpec)
    /\ UNCHANGED <<goal, plans, ops>>

SpecDecidable(s, status) == s.status = IF status = "in_review" THEN "draft" ELSE "in_review"
DecideSpec(status) ==
    /\ specs # <<>> /\ SpecDecidable(Newest(specs), status)
    /\ specs' = [specs EXCEPT ![Len(specs)].status = status]
    /\ UNCHANGED <<goal, plans, ops>>
-----------------------------------------------------------------------------
\* generate: the goal, the newest specification, the planner, then createDraft.
ReadContract(h) ==
    /\ Begin(h, "generate", [contract |-> goal.contract])
    /\ UNCHANGED planning

ReadSpec(h) ==
    /\ Doing(h, "generate") /\ specs # <<>> /\ Newest(specs).status = "approved"
    /\ Become(h, "planner", [contract |-> Arg(h).contract, spec |-> Len(specs)])
    /\ UNCHANGED planning

\* The issues a planner or a person hands in, once they are well formed: what the
\* compiler finds of them is that they cover the criteria and hang together, or not.
IssuePlanDraft == {"complete", "deficient"}
\* The bundle of a specification refers to the criteria it was made for.
Bundle(s) == specs[s].contract
\* The criteria of the goal have to be those of the specification too.
Compiles(spec, contract, issues) == issues = "complete" /\ Bundle(spec) = contract

\* build: a plan that does not compile is a draft all the same.
Draft(spec, contract, run, issues) ==
    [spec |-> spec, contract |-> contract, run |-> run, base |-> Len(plans),
     valid |-> Compiles(spec, contract, issues)]

Planned(h) ==
    /\ Doing(h, "planner")
    /\ \E issues \in IssuePlanDraft :
         Become(h, "append", Draft(Arg(h).spec, Arg(h).contract, 0, issues))
    /\ UNCHANGED planning

\* revise: the same sources with other issues.
RevisePlan(h) ==
    /\ plans # <<>> /\ Newest(plans).status = "draft"
    /\ \E issues \in IssuePlanDraft :
         Begin(h, "append",
               Draft(Newest(plans).spec, Newest(plans).contract, Newest(plans).run, issues))
    /\ UNCHANGED planning

\* append, which looks only for the revision it follows.
StillNewest(base) == Len(plans) = base
AppendRow(d) ==
    plans' = Append(plans, [status |-> "draft", version |-> 1, base |-> d.base, spec |-> d.spec,
                            contract |-> d.contract, valid |-> d.valid, run |-> d.run])
AppendPlan(h) ==
    /\ Doing(h, "append") /\ Len(plans) < MaxPlans
    /\ IF StillNewest(Arg(h).base) THEN AppendRow(Arg(h)) ELSE UNCHANGED plans
    /\ Finish(h)
    /\ UNCHANGED <<goal, specs>>

\* approve: the newest plan, a draft, and for an approval a valid one.
Decidable(p, decision) == p.status = "draft" /\ (decision = "approved" => p.valid)
StartDecision(h, decision) ==
    /\ plans # <<>> /\ Decidable(Newest(plans), decision)
    /\ Begin(h, "decide", [plan |-> Len(plans), version |-> Newest(plans).version,
                           decision |-> decision])
    /\ UNCHANGED planning

\* commitApproval: the statement that looks for a newer plan and locks the row
\* sees newer plans as of its start, and the row as of when it got the lock.
DecisionSnapshot(h) ==
    /\ Doing(h, "decide")
    /\ IF Arg(h).plan = Len(plans) THEN Become(h, "locked", Arg(h)) ELSE Finish(h)
    /\ UNCHANGED planning

\* Mutant of AsRead: the version of the plan is not compared.
AsReadMutant(p, version) == TRUE
AsRead(p, version) == p.version = version /\ p.status = "draft"
DecisionCommit(h) ==
    /\ Doing(h, "locked") /\ Arg(h).version < MaxPlanVersion
    /\ plans' = IF AsRead(plans[Arg(h).plan], Arg(h).version)
                THEN [plans EXCEPT ![Arg(h).plan].status = Arg(h).decision,
                                   ![Arg(h).plan].version = @ + 1]
                ELSE plans
    /\ Finish(h)
    /\ UNCHANGED <<goal, specs>>
\* The process of a request ends.
Abandon(h) == ops[h] # Idle /\ Finish(h) /\ UNCHANGED planning
-----------------------------------------------------------------------------
PlanningStep(h) ==
    \/ ReadContract(h) \/ ReadSpec(h) \/ Planned(h) \/ RevisePlan(h) \/ AppendPlan(h)
    \/ \E d \in {"approved", "rejected", "draft"} : StartDecision(h, d)
    \/ DecisionSnapshot(h) \/ DecisionCommit(h)
    \/ Abandon(h)
SpecStep == GenerateSpec \/ \E s \in {"in_review", "approved", "rejected"} : DecideSpec(s)
GoalStep == EditGoal \/ \E s \in GoalStatus : Transition(s)
-----------------------------------------------------------------------------
(* What was decided stays decided: two people deciding the same plan at    *)
(* once, or one whose page is stale, cannot change an approved or rejected *)
(* revision (commitApproval); and a completed or cancelled goal stays so,  *)
(* whatever acceptance or transition was prepared before                   *)
(* (acceptDeliveryReport, commitTransition).                               *)
DecisionsStand ==
    [][/\ goal.status \in Closed => goal'.status = goal.status
       /\ \A p \in 1 .. Len(plans) : plans[p].status # "draft" => plans'[p] = plans[p]
       /\ \A s \in 1 .. Len(specs) :
            specs[s].status \in {"approved", "rejected"} => specs'[s] = specs[s]]_planning
=============================================================================
