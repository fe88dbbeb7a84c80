----------------------------- MODULE GitDelivery -----------------------------
(***************************************************************************)
(* The delivery of one candidate: a verified worktree is committed, its    *)
(* commit reviewed, pushed, proposed and merged (DeliveryOrchestrator).    *)
(*                                                                         *)
(* checkpoint, deliver and land run in handlers, any number of them at     *)
(* once and again under the same key.  Each alternates between an effect   *)
(* in Git or at GitHub and a transaction that records it, and may stop     *)
(* between the two.  The transaction holds the candidate, and does nothing *)
(* when its operation key has a receipt: the handler goes on with the      *)
(* candidate the receipt shows.  (The receipt is looked up before the row  *)
(* is locked; a request that waited then fails instead of replaying.)      *)
(*                                                                         *)
(* Keys are told apart by operation: no client uses one key for two.       *)
(***************************************************************************)
EXTENDS Integers, Sequences, FiniteSets

CONSTANTS
    Handler,      \* requests under way
    Keys,         \* the idempotency keys clients use for each operation
    MaxFaults,    \* bound: requests whose process ends, or whose call fails
    MaxOutside,   \* bound: policy revisions, and what people do at GitHub
    MaxPulls      \* bound: pull requests

ASSUME DeliveryAssumption == {MaxFaults, MaxOutside, MaxPulls} \subseteq Nat

VARIABLES
    candidate,  \* delivery_candidates: state, version, commit_sha, and the pull request
    receipts,   \* delivery_operation_receipts, by operation, key and step
    approved,   \* commits with an approved review
    policy,     \* mode of the newest delivery policy
    head,       \* HEAD of the worktree: the baseline, or the commit made from it
    remote,     \* the branch at GitHub
    pulls,      \* pull requests from that branch
    ops,        \* the request each handler runs
    spent       \* bounded events used so far

github == <<remote, pulls>>
vars == <<candidate, receipts, approved, policy, head, github, ops, spent>>

Baseline == "baseline"
Commit == "commit"
Nowhere == "nowhere"
Mode == {"push_disabled", "push_branch", "push_and_open_pr"}
Idle == [pc |-> "idle"]

Init ==
    /\ candidate = [state |-> "verified", version |-> 1, commit |-> Nowhere, pull |-> 0]
    /\ receipts = {} /\ approved = {}
    /\ policy \in Mode
    /\ head = Baseline /\ remote = Nowhere /\ pulls = <<>>
    /\ ops = [h \in Handler |-> Idle]
    /\ spent = [faults |-> 0, outside |-> 0]
-----------------------------------------------------------------------------
\* A request: its operation and key, the candidate as it last saw it, and what
\* the policy said or the pull request it is about.
Begin(h, op, k, pc) ==
    /\ ops[h] = Idle
    /\ ops' = [ops EXCEPT ![h] = [pc |-> pc, op |-> op, key |-> k, seen |-> candidate,
                                  mode |-> "push_disabled", pull |-> candidate.pull]]
Doing(h, pc) == ops[h].pc = pc
Goto(h, pc) == ops' = [ops EXCEPT ![h].pc = pc]
Finish(h) == ops' = [ops EXCEPT ![h] = Idle]
Seen(h) == ops[h].seen

Receipts(op, k, step) == {r \in receipts : r.op = op /\ r.key = k /\ r.step = step}
Replayed(op, k) == Receipts(op, k, "all") # {}

\* Mutant of Fresh: the state the transition starts from is not compared, nor
\* the version.
FreshMutant(seen, from) == TRUE
Fresh(seen, from) == candidate.version = seen.version /\ candidate.state \in from

\* transition: replay, or move on, or throw.
Move(h, step, from, next, pc) ==
    LET old == Receipts(ops[h].op, ops[h].key, step)
        shown == (CHOOSE r \in old : TRUE).shows
        new == [next EXCEPT !.version = candidate.version + 1] IN
    IF old # {}
    THEN /\ ops' = [ops EXCEPT ![h] = [@ EXCEPT !.pc = pc, !.seen = shown]]
         /\ UNCHANGED <<candidate, receipts>>
    ELSE IF Fresh(Seen(h), from)
    THEN /\ candidate' = new
         /\ receipts' = receipts \cup {[op |-> ops[h].op, key |-> ops[h].key,
                                        step |-> step, shows |-> new]}
         /\ ops' = [ops EXCEPT ![h] = [@ EXCEPT !.pc = pc, !.seen = new]]
    ELSE Finish(h) /\ UNCHANGED <<candidate, receipts>>

\* rememberOperation: the receipt of the whole request shows the candidate as it
\* is.  (That of a checkpoint is its only step.)
Remember(h) ==
    /\ Doing(h, "remember")
    /\ receipts' = IF Replayed(ops[h].op, ops[h].key) THEN receipts
                   ELSE receipts \cup {[op |-> ops[h].op, key |-> ops[h].key,
                                        step |-> "all", shows |-> candidate]}
    /\ Finish(h)
    /\ UNCHANGED <<candidate, approved, policy, head, github, spent>>
-----------------------------------------------------------------------------
\* checkpoint.
StartCheckpoint(h, k) ==
    /\ ~Replayed("checkpoint", k) /\ candidate.state = "verified"
    /\ Begin(h, "checkpoint", k, "look")
    /\ UNCHANGED <<candidate, receipts, approved, policy, head, github, spent>>

\* createCommit: a commit made from the baseline before is taken as the answer.
LookAtWorktree(h) ==
    /\ Doing(h, "look")
    /\ Goto(h, IF head = Commit THEN "committed" ELSE "commit")
    /\ UNCHANGED <<candidate, receipts, approved, policy, head, github, spent>>

\* git refuses a commit without changes.
CreateCommit(h) ==
    /\ Doing(h, "commit")
    /\ IF head = Baseline THEN head' = Commit /\ Goto(h, "committed")
                          ELSE Finish(h) /\ UNCHANGED head
    /\ UNCHANGED <<candidate, receipts, approved, policy, github, spent>>

Committed(h) ==
    /\ Doing(h, "committed")
    /\ Move(h, "all", {"verified"},
            [candidate EXCEPT !.state = "committed", !.commit = Commit], "remember")
    /\ UNCHANGED <<approved, policy, head, github, spent>>

-----------------------------------------------------------------------------
\* deliver.
StartDeliver(h, k) ==
    /\ ~Replayed("deliver", k) /\ candidate.commit # Nowhere
    /\ Begin(h, "deliver", k, IF candidate.state \in {"local_ready", "pr_open"}
                              THEN "remember" ELSE "review")
    /\ UNCHANGED <<candidate, receipts, approved, policy, head, github, spent>>

Reviewed(commit) == commit \in approved
CheckReview(h) ==
    /\ Doing(h, "review")
    /\ IF ~Reviewed(Seen(h).commit) THEN Finish(h) /\ UNCHANGED <<candidate, receipts>>
       ELSE IF Seen(h).state = "committed"
       THEN Move(h, "review", {"committed"}, [candidate EXCEPT !.state = "reviewed"], "policy")
       ELSE Goto(h, "policy") /\ UNCHANGED <<candidate, receipts>>
    /\ UNCHANGED <<approved, policy, head, github, spent>>

ReadPolicy(h) ==
    /\ Doing(h, "policy")
    /\ LET pc == CASE policy # "push_disabled" -> "push"
                   [] Seen(h).state = "branch_pushed" -> "remember"
                   [] OTHER -> "local"
       IN  ops' = [ops EXCEPT ![h] = [@ EXCEPT !.pc = pc, !.mode = policy]]
    /\ UNCHANGED <<candidate, receipts, approved, policy, head, github, spent>>

LocalReady(h) ==
    /\ Doing(h, "local")
    /\ Move(h, "local", {"reviewed"}, [candidate EXCEPT !.state = "local_ready"], "remember")
    /\ UNCHANGED <<approved, policy, head, github, spent>>

\* pushBranch: not forced, so a branch with another commit refuses it.
PushBranch(h) ==
    /\ Doing(h, "push")
    /\ IF Seen(h).state # "reviewed" THEN Goto(h, "propose") /\ UNCHANGED remote
       ELSE IF remote \in {Nowhere, Commit} THEN remote' = Commit /\ Goto(h, "pushed")
       ELSE Finish(h) /\ UNCHANGED remote
    /\ UNCHANGED <<candidate, receipts, approved, policy, head, pulls, spent>>

Pushed(h) ==
    /\ Doing(h, "pushed")
    /\ Move(h, "push", {"reviewed"}, [candidate EXCEPT !.state = "branch_pushed"], "propose")
    /\ UNCHANGED <<approved, policy, head, github, spent>>

\* openPullRequest looks for an open one at this commit, else creates one.
Open(p) == pulls[p].state = "open"
LookForPull(h) ==
    /\ Doing(h, "propose")
    /\ IF ops[h].mode # "push_and_open_pr" \/ Seen(h).state # "branch_pushed"
       THEN Goto(h, "remember")
       ELSE LET found == {p \in 1 .. Len(pulls) : Open(p) /\ pulls[p].head = Commit} IN
            IF found = {} THEN Goto(h, "create")
            ELSE ops' = [ops EXCEPT ![h] =
                            [@ EXCEPT !.pc = "opened", !.pull = CHOOSE p \in found : TRUE]]
    /\ UNCHANGED <<candidate, receipts, approved, policy, head, github, spent>>

\* GitHub keeps one open pull request for a branch; one that shows another
\* commit is not what was asked for.
CreatePull(h) ==
    /\ Doing(h, "create")
    /\ IF \E p \in 1 .. Len(pulls) : Open(p)
       THEN Finish(h) /\ UNCHANGED pulls
       ELSE /\ Len(pulls) < MaxPulls
            /\ pulls' = Append(pulls, [state |-> "open", head |-> remote, by |-> "nobody"])
            /\ IF remote = Commit
               THEN ops' = [ops EXCEPT ![h] = [@ EXCEPT !.pc = "opened", !.pull = Len(pulls')]]
               ELSE Finish(h)
    /\ UNCHANGED <<candidate, receipts, approved, policy, head, remote, spent>>

PullOpened(h) ==
    /\ Doing(h, "opened")
    /\ Move(h, "pr", {"branch_pushed"},
            [candidate EXCEPT !.state = "pr_open", !.pull = ops[h].pull], "remember")
    /\ UNCHANGED <<approved, policy, head, github, spent>>
-----------------------------------------------------------------------------
\* land, with the human gate approved and the platform's checks passed.
\* Mutant of Landable: a landing that has begun is not taken up again.
LandableMutant(c) == c.state = "pr_open"
Landable(c) == c.state \in {"pr_open", "landing"}
StartLand(h, k) ==
    /\ ~Replayed("land", k)
    /\ \/ candidate.state = "landed" /\ Begin(h, "land", k, "remember")
       \/ Landable(candidate) /\ candidate.pull # 0 /\ Begin(h, "land", k, "permit")
    /\ UNCHANGED <<candidate, receipts, approved, policy, head, github, spent>>

PermitLanding(h) ==
    /\ Doing(h, "permit")
    /\ IF policy # "push_and_open_pr" THEN Finish(h)
       ELSE Goto(h, IF Seen(h).state = "pr_open" THEN "start" ELSE "inspect")
    /\ UNCHANGED <<candidate, receipts, approved, policy, head, github, spent>>

LandingStarts(h) ==
    /\ Doing(h, "start")
    /\ Move(h, "start", {"pr_open"}, [candidate EXCEPT !.state = "landing"], "inspect")
    /\ UNCHANGED <<approved, policy, head, github, spent>>

\* mergePullRequest asks GitHub for the pull request and then to merge it, if
\* its head is still the reviewed commit.
\* Mutant of Unchanged: the head is not compared.
UnchangedMutant(p) == TRUE
Unchanged(p) == pulls[p].head = Commit
Pull(h) == Seen(h).pull
InspectPull(h) ==
    /\ Doing(h, "inspect")
    /\ IF ~Unchanged(Pull(h)) THEN Finish(h)
       ELSE Goto(h, IF pulls[Pull(h)].state = "merged" THEN "landed" ELSE "merge")
    /\ UNCHANGED <<candidate, receipts, approved, policy, head, github, spent>>

MergePull(h) ==
    /\ Doing(h, "merge")
    /\ IF Open(Pull(h)) /\ Unchanged(Pull(h))
       THEN /\ pulls' = [pulls EXCEPT ![Pull(h)] =
                            [@ EXCEPT !.state = "merged", !.by = "harness"]]
            /\ Goto(h, "landed")
       ELSE Finish(h) /\ UNCHANGED pulls
    /\ UNCHANGED <<candidate, receipts, approved, policy, head, remote, spent>>

Landed(h) ==
    /\ Doing(h, "landed")
    /\ Move(h, "landed", {"landing"}, [candidate EXCEPT !.state = "landed"], "remember")
    /\ UNCHANGED <<approved, policy, head, github, spent>>
-----------------------------------------------------------------------------
\* The reviewer approves the commit the candidate has.
Approve ==
    /\ candidate.commit \notin approved \cup {Nowhere}
    /\ approved' = approved \cup {candidate.commit}
    /\ UNCHANGED <<candidate, receipts, policy, head, github, ops, spent>>

Outside == spent.outside < MaxOutside /\ spent' = [spent EXCEPT !.outside = @ + 1]

RevisePolicy ==
    /\ Outside /\ \E mode \in Mode \ {policy} : policy' = mode
    /\ UNCHANGED <<candidate, receipts, approved, head, github, ops>>

\* Somebody pushes to the branch; merges or closes the pull request.
PushByOther ==
    /\ Outside /\ remote = Commit /\ remote' = "other"
    /\ pulls' = [p \in 1 .. Len(pulls) |->
                   IF Open(p) THEN [pulls[p] EXCEPT !.head = "other"] ELSE pulls[p]]
    /\ UNCHANGED <<candidate, receipts, approved, policy, head, ops>>

PullEndedByOther ==
    /\ Outside
    /\ \E p \in 1 .. Len(pulls), s \in {"merged", "closed"} :
         /\ Open(p)
         /\ pulls' = [pulls EXCEPT ![p] = [@ EXCEPT !.state = s, !.by = "human"]]
    /\ UNCHANGED <<candidate, receipts, approved, policy, head, remote, ops>>

\* The process of a request ends, or a call it makes fails.
Fault(h) ==
    /\ ops[h] # Idle /\ spent.faults < MaxFaults
    /\ Finish(h) /\ spent' = [spent EXCEPT !.faults = @ + 1]
    /\ UNCHANGED <<candidate, receipts, approved, policy, head, github>>

Step(h) ==
    \/ LookAtWorktree(h) \/ CreateCommit(h) \/ Committed(h)
    \/ CheckReview(h) \/ ReadPolicy(h) \/ LocalReady(h)
    \/ PushBranch(h) \/ Pushed(h) \/ LookForPull(h) \/ CreatePull(h) \/ PullOpened(h)
    \/ PermitLanding(h) \/ LandingStarts(h) \/ InspectPull(h) \/ MergePull(h) \/ Landed(h)
    \/ Remember(h)

Next ==
    \/ \E h \in Handler : \E k \in Keys["checkpoint"] : StartCheckpoint(h, k)
    \/ \E h \in Handler : \E k \in Keys["deliver"] : StartDeliver(h, k)
    \/ \E h \in Handler : \E k \in Keys["land"] : StartLand(h, k)
    \/ \E h \in Handler : Step(h) \/ Fault(h)
    \/ Approve \/ RevisePolicy \/ PushByOther \/ PullEndedByOther

Spec == Init /\ [][Next]_vars
-----------------------------------------------------------------------------
\* What the rows and the requests hold.  The version of the candidate counts the
\* moves it has made: each is made from the state before it, and none is undone.
Moves == [verified |-> 1, committed |-> 2, reviewed |-> 3, local_ready |-> 4,
          branch_pushed |-> 4, pr_open |-> 5, landing |-> 6, landed |-> 7]
Candidate == {c \in [state : DOMAIN Moves, version : Nat, commit : {Nowhere, Commit},
                     pull : Nat] :
    /\ c.version = Moves[c.state]
    /\ c.commit = Commit <=> c.version > 1
    /\ c.pull # 0 <=> c.version > 4}
Operation == {"checkpoint", "deliver", "land"}
Key == UNION {Keys[op] : op \in Operation}
Stage == {"look", "commit", "committed", "review", "policy", "local", "push", "pushed",
          "propose", "create", "opened", "permit", "start", "inspect", "merge", "landed",
          "remember"}
Request == [pc : Stage, op : Operation, key : Key, seen : Candidate, mode : Mode,
            pull : Nat]
ReceiptRow == [op : Operation, key : Key, shows : Candidate,
               step : {"all", "review", "local", "push", "pr", "start", "landed"}]
PullRow == [state : {"open", "merged", "closed"}, head : {Commit, "other"},
            by : {"nobody", "human", "harness"}]
DeliveryTypes ==
    /\ candidate \in Candidate
    /\ receipts \in SUBSET ReceiptRow
    /\ approved \in SUBSET {Commit} /\ policy \in Mode
    /\ head \in {Baseline, Commit} /\ remote \in {Nowhere, Commit, "other"}
    /\ pulls \in Seq(PullRow)
    /\ ops \in [Handler -> Request \cup {Idle}]
    /\ spent \in [faults : Nat, outside : Nat]

(* What the harness merges is the pull request it recorded, at the commit    *)
(* that was reviewed, and nothing else and never twice: not when a crash     *)
(* hides the first merge, not when somebody pushed to the branch meanwhile,  *)
(* and not when a late deliver has opened another pull request (land).       *)
MergedIsReviewed ==
    \A p \in 1 .. Len(pulls) : pulls[p].by = "harness" =>
        /\ p = candidate.pull /\ pulls[p].head \in approved
        /\ \A q \in 1 .. Len(pulls) : pulls[q].by = "harness" => q = p

(* The candidate never says more than Git and GitHub have: a commit, an      *)
(* approved review, a pushed branch, a pull request that was opened at that  *)
(* commit, a merge; and a request that is answered from its receipt had done *)
(* its work (transition, rememberOperation).                                 *)
CandidateIsTrue ==
    /\ candidate.commit = Commit => head = Commit
    /\ candidate.state \notin {"verified", "committed"} => candidate.commit \in approved
    /\ candidate.state \in {"branch_pushed", "pr_open", "landing", "landed"} => remote # Nowhere
    /\ candidate.state \in {"pr_open", "landing", "landed"} => candidate.pull \in 1 .. Len(pulls)
    /\ candidate.state = "landed" =>
         pulls[candidate.pull].state = "merged" /\ pulls[candidate.pull].head = Commit
    /\ \A r \in receipts : r.step = "all" =>
         /\ r.op = "deliver" => r.shows.state \notin {"verified", "committed", "reviewed"}
         /\ r.op = "land" => r.shows.state = "landed" /\ candidate.state = "landed"
-----------------------------------------------------------------------------
(* A request goes on until it is over, and the landing is asked for again    *)
(* until it has happened.                                                    *)
Fairness ==
    /\ \A h \in Handler : WF_vars(Step(h))
    /\ WF_vars(\E h \in Handler : \E k \in Keys["land"] : StartLand(h, k))
LiveSpec == Spec /\ Fairness

(* A landing that has begun ends, whatever crashes between the merge and its *)
(* record, unless the policy or the pull request is changed by somebody else *)
(* (land's recovery from the state landing).                                 *)
LandingCompletes ==
    candidate.state = "landing" ~> (candidate.state = "landed" \/ spent.outside > 0)
=============================================================================
