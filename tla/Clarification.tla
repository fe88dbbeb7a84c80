--------------------------- MODULE Clarification ---------------------------
(***************************************************************************)
(* The questions a planner asks about a goal, and their answers.            *)
(*                                                                         *)
(* Questions come in rounds, each for a version of the goal; an answer adds *)
(* a revision to the thread of its question and a decision to the chain of  *)
(* that thread.  Both start from a timeline that is read by three queries   *)
(* at once, outside of the transaction that adds to it.                     *)
(***************************************************************************)
EXTENDS Integers, Sequences, FiniteSets

CONSTANTS
    Question,     \* the questions of a round
    MaxRounds,    \* bounds on rounds, on the versions of the goal,
    MaxVersions,  \* on answers to a thread
    MaxAnswers,
    MaxPending    \* and on requests under way

ASSUME RoundsAreCounted == MaxRounds \in Nat

Unread == -1

VARIABLES
    goal,        \* the version of the goal
    rounds,      \* clarification_rounds: the version each was generated for
    revisions,   \* clarifications: the latest revision of each thread
    decisions,   \* decisions: of each thread, in the order of their insertion
    pending      \* requests: what they have read

timeline == <<rounds, revisions, decisions>>
clarificationVars == <<goal, rounds, revisions, decisions, pending>>

\* A thread is a question of a round.
Thread == (1 .. MaxRounds) \X Question
Asked(t) == t[1] <= Len(rounds)

ClarificationInit ==
    /\ goal = 1
    /\ rounds = <<>>
    /\ revisions = [t \in Thread |-> 0]
    /\ decisions = [t \in Thread |-> <<>>]
    /\ pending = {}

Add(request) ==
    /\ Cardinality(pending) < MaxPending
    /\ pending' = pending \cup {request}
Update(request, read) == pending' = (pending \ {request}) \cup {read}
Done(request) == pending' = pending \ {request}

\* The goal is edited.
EditGoal ==
    /\ goal < MaxVersions
    /\ goal' = goal + 1
    /\ UNCHANGED <<timeline, pending>>

\* generate: the goal is of the version the client saw; the timeline's last
\* round is remembered, and the planner asked.
AskGenerate ==
    /\ Add([kind |-> "generate", version |-> goal, last |-> Len(rounds)])
    /\ UNCHANGED <<goal, timeline>>

\* appendRound, with the goal's row locked.
AppendRound(request) ==
    /\ request.kind = "generate"
    /\ Done(request)
    /\ IF goal = request.version /\ Len(rounds) = request.last
       THEN /\ Len(rounds) < MaxRounds
            /\ rounds' = Append(rounds, goal)
            /\ revisions' = [t \in Thread |->
                    IF t[1] = Len(rounds) + 1 THEN 1 ELSE revisions[t]]
       ELSE UNCHANGED <<rounds, revisions>>
    /\ UNCHANGED <<goal, decisions>>

\* answer: the goal is read first.
AskAnswer(t) ==
    /\ Asked(t)
    /\ Add([kind |-> "answer", thread |-> t, version |-> goal, last |-> Unread,
            revision |-> Unread, prior |-> Unread])
    /\ UNCHANGED <<goal, timeline>>

\* getTimeline: three queries at once, answered in any order.
ReadRounds(request) ==
    /\ request.kind = "answer" /\ request.last = Unread
    /\ Update(request, [request EXCEPT !.last = Len(rounds)])
    /\ UNCHANGED <<goal, timeline>>

ReadQuestions(request) ==
    /\ request.kind = "answer" /\ request.revision = Unread
    /\ Update(request, [request EXCEPT !.revision = revisions[request.thread]])
    /\ UNCHANGED <<goal, timeline>>

ReadDecisions(request) ==
    /\ request.kind = "answer" /\ request.prior = Unread
    /\ Update(request, [request EXCEPT !.prior = Len(decisions[request.thread])])
    /\ UNCHANGED <<goal, timeline>>

\* In the transaction: the goal, the latest round and the latest revision of the
\* thread are those that were read, and the question is of them.
Current(request) ==
    LET t == request.thread
    IN  /\ goal = request.version
        /\ t[1] = request.last
        /\ rounds[t[1]] = request.version
        /\ t[1] = Len(rounds)
        /\ revisions[t] = request.revision

\* decisions_goal_key_revision_uidx.
\* Mutant of Fresh: a decision may have the number of another.
FreshMutant(request) == TRUE
Fresh(request) ==
    \A n \in DOMAIN decisions[request.thread] :
        decisions[request.thread][n].revision # request.prior + 1

\* appendAnswer: the next revision and the decision about it, or neither.
AppendAnswer(request) ==
    LET t == request.thread
    IN  /\ request.kind = "answer"
        /\ Unread \notin {request.last, request.revision, request.prior}
        /\ Done(request)
        /\ IF Current(request) /\ Fresh(request)
           THEN /\ revisions[t] <= MaxAnswers
                /\ revisions' = [revisions EXCEPT ![t] = @ + 1]
                /\ decisions' = [decisions EXCEPT ![t] = Append(@,
                        [revision |-> request.prior + 1,
                         subject |-> request.revision + 1,
                         version |-> request.version])]
           ELSE UNCHANGED <<revisions, decisions>>
        /\ UNCHANGED <<goal, rounds>>

ClarificationNext ==
    \/ EditGoal \/ AskGenerate
    \/ \E t \in Thread : AskAnswer(t)
    \/ \E request \in pending :
            \/ AppendRound(request)
            \/ ReadRounds(request) \/ ReadQuestions(request)
            \/ ReadDecisions(request)
            \/ AppendAnswer(request)

-----------------------------------------------------------------------------
(* Properties.                                                              *)

\* What the rows and the requests hold.
Decision == [revision : Nat, subject : Nat, version : Nat]
Requests ==
    [kind : {"generate"}, version : Nat, last : Nat]
    \cup [kind : {"answer"}, thread : Thread, version : Nat,
          last : Nat \cup {Unread}, revision : Nat \cup {Unread},
          prior : Nat \cup {Unread}]
ClarificationTypes ==
    /\ goal \in Nat
    /\ rounds \in Seq(Nat)
    /\ revisions \in [Thread -> Nat]
    /\ decisions \in [Thread -> Seq(Decision)]
    /\ pending \in SUBSET Requests

\* The decisions of a thread are a chain without gaps or forks, the n-th of them
\* about the n-th answer and made for the version of the goal that the round was
\* generated for, although a request may have read its parts of the timeline
\* before and after somebody else's answer; and rounds follow the goal
\* (clarification-history-service.ts answer,
\* postgres-clarification-history-repository.ts getTimeline, appendAnswer).
DecisionsFollowAnswers ==
    /\ \A t \in Thread :
        /\ Len(decisions[t]) = IF Asked(t) THEN revisions[t] - 1 ELSE 0
        /\ \A n \in DOMAIN decisions[t] :
            /\ decisions[t][n].revision = n
            /\ decisions[t][n].subject = n + 1
            /\ decisions[t][n].version = rounds[t[1]]
    /\ \A r \in 1 .. Len(rounds) : \A later \in r .. Len(rounds) :
        rounds[r] <= rounds[later] /\ rounds[later] <= goal
=============================================================================
