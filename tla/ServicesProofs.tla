--------------------------- MODULE ServicesProofs ---------------------------
(***************************************************************************)
(* The services that share no row, for any number of actors, projects,      *)
(* issues, attempts and requests.  Each has an inductive invariant of its   *)
(* own: what its rows say, and what a request that was read in one          *)
(* transaction and is written in another may still rely on.                 *)
(***************************************************************************)
EXTENDS Services, FiniteSetTheorems, SequenceTheorems, NaturalsInduction, TLAPS

-----------------------------------------------------------------------------
(* Sets of naturals.                                                        *)

\* A bounded set of naturals has a highest member.
LEMMA HighestIsThere ==
  ASSUME NEW S \in SUBSET Nat, S # {}, NEW L \in Nat, \A x \in S : x <= L
  PROVE  Max(S) \in S /\ \A x \in S : x <= Max(S)
<1> DEFINE R == {ss \in Nat \X Nat : ss[1] < ss[2]}
           T == {L - x : x \in S}
<1>1. T \subseteq Nat /\ T # {}
  <2>1. \A x \in S : x \in Nat /\ L - x \in Nat
    OBVIOUS
  <2>2. T \subseteq Nat
    BY <2>1
  <2>3. PICK x \in S : TRUE
    OBVIOUS
  <2> QED BY <2>2, <2>3
<1>2. IsWellFoundedOn(R, Nat)
  BY NatLessThanWellFounded DEF OpToRel
<1> HIDE DEF R
<1>3. PICK t \in T : \A y \in T : <<y, t>> \notin R
  BY <1>1, <1>2, WFMin
<1>4. \A y \in T : ~(y < t)
  BY <1>1, <1>3 DEF R
<1>5. PICK x \in S : t = L - x
  BY <1>3
<1>6. \A y \in S : x >= y
  <2> TAKE y \in S
  <2>1. L - y \in T
    OBVIOUS
  <2>2. ~(L - y < L - x) /\ L - y \in Nat /\ L - x \in Nat
    BY <1>1, <1>4, <1>5, <2>1
  <2>3. x \in Nat /\ y \in Nat
    BY <1>5
  <2> QED BY <2>2, <2>3
<1>7. Max(S) \in S /\ \A y \in S : Max(S) >= y
  BY <1>5, <1>6 DEF Max
<1> QED BY <1>7

-----------------------------------------------------------------------------
(* Clarifications.                                                          *)

\* A request has read what was there or less: rounds, revisions and decisions
\* only grow.  An answer is to a question that was asked.
PendingOK ==
    \A q \in pending :
        /\ q.last <= Len(rounds)
        /\ q.kind = "answer" =>
            /\ Asked(q.thread)
            /\ q.revision <= revisions[q.thread]
            /\ q.prior <= Len(decisions[q.thread])

ClarificationInv == ClarificationTypes /\ DecisionsFollowAnswers /\ PendingOK

\* The parts of the types, for steps that need few of them.
LEMMA ClarificationParts ==
  ASSUME ClarificationTypes
  PROVE  /\ goal \in Nat /\ rounds \in Seq(Nat) /\ Len(rounds) \in Nat
         /\ \A r \in 1 .. Len(rounds) : rounds[r] \in Nat
         /\ \A t \in Thread :
              /\ t[1] \in 1 .. MaxRounds
              /\ revisions[t] \in Nat
              /\ decisions[t] \in Seq(Decision) /\ Len(decisions[t]) \in Nat
              /\ DOMAIN decisions[t] = 1 .. Len(decisions[t])
              /\ \A n \in 1 .. Len(decisions[t]) : decisions[t][n] \in Decision
         /\ \A q \in pending :
              /\ q \in Requests /\ q.version \in Nat
              /\ q.kind \in {"generate", "answer"}
              /\ q.kind = "generate" => q.last \in Nat
              /\ q.kind = "answer" => /\ q.thread \in Thread
                                      /\ q.last \in Nat \cup {Unread}
                                      /\ q.revision \in Nat \cup {Unread}
                                      /\ q.prior \in Nat \cup {Unread}
<1>1. /\ goal \in Nat /\ rounds \in Seq(Nat) /\ Len(rounds) \in Nat
      /\ \A r \in 1 .. Len(rounds) : rounds[r] \in Nat
  BY DEF ClarificationTypes
<1>2. ASSUME NEW t \in Thread
      PROVE  /\ t[1] \in 1 .. MaxRounds
             /\ revisions[t] \in Nat
             /\ decisions[t] \in Seq(Decision) /\ Len(decisions[t]) \in Nat
             /\ DOMAIN decisions[t] = 1 .. Len(decisions[t])
             /\ \A n \in 1 .. Len(decisions[t]) : decisions[t][n] \in Decision
  <2>1. decisions[t] \in Seq(Decision)
    BY DEF ClarificationTypes
  <2>2. t[1] \in 1 .. MaxRounds
    BY DEF Thread
  <2>3. revisions[t] \in Nat
    BY DEF ClarificationTypes
  <2> QED BY <2>1, <2>2, <2>3, LenProperties, ElementOfSeq
<1>3. ASSUME NEW q \in pending
      PROVE  /\ q \in Requests /\ q.version \in Nat
             /\ q.kind \in {"generate", "answer"}
             /\ q.kind = "generate" => q.last \in Nat
             /\ q.kind = "answer" => /\ q.thread \in Thread
                                     /\ q.last \in Nat \cup {Unread}
                                     /\ q.revision \in Nat \cup {Unread}
                                     /\ q.prior \in Nat \cup {Unread}
  <2>1. q \in Requests
    BY DEF ClarificationTypes
  <2> QED BY <2>1 DEF Requests
<1> QED BY <1>1, <1>2, <1>3

\* Before the first round nothing was asked.
LEMMA ClarificationInitHolds == Init => ClarificationInv
<1> SUFFICES ASSUME Init PROVE ClarificationInv
  OBVIOUS
<1>1. /\ goal = 1 /\ rounds = <<>> /\ pending = {}
      /\ revisions = [t \in Thread |-> 0] /\ decisions = [t \in Thread |-> <<>>]
  BY DEF Init, ClarificationInit
<1>2. ClarificationTypes
  BY <1>1 DEF ClarificationTypes
<1>3. DecisionsFollowAnswers
  BY <1>1, RoundsAreCounted DEF DecisionsFollowAnswers, Asked, Thread
<1>4. PendingOK
  BY <1>1 DEF PendingOK
<1> QED BY <1>2, <1>3, <1>4 DEF ClarificationInv

\* A step that only forgets requests, or adds one that has read what is there.
LEMMA PendingStays ==
  ASSUME ClarificationInv, UNCHANGED timeline, goal' \in Nat, goal <= goal',
         \A q \in pending' :
            \/ q \in pending
            \/ /\ q \in Requests /\ q.last <= Len(rounds)
               /\ q.kind = "answer" =>
                    /\ Asked(q.thread)
                    /\ q.revision <= revisions[q.thread]
                    /\ q.prior <= Len(decisions[q.thread])
  PROVE  ClarificationInv'
<1> USE DEF ClarificationInv
<1>0. UNCHANGED <<rounds, revisions, decisions>>
  BY DEF timeline
<1>1. ClarificationTypes'
  BY <1>0 DEF ClarificationTypes
<1>2. DecisionsFollowAnswers'
  <2>1. \A r \in 1 .. Len(rounds) : rounds[r] <= goal'
    <3>1. \A r \in 1 .. Len(rounds) : rounds[r] <= goal /\ rounds[r] \in Nat
      BY ClarificationParts DEF DecisionsFollowAnswers
    <3> QED BY <3>1, ClarificationParts
  <2>2. \A r \in 1 .. Len(rounds) : \A later \in r .. Len(rounds) :
          rounds[r] <= rounds[later] /\ rounds[later] <= goal'
    <3>1. \A r \in 1 .. Len(rounds) : \A later \in r .. Len(rounds) :
            rounds[r] <= rounds[later] /\ later \in 1 .. Len(rounds)
      BY ClarificationParts DEF DecisionsFollowAnswers
    <3> QED BY <2>1, <3>1
  <2> QED BY <1>0, <2>2 DEF DecisionsFollowAnswers, Asked
<1>3. PendingOK'
  BY <1>0 DEF PendingOK, Asked
<1> QED BY <1>1, <1>2, <1>3

\* A new round: its threads have one revision and no decision yet.
LEMMA AppendRoundKeeps ==
  ASSUME ClarificationInv, NEW request \in pending, AppendRound(request)
  PROVE  ClarificationInv'
<1> USE DEF ClarificationInv
<1>0. /\ pending' \subseteq pending /\ goal' = goal /\ decisions' = decisions
      /\ \A q \in pending' : q \in pending
  BY DEF AppendRound, Done
<1>1. CASE UNCHANGED <<rounds, revisions>>
  <2>1. UNCHANGED timeline /\ goal <= goal' /\ goal' \in Nat
    BY <1>0, <1>1, ClarificationParts DEF timeline
  <2> QED BY <1>0, <2>1, PendingStays
<1>2. CASE /\ rounds' = Append(rounds, goal)
           /\ revisions' = [t \in Thread |->
                    IF t[1] = Len(rounds) + 1 THEN 1 ELSE revisions[t]]
  <2>1. /\ Len(rounds) \in Nat /\ rounds' \in Seq(Nat) /\ Len(rounds') = Len(rounds) + 1
        /\ \A r \in 1 .. Len(rounds) : rounds'[r] = rounds[r] /\ rounds[r] \in Nat
        /\ rounds'[Len(rounds) + 1] = goal
    BY <1>2, ClarificationParts, AppendProperties
  <2>2. \A t \in Thread :
          /\ t[1] \in 1 .. MaxRounds
          /\ revisions'[t] = IF t[1] = Len(rounds) + 1 THEN 1 ELSE revisions[t]
    BY <1>2, ClarificationParts
  <2>3. \A t \in Thread : /\ Asked(t) => Asked(t)' /\ revisions'[t] = revisions[t]
                          /\ Asked(t)' /\ ~Asked(t) => t[1] = Len(rounds) + 1
    BY <2>1, <2>2, RoundsAreCounted DEF Asked
  <2>4. ClarificationTypes'
    BY <1>0, <1>2, <2>1 DEF ClarificationTypes
  <2>5. \A t \in Thread :
          /\ Len(decisions[t]) = IF Asked(t)' THEN revisions'[t] - 1 ELSE 0
          /\ \A n \in DOMAIN decisions[t] :
               /\ decisions[t][n].revision = n
               /\ decisions[t][n].subject = n + 1
               /\ decisions[t][n].version = rounds'[t[1]]
    <3> SUFFICES ASSUME NEW t \in Thread
                 PROVE  /\ Len(decisions[t]) = IF Asked(t)' THEN revisions'[t] - 1 ELSE 0
                        /\ \A n \in DOMAIN decisions[t] :
                             /\ decisions[t][n].revision = n
                             /\ decisions[t][n].subject = n + 1
                             /\ decisions[t][n].version = rounds'[t[1]]
      OBVIOUS
    <3>1. /\ Len(decisions[t]) = IF Asked(t) THEN revisions[t] - 1 ELSE 0
          /\ \A n \in DOMAIN decisions[t] :
               /\ decisions[t][n].revision = n
               /\ decisions[t][n].subject = n + 1
               /\ decisions[t][n].version = rounds[t[1]]
      BY DEF DecisionsFollowAnswers
    <3>2. CASE Asked(t)
      <4>1. rounds'[t[1]] = rounds[t[1]]
        BY <2>1, <2>2, <3>2 DEF Asked
      <4> QED BY <2>3, <3>1, <3>2, <4>1
    <3>3. CASE ~Asked(t)
      <4>1. Len(decisions[t]) = 0 /\ DOMAIN decisions[t] = 1 .. Len(decisions[t])
        BY <3>1, <3>3, ClarificationParts
      <4>2. Asked(t)' => revisions'[t] - 1 = 0
        BY <2>2, <2>3, <3>3
      <4> QED BY <4>1, <4>2
    <3> QED BY <3>2, <3>3
  <2>6. \A r \in 1 .. Len(rounds') : \A later \in r .. Len(rounds') :
          rounds'[r] <= rounds'[later] /\ rounds'[later] <= goal
    <3>1. \A r \in 1 .. Len(rounds) : \A later \in r .. Len(rounds) :
            rounds[r] <= rounds[later] /\ rounds[later] <= goal
      BY DEF DecisionsFollowAnswers
    <3>2. \A r \in 1 .. Len(rounds) : rounds[r] <= goal
      BY <2>1, <3>1
    <3>3. goal <= goal
      BY ClarificationParts
    <3> SUFFICES ASSUME NEW r \in 1 .. Len(rounds'), NEW later \in r .. Len(rounds')
                 PROVE  rounds'[r] <= rounds'[later] /\ rounds'[later] <= goal
      OBVIOUS
    <3>4. CASE later = Len(rounds) + 1
      <4>1. rounds'[later] = goal /\ (r \in 1 .. Len(rounds) \/ r = later)
        BY <2>1, <3>4
      <4> QED BY <2>1, <3>2, <3>3, <4>1
    <3>5. CASE later # Len(rounds) + 1
      <4>1. later \in r .. Len(rounds) /\ r \in 1 .. Len(rounds) /\ later \in 1 .. Len(rounds)
        BY <2>1, <3>5
      <4> QED BY <2>1, <3>1, <4>1
    <3> QED BY <3>4, <3>5
  <2>7. DecisionsFollowAnswers'
    BY <1>0, <2>5, <2>6 DEF DecisionsFollowAnswers
  <2>8. PendingOK'
    <3> SUFFICES ASSUME NEW q \in pending
                 PROVE  /\ q.last <= Len(rounds')
                        /\ q.kind = "answer" =>
                             /\ Asked(q.thread)'
                             /\ q.revision <= revisions'[q.thread]
                             /\ q.prior <= Len(decisions[q.thread])
      BY <1>0 DEF PendingOK
    <3>1. q.last \in Int /\ q.last <= Len(rounds)
      BY ClarificationParts DEF PendingOK, Unread
    <3>2. q.kind = "answer" =>
            /\ q.thread \in Thread /\ Asked(q.thread)
            /\ q.revision <= revisions[q.thread]
            /\ q.prior <= Len(decisions[q.thread])
      BY ClarificationParts DEF PendingOK
    <3> QED BY <2>1, <2>3, <3>1, <3>2
  <2> QED BY <2>4, <2>7, <2>8
<1> QED BY <1>1, <1>2 DEF AppendRound

\* What was read is still what is there, so the number that follows the chain
\* that was read is the next one, and the answer it is about is the latest.
LEMMA AppendAnswerKeeps ==
  ASSUME ClarificationInv, NEW request \in pending, AppendAnswer(request)
  PROVE  ClarificationInv'
<1> USE DEF ClarificationInv
<1> DEFINE t == request.thread
           new == [revision |-> request.prior + 1, subject |-> request.revision + 1,
                   version |-> request.version]
<1>0. /\ pending' \subseteq pending /\ goal' = goal /\ rounds' = rounds
      /\ \A q \in pending' : q \in pending
      /\ request.kind = "answer"
      /\ request.prior # Unread /\ request.revision # Unread
  BY DEF AppendAnswer, Done
<1>1. CASE UNCHANGED <<revisions, decisions>>
  <2>1. UNCHANGED timeline /\ goal <= goal' /\ goal' \in Nat
    BY <1>0, <1>1, ClarificationParts DEF timeline
  <2> QED BY <1>0, <2>1, PendingStays
<1>2. CASE /\ Current(request) /\ Fresh(request)
           /\ revisions' = [revisions EXCEPT ![t] = @ + 1]
           /\ decisions' = [decisions EXCEPT ![t] = Append(@, new)]
  <2>1. /\ t \in Thread /\ request.prior \in Nat /\ request.revision \in Nat
        /\ request.version \in Nat /\ request.prior <= Len(decisions[t])
        /\ Asked(t)
    BY <1>0, ClarificationParts DEF PendingOK
  <2>2. /\ revisions[t] \in Nat /\ decisions[t] \in Seq(Decision)
        /\ Len(decisions[t]) \in Nat
        /\ DOMAIN decisions[t] = 1 .. Len(decisions[t])
    BY <2>1, ClarificationParts
  <2>3. /\ Len(decisions[t]) = revisions[t] - 1
        /\ \A n \in DOMAIN decisions[t] :
             /\ decisions[t][n].revision = n
             /\ decisions[t][n].subject = n + 1
             /\ decisions[t][n].version = rounds[t[1]]
    BY <2>1 DEF DecisionsFollowAnswers
  <2>4. request.prior = Len(decisions[t])
    <3>1. \A n \in 1 .. Len(decisions[t]) : n # request.prior + 1
      BY <1>2, <2>2, <2>3 DEF Fresh
    <3> QED BY <2>1, <2>2, <3>1
  <2>5. request.revision = revisions[t] /\ rounds[t[1]] = request.version
    BY <1>2 DEF Current
  <2>6. new \in Decision
    BY <2>1 DEF Decision
  <2>7. /\ decisions'[t] = Append(decisions[t], new) /\ revisions'[t] = revisions[t] + 1
        /\ \A u \in Thread : u # t => /\ decisions'[u] = decisions[u]
                                      /\ revisions'[u] = revisions[u]
    BY <1>2, <2>1 DEF ClarificationTypes
  <2>8. /\ decisions'[t] \in Seq(Decision) /\ Len(decisions'[t]) = Len(decisions[t]) + 1
        /\ \A n \in 1 .. Len(decisions[t]) : decisions'[t][n] = decisions[t][n]
        /\ decisions'[t][Len(decisions[t]) + 1] = new
        /\ DOMAIN decisions'[t] = 1 .. Len(decisions[t]) + 1
    BY <2>2, <2>6, <2>7, AppendProperties, LenProperties
  <2>9. ClarificationTypes'
    <3>1. revisions' \in [Thread -> Nat]
      BY <1>2, <2>1, <2>2 DEF ClarificationTypes
    <3>2. decisions' \in [Thread -> Seq(Decision)]
      BY <1>2, <2>1, <2>7, <2>8 DEF ClarificationTypes
    <3> QED BY <1>0, <3>1, <3>2 DEF ClarificationTypes
  <2>10. \A n \in DOMAIN decisions'[t] :
           /\ decisions'[t][n].revision = n
           /\ decisions'[t][n].subject = n + 1
           /\ decisions'[t][n].version = rounds[t[1]]
    <3>1. /\ new.revision = Len(decisions[t]) + 1
          /\ new.subject = Len(decisions[t]) + 2
          /\ new.version = rounds[t[1]]
      BY <2>2, <2>3, <2>4, <2>5
    <3>2. \A n \in DOMAIN decisions'[t] :
            n \in 1 .. Len(decisions[t]) \/ n = Len(decisions[t]) + 1
      BY <2>2, <2>8
    <3> SUFFICES ASSUME NEW n \in DOMAIN decisions'[t]
                 PROVE  /\ decisions'[t][n].revision = n
                        /\ decisions'[t][n].subject = n + 1
                        /\ decisions'[t][n].version = rounds[t[1]]
      OBVIOUS
    <3>3. CASE n \in 1 .. Len(decisions[t])
      <4>1. decisions'[t][n] = decisions[t][n] /\ n \in DOMAIN decisions[t]
        BY <2>2, <2>8, <3>3
      <4> QED BY <2>3, <4>1
    <3>4. CASE n = Len(decisions[t]) + 1
      BY <2>2, <2>8, <3>1, <3>4
    <3> QED BY <3>2, <3>3, <3>4
  <2>11. DecisionsFollowAnswers'
    <3>1. \A u \in Thread : Asked(u)' <=> Asked(u)
      BY <1>0 DEF Asked
    <3>2. \A u \in Thread :
            /\ Len(decisions'[u]) = IF Asked(u) THEN revisions'[u] - 1 ELSE 0
            /\ \A n \in DOMAIN decisions'[u] :
                 /\ decisions'[u][n].revision = n
                 /\ decisions'[u][n].subject = n + 1
                 /\ decisions'[u][n].version = rounds[u[1]]
      <4> TAKE u \in Thread
      <4>1. CASE u = t
        <5>1. Len(decisions'[t]) = revisions'[t] - 1
          BY <2>2, <2>3, <2>7, <2>8
        <5> HIDE DEF t, new
        <5> QED BY ONLY <2>1, <2>10, <4>1, <5>1
      <4>2. CASE u # t
        BY <2>7, <4>2 DEF DecisionsFollowAnswers
      <4> QED BY <4>1, <4>2
    <3> QED BY <1>0, <3>1, <3>2 DEF DecisionsFollowAnswers
  <2>12. PendingOK'
    <3>1. \A u \in Thread : /\ revisions[u] \in Nat /\ revisions[u] <= revisions'[u]
                            /\ Len(decisions[u]) <= Len(decisions'[u])
                            /\ Len(decisions[u]) \in Nat
                            /\ revisions'[u] \in Nat /\ Len(decisions'[u]) \in Nat
      <4> TAKE u \in Thread
      <4>1. revisions[u] \in Nat /\ Len(decisions[u]) \in Nat
        BY ClarificationParts
      <4>2. CASE u = t
        BY <2>7, <2>8, <4>1, <4>2
      <4>3. CASE u # t
        BY <2>7, <2>8, <4>1, <4>3
      <4> QED BY <4>2, <4>3
    <3>2. \A q \in pending : q.kind = "answer" =>
            /\ q.thread \in Thread /\ q.revision \in Int /\ q.prior \in Int
            /\ q.revision <= revisions[q.thread] /\ q.prior <= Len(decisions[q.thread])
      BY ClarificationParts DEF PendingOK, Unread
    <3>3. \A q \in pending : q.kind = "answer" =>
            /\ q.revision <= revisions'[q.thread] /\ q.prior <= Len(decisions'[q.thread])
      BY <3>1, <3>2
    <3> QED BY <1>0, <3>3 DEF PendingOK, Asked
  <2> QED BY <2>9, <2>11, <2>12
<1> QED BY <1>1, <1>2 DEF AppendAnswer

\* A request that has read one more part of the timeline.
LEMMA ReadKeeps ==
  ASSUME ClarificationInv, NEW request \in pending,
         \/ ReadRounds(request) \/ ReadQuestions(request) \/ ReadDecisions(request)
  PROVE  ClarificationInv'
<1> USE DEF ClarificationInv
<1>1. PICK read :
        /\ pending' = (pending \ {request}) \cup {read}
        /\ \/ read = [request EXCEPT !.last = Len(rounds)]
           \/ read = [request EXCEPT !.revision = revisions[request.thread]]
           \/ read = [request EXCEPT !.prior = Len(decisions[request.thread])]
  BY DEF ReadRounds, ReadQuestions, ReadDecisions, Update
<1>2. /\ request.kind = "answer" /\ UNCHANGED <<goal, timeline>>
  BY DEF ReadRounds, ReadQuestions, ReadDecisions
<1>3. /\ request \in [kind : {"answer"}, thread : Thread, version : Nat,
            last : Nat \cup {Unread}, revision : Nat \cup {Unread},
            prior : Nat \cup {Unread}]
      /\ request.thread \in Thread
  <2>1. request \in Requests
    BY ClarificationParts
  <2> QED BY <1>2, <2>1 DEF Requests
<1>4. /\ revisions[request.thread] \in Nat /\ Len(decisions[request.thread]) \in Nat
      /\ Len(rounds) \in Nat /\ goal \in Nat
  BY <1>3, ClarificationParts
<1>5. /\ request.last <= Len(rounds) /\ Asked(request.thread)
      /\ request.revision <= revisions[request.thread]
      /\ request.prior <= Len(decisions[request.thread])
  BY <1>2 DEF PendingOK
<1>6. /\ read \in Requests /\ read.kind = "answer" /\ read.thread = request.thread
      /\ read.last = request.last \/ read.last = Len(rounds)
      /\ read.revision = request.revision \/ read.revision = revisions[request.thread]
      /\ read.prior = request.prior \/ read.prior = Len(decisions[request.thread])
  BY <1>1, <1>3, <1>4 DEF Requests
<1>7. /\ read.last <= Len(rounds) /\ Asked(read.thread)
      /\ read.revision <= revisions[read.thread]
      /\ read.prior <= Len(decisions[read.thread])
  BY <1>4, <1>5, <1>6
<1>8. goal' \in Nat /\ goal <= goal' /\ UNCHANGED timeline
  BY <1>2, <1>4
<1> QED BY <1>1, <1>6, <1>7, <1>8, PendingStays

LEMMA ClarificationNextKeeps ==
  ASSUME ClarificationInv, ClarificationNext
  PROVE  ClarificationInv'
<1> USE DEF ClarificationInv
<1>0. goal \in Nat /\ Len(rounds) \in Nat
  BY ClarificationParts
<1>1. CASE EditGoal
  BY <1>0, <1>1, PendingStays DEF EditGoal
<1>2. CASE AskGenerate
  <2> DEFINE q == [kind |-> "generate", version |-> goal, last |-> Len(rounds)]
  <2>1. /\ pending' = pending \cup {q} /\ UNCHANGED timeline
        /\ goal' \in Nat /\ goal <= goal'
    BY <1>0, <1>2 DEF AskGenerate, Add
  <2>2. q \in Requests /\ q.last <= Len(rounds) /\ q.kind # "answer"
    BY <1>0 DEF Requests
  <2> QED BY <2>1, <2>2, PendingStays
<1>3. ASSUME NEW t \in Thread, AskAnswer(t)
      PROVE  ClarificationInv'
  <2> DEFINE q == [kind |-> "answer", thread |-> t, version |-> goal, last |-> Unread,
                   revision |-> Unread, prior |-> Unread]
  <2>1. /\ pending' = pending \cup {q} /\ UNCHANGED timeline
        /\ goal' \in Nat /\ goal <= goal' /\ Asked(t)
    BY <1>0, <1>3 DEF AskAnswer, Add
  <2>2. /\ q \in Requests /\ q.last <= Len(rounds)
        /\ q.thread = t /\ q.revision <= revisions[t] /\ q.prior <= Len(decisions[t])
    BY <1>0, ClarificationParts DEF Requests, Unread
  <2> QED BY <2>1, <2>2, PendingStays
<1>4. ASSUME NEW request \in pending, AppendRound(request)
      PROVE  ClarificationInv'
  BY <1>4, AppendRoundKeeps
<1>5. ASSUME NEW request \in pending,
             \/ ReadRounds(request) \/ ReadQuestions(request) \/ ReadDecisions(request)
      PROVE  ClarificationInv'
  BY <1>5, ReadKeeps
<1>6. ASSUME NEW request \in pending, AppendAnswer(request)
      PROVE  ClarificationInv'
  BY <1>6, AppendAnswerKeeps
<1> QED BY <1>1, <1>2, <1>3, <1>4, <1>5, <1>6 DEF ClarificationNext

\* However the three queries of an answer interleave with the answers and rounds
\* of others, for any number of rounds, questions, answers and requests, a thread
\* is one chain (postgres-clarification-history-repository.ts appendAnswer).
THEOREM DecisionsAlwaysFollowAnswers == Spec => []DecisionsFollowAnswers
<1>1. ClarificationInv /\ [Next]_vars => ClarificationInv'
  <2> SUFFICES ASSUME ClarificationInv, [Next]_vars PROVE ClarificationInv'
    OBVIOUS
  <2>1. CASE ClarificationStep
    BY <2>1, ClarificationNextKeeps DEF ClarificationStep
  <2>2. CASE ~ClarificationStep
    <3>1. UNCHANGED clarificationVars
      BY <2>2 DEF Next, vars, AccessStep, SignInStep, AdmissionStep, EvidenceStep,
                  WavesStep
    <3> QED BY <3>1 DEF clarificationVars, ClarificationInv, ClarificationTypes,
                        DecisionsFollowAnswers, PendingOK, Asked
  <2> QED BY <2>1, <2>2
<1>2. ClarificationInv => DecisionsFollowAnswers
  BY DEF ClarificationInv
<1> QED BY <1>1, <1>2, ClarificationInitHolds, PTL DEF Spec

-----------------------------------------------------------------------------
(* Admission.                                                               *)

\* The moves an issue has made since its last run, at least: the next run needs
\* three more.
Earned ==
    [approved |-> 1, ready |-> 2, in_progress |-> 0, blocked |-> 1,
     completed |-> 0, cancelled |-> 0]

\* The attempts at an issue have a highest one, and its version pays for each.
AttemptsOK ==
    \A i \in Issue :
        /\ \A m \in Attempts(i) : 3 * m + Earned[issues[i].status] <= issues[i].version
        /\ \E m \in Attempts(i) : \A n \in Attempts(i) : n <= m

\* One import feeds what is scheduled: the first that was stored.
ProjectionOK ==
    /\ \A c \in Call : calls[c].stage # "idle" => calls[c].key \in ImportKey
    /\ \A c \in Call : calls[c].stage = "imported" => calls[c].key \in imports
    /\ projection # None => projection \in imports
    /\ \A s \in Process : \A n \in DOMAIN batch[s] : batch[s][n].task[1] = projection
    /\ \A j \in jobs : j.task[1] = projection /\ j.run \in DOMAIN runs

AdmissionInv == AdmissionTypes /\ RunsWereReady /\ AttemptsOK /\ ProjectionOK

\* The order in which a query lists a finite set.
LEMMA ListedInOrder ==
  ASSUME NEW S, IsFiniteSet(S)
  PROVE  SetToSeq(S) \in Seq(S)
<1> DEFINE n == Cardinality(S)
<1>1. n \in Nat /\ ExistsBijection(1 .. n, S)
  BY FS_CardinalityType
<1>2. PICK f \in [1 .. n -> S] : IsInjective(f)
  BY <1>1 DEF ExistsBijection, Bijection, Injection, IsInjective
<1>3. SetToSeq(S) \in [1 .. n -> S]
  BY <1>2 DEF SetToSeq
<1> QED BY <1>1, <1>3

LEMMA AdmissionInitHolds == Init => AdmissionInv
<1> SUFFICES ASSUME Init PROVE AdmissionInv
  OBVIOUS
<1> USE AdmissionAssumption DEF AdmissionAssumption
<1>1. AdmissionInit
  BY DEF Init
<1>2. AdmissionTypes
  BY <1>1 DEF AdmissionInit, AdmissionTypes, IssueRow, IssueStatus, ProjectCall
<1>3. RunsWereReady
  BY <1>1 DEF AdmissionInit, RunsWereReady
<1>4. AttemptsOK
  <2>1. \A i \in Issue : Attempts(i) = {0}
    BY <1>1 DEF AdmissionInit, Attempts
  <2>2. \A i \in Issue : issues[i].status = "approved" /\ issues[i].version = 1
    BY <1>1 DEF AdmissionInit
  <2> QED BY <2>1, <2>2 DEF AttemptsOK, Earned
<1>5. ProjectionOK
  BY <1>1 DEF AdmissionInit, ProjectionOK
<1> QED BY <1>2, <1>3, <1>4, <1>5 DEF AdmissionInv

\* The parts of the types, for steps that need few of them.
LEMMA AdmissionParts ==
  ASSUME AdmissionTypes
  PROVE  /\ runs \in Seq(RunRow) /\ Len(runs) \in Nat /\ DOMAIN runs = 1 .. Len(runs)
         /\ \A r \in DOMAIN runs : runs[r].issue \in Issue /\ runs[r].attempt \in Nat \ {0}
         /\ issues \in [Issue -> IssueRow]
         /\ \A i \in Issue : /\ issues[i].status \in IssueStatus
                             /\ issues[i].version \in Nat \ {0}
                             /\ Attempts(i) \subseteq Nat
         /\ \A j \in jobs : /\ j.issue \in Issue /\ j.run \in Nat \ {0}
                            /\ j.task \in ImportKey \X Issue
         /\ \A s \in Process : /\ batch[s] \in Seq(Command)
                               /\ DOMAIN batch[s] = 1 .. Len(batch[s])
                               /\ Len(batch[s]) \in Nat
                               /\ \A n \in 1 .. Len(batch[s]) : batch[s][n] \in Command
<1>1. /\ runs \in Seq(RunRow) /\ Len(runs) \in Nat /\ DOMAIN runs = 1 .. Len(runs)
  BY LenProperties DEF AdmissionTypes
<1>2. \A r \in DOMAIN runs : runs[r].issue \in Issue /\ runs[r].attempt \in Nat \ {0}
  <2>1. \A r \in 1 .. Len(runs) : runs[r] \in RunRow
    BY <1>1, ElementOfSeq
  <2> QED BY <1>1, <2>1 DEF RunRow
<1>3. issues \in [Issue -> IssueRow]
  BY DEF AdmissionTypes
<1>4. \A i \in Issue : /\ issues[i].status \in IssueStatus
                       /\ issues[i].version \in Nat \ {0}
  BY <1>3 DEF IssueRow
<1>5. \A i \in Issue : Attempts(i) \subseteq Nat
  BY <1>2 DEF Attempts
<1>6. \A j \in jobs : /\ j.issue \in Issue /\ j.run \in Nat \ {0}
                      /\ j.task \in ImportKey \X Issue
  BY DEF AdmissionTypes, JobRow
<1>7. \A s \in Process : batch[s] \in Seq(Command)
  BY DEF AdmissionTypes
<1>8. \A s \in Process : /\ DOMAIN batch[s] = 1 .. Len(batch[s])
                         /\ Len(batch[s]) \in Nat
                         /\ \A n \in 1 .. Len(batch[s]) : batch[s][n] \in Command
  BY <1>7, LenProperties, ElementOfSeq
<1> QED BY <1>1, <1>2, <1>3, <1>4, <1>5, <1>6, <1>7, <1>8

\* Steps that leave issues, runs and jobs alone.
LEMMA RowsStay ==
  ASSUME AdmissionInv, UNCHANGED <<issues, runs, jobs>>, imports \subseteq imports'
  PROVE  RunsWereReady' /\ AttemptsOK'
<1>1. RunsWereReady'
  BY DEF AdmissionInv, RunsWereReady, Satisfied
<1>2. \A i \in Issue : Attempts(i)' = Attempts(i)
  BY DEF Attempts
<1>3. AttemptsOK'
  BY <1>2 DEF AdmissionInv, AttemptsOK
<1> QED BY <1>1, <1>3

\* A completed issue stays so, and one that comes to be ready was moved to it.
LEMMA MoveIssueKeeps ==
  ASSUME AdmissionInv, NEW i \in Issue, NEW to \in IssueStatus, MoveIssue(i, to)
  PROVE  AdmissionInv'
<1> USE AdmissionAssumption DEF AdmissionAssumption, AdmissionInv
<1> DEFINE from == issues[i].status
<1>1. /\ UNCHANGED <<imports, projection, calls, runs, jobs, admissions, batch, clock, exits>>
      /\ issues' = [issues EXCEPT ![i] = [status |-> to, version |-> @.version + 1]]
      /\ MayMove(i, to)
  BY DEF MoveIssue, autodev, admitted
<1>2. /\ from \in IssueStatus /\ issues[i].version \in Nat \ {0}
      /\ \A r \in DOMAIN runs : runs[r].issue \in Issue /\ runs[r].attempt \in Nat \ {0}
      /\ \A k \in Issue : /\ issues[k].version \in Nat \ {0}
                          /\ Attempts(k) \subseteq Nat
  BY AdmissionParts
<1>3. /\ issues'[i].status = to /\ issues'[i].version = issues[i].version + 1
      /\ \A k \in Issue : k # i => issues'[k] = issues[k]
      /\ \A k \in Issue : issues[k].version <= issues'[k].version
                          /\ issues'[k].version \in Nat
  BY <1>1, <1>2 DEF AdmissionTypes
<1>4. AdmissionTypes'
  <2>1. issues' \in [Issue -> IssueRow]
    BY <1>1, <1>2 DEF AdmissionTypes, IssueRow
  <2> QED BY <1>1, <2>1 DEF AdmissionTypes
<1>5. \A k \in Issue : issues[k].status = "completed" => issues'[k].status = "completed"
  BY <1>1, <1>3 DEF MayMove
<1>6. RunsWereReady'
  <2>1. \A r \in DOMAIN runs :
          /\ 3 * runs[r].attempt <= issues'[runs[r].issue].version
          /\ Satisfied(runs[r].issue)'
    <3> TAKE r \in DOMAIN runs
    <3>1. 3 * runs[r].attempt <= issues[runs[r].issue].version
      BY DEF RunsWereReady
    <3>2. Satisfied(runs[r].issue)
      BY DEF RunsWereReady
    <3>3. Needs[runs[r].issue] \subseteq Issue
      BY <1>2
    <3> QED BY <1>1, <1>2, <1>3, <1>5, <3>1, <3>2, <3>3 DEF Satisfied
  <2> QED BY <1>1, <2>1 DEF RunsWereReady
<1>7. AttemptsOK'
  <2>1. \A k \in Issue : Attempts(k)' = Attempts(k)
    BY <1>1 DEF Attempts
  <2>2. Earned[to] <= Earned[from] + 1 /\ Earned[to] \in Nat /\ Earned[from] \in Nat
    BY <1>1, <1>2 DEF MayMove, Earned, IssueStatus
  <2>3. ASSUME NEW k \in Issue, NEW m \in Attempts(k)
        PROVE  3 * m + Earned[issues'[k].status] <= issues'[k].version
    <3>1. 3 * m + Earned[issues[k].status] <= issues[k].version /\ m \in Nat
      BY <1>2, <2>3 DEF AttemptsOK
    <3>2. CASE k = i
      BY <1>2, <1>3, <2>2, <3>1, <3>2
    <3>3. CASE k # i
      BY <1>3, <3>1, <3>3
    <3> QED BY <3>2, <3>3
  <2> QED BY <2>1, <2>3 DEF AttemptsOK
<1>8. ProjectionOK'
  BY <1>1 DEF ProjectionOK
<1> QED BY <1>4, <1>6, <1>7, <1>8

\* What a command that is admitted finds, in its transaction: an issue that is
\* ready, whatever the query had seen.
LEMMA AdmitJobKeeps ==
  ASSUME AdmissionInv, NEW command \in Command,
         Ready(command), Satisfied(command.issue), AdmitJob(command),
         command.task[1] = projection,
         UNCHANGED <<imports, projection>>
  PROVE  /\ issues' \in [Issue -> IssueRow] /\ runs' \in Seq(RunRow)
         /\ jobs' \in SUBSET JobRow /\ admissions' \in SUBSET AdmissionRow
         /\ RunsWereReady' /\ AttemptsOK'
         /\ \A j \in jobs' : j.task[1] = projection /\ j.run \in DOMAIN runs'
<1> USE AdmissionAssumption DEF AdmissionAssumption, AdmissionInv
<1> DEFINE i == command.issue
           run == Len(runs) + 1
           top == Max(Attempts(i))
           row == [issue |-> i, attempt |-> top + 1]
           job == [issue |-> i, run |-> run, task |-> command.task]
<1>1. /\ i \in Issue /\ command.task \in ImportKey \X Issue
      /\ command.version \in Nat /\ command.deadline \in Nat
  BY DEF Command
<1>2. /\ issues[i].status = "ready" /\ issues[i].version \in Nat \ {0}
      /\ Attempts(i) \subseteq Nat
  BY <1>1, AdmissionParts DEF Ready
<1>3. top \in Attempts(i) /\ top \in Nat /\ \A n \in Attempts(i) : n <= top
  <2>1. \E m \in Attempts(i) : \A n \in Attempts(i) : m >= n
    BY <1>1, <1>2 DEF AttemptsOK
  <2>2. top \in Attempts(i) /\ \A n \in Attempts(i) : top >= n
    BY <2>1 DEF Max
  <2> QED BY <1>2, <2>2
<1>4. /\ runs' = Append(runs, row) /\ jobs' = jobs \cup {job}
      /\ issues' = [issues EXCEPT ![i] =
                [status |-> "in_progress", version |-> @.version + 1]]
      /\ admissions' = admissions \cup
                {[key |-> <<i, command.version>>, deadline |-> command.deadline,
                  run |-> run]}
  BY DEF AdmitJob, NextAttempt, IdempotencyKey
<1>5. /\ row \in RunRow /\ Len(runs) \in Nat /\ DOMAIN runs = 1 .. Len(runs)
      /\ runs \in Seq(RunRow)
      /\ \A r \in 1 .. Len(runs) : runs[r].issue \in Issue /\ runs[r].attempt \in Nat \ {0}
  BY <1>1, <1>3, AdmissionParts DEF RunRow
<1> HIDE DEF top
<1>6. /\ runs' \in Seq(RunRow) /\ DOMAIN runs' = 1 .. run /\ run \in Nat \ {0}
      /\ \A r \in 1 .. Len(runs) : runs'[r] = runs[r]
      /\ runs'[run] = row /\ row.issue = i /\ row.attempt = top + 1
  BY <1>4, <1>5, AppendProperties, LenProperties
<1>7. /\ issues'[i] = [status |-> "in_progress", version |-> issues[i].version + 1]
      /\ \A k \in Issue : k # i => issues'[k] = issues[k]
  BY <1>1, <1>4 DEF AdmissionTypes
<1>8. job \in JobRow /\ job.run = run /\ job.issue = i /\ job.task = command.task
  BY <1>1, <1>6 DEF JobRow
<1> HIDE DEF row, job
<1>9. issues' \in [Issue -> IssueRow]
  BY <1>1, <1>2, <1>4 DEF AdmissionTypes, IssueRow, IssueStatus
<1>10. jobs' \in SUBSET JobRow
  BY <1>4, <1>8 DEF AdmissionTypes
<1>11. admissions' \in SUBSET AdmissionRow
  BY <1>1, <1>4, <1>6 DEF AdmissionTypes, AdmissionRow
<1>12. \A k \in Issue : issues[k].status = "completed" => issues'[k].status = "completed"
  BY <1>2, <1>7
<1>13. \A k \in Issue : Satisfied(k) => Satisfied(k)'
  BY <1>12 DEF Satisfied
<1>14. \A r \in 1 .. run : r \in 1 .. Len(runs) \/ r = run
  BY <1>5, <1>6
<1>15. \A k \in Issue : /\ issues[k].version \in Nat /\ issues'[k].version \in Nat
                        /\ issues[k].version <= issues'[k].version
  <2> TAKE k \in Issue
  <2>1. issues[k].version \in Nat
    BY AdmissionParts
  <2> QED BY <1>2, <1>7, <2>1
<1>16. 3 * (top + 1) <= issues'[i].version
  <2>1. 3 * top + 2 <= issues[i].version
    BY <1>1, <1>2, <1>3 DEF AttemptsOK, Earned
  <2> QED BY <1>2, <1>3, <1>7, <2>1
<1>17. \A r \in 1 .. Len(runs) : runs[r].issue = i => runs[r].attempt <= top
  <2> TAKE r \in 1 .. Len(runs)
  <2>1. runs[r].issue = i => runs[r].attempt \in Attempts(i)
    BY <1>5 DEF Attempts
  <2> QED BY <1>3, <2>1
<1>18. \A j \in jobs' : j.task[1] = projection /\ j.run \in DOMAIN runs'
  <2>1. \A j \in jobs : j.task[1] = projection /\ j.run \in 1 .. Len(runs)
    BY <1>5 DEF ProjectionOK
  <2> QED BY <1>4, <1>5, <1>6, <1>8, <2>1
<1>19. RunsWereReady'
  <2>1. ASSUME NEW r \in 1 .. run
        PROVE  /\ 3 * runs'[r].attempt <= issues'[runs'[r].issue].version
               /\ \A d \in Needs[runs'[r].issue] : issues'[d].status = "completed"
               /\ \E j \in jobs' : j.run = r /\ j.issue = runs'[r].issue
    <3>1. CASE r = run
      <4>1. runs'[r].issue = i /\ runs'[r].attempt = top + 1
        BY <1>6, <3>1
      <4>2. 3 * runs'[r].attempt <= issues'[runs'[r].issue].version
        BY <1>16, <4>1
      <4>3. \A d \in Needs[i] : issues'[d].status = "completed"
        BY <1>1, <1>13 DEF Satisfied
      <4>4. \E j \in jobs' : j.run = r /\ j.issue = i
        BY <1>4, <1>8, <3>1
      <4> QED BY <4>1, <4>2, <4>3, <4>4
    <3>2. CASE r \in 1 .. Len(runs)
      <4>1. /\ 3 * runs[r].attempt <= issues[runs[r].issue].version
            /\ Satisfied(runs[r].issue)
            /\ \E j \in jobs : j.run = r /\ j.issue = runs[r].issue
        BY <1>5, <3>2 DEF RunsWereReady
      <4>2. 3 * runs[r].attempt <= issues'[runs[r].issue].version
        BY <1>5, <1>15, <3>2, <4>1
      <4> QED BY <1>4, <1>5, <1>6, <1>13, <3>2, <4>1, <4>2 DEF Satisfied
    <3> QED BY <1>14, <3>1, <3>2
  <2>2. ASSUME NEW q \in 1 .. run, NEW r \in 1 .. run, runs'[q].issue = runs'[r].issue, q < r
        PROVE  runs'[q].attempt < runs'[r].attempt
    <3>1. q \in 1 .. Len(runs)
      BY <1>5, <1>14, <2>2
    <3>2. CASE r = run
      <4>1. runs[q].issue = i /\ runs'[q] = runs[q] /\ runs[q].attempt \in Nat
        BY <1>5, <1>6, <2>2, <3>1, <3>2
      <4> QED BY <1>3, <1>6, <1>17, <3>1, <3>2, <4>1
    <3>3. CASE r \in 1 .. Len(runs)
      BY <1>5, <1>6, <2>2, <3>1, <3>3 DEF RunsWereReady
    <3> QED BY <1>14, <3>2, <3>3
  <2>3. \A j \in jobs : j.run # run
    BY <1>5 DEF ProjectionOK
  <2>4. projection \in imports
    BY <1>1 DEF ProjectionOK
  <2>5. \A j, k \in jobs' :
          /\ j.run = k.run => j = k
          /\ j.task[1] = k.task[1] /\ j.task[1] \in imports
    BY <1>4, <1>8, <1>18, <2>3, <2>4 DEF RunsWereReady
  <2> QED BY <1>6, <2>1, <2>2, <2>5 DEF RunsWereReady, Satisfied
<1>20. AttemptsOK'
  <2>1. \A k \in Issue : k # i => Attempts(k)' = Attempts(k)
    <3> TAKE k \in Issue
    <3>1. ASSUME k # i
          PROVE  {r \in DOMAIN runs' : runs'[r].issue = k}
                    = {r \in DOMAIN runs : runs[r].issue = k}
      BY <1>5, <1>6, <1>14, <3>1
    <3>2. ASSUME k # i
          PROVE  \A r \in {r \in DOMAIN runs : runs[r].issue = k} : runs'[r] = runs[r]
      BY <1>5, <1>6
    <3> QED BY <3>1, <3>2 DEF Attempts
  <2>2. Attempts(i)' \subseteq Attempts(i) \cup {top + 1} /\ top + 1 \in Attempts(i)'
    <3>1. \A r \in DOMAIN runs' : runs'[r].issue = i =>
            runs'[r].attempt \in Attempts(i) \cup {top + 1}
      BY <1>5, <1>6, <1>14 DEF Attempts
    <3>2. 0 \in Attempts(i)
      BY DEF Attempts
    <3>3. Attempts(i)' \subseteq Attempts(i) \cup {top + 1}
      BY <3>1, <3>2 DEF Attempts
    <3>4. run \in {r \in DOMAIN runs' : runs'[r].issue = i}
      BY <1>6
    <3>5. top + 1 \in Attempts(i)'
      BY <1>6, <3>4 DEF Attempts
    <3> QED BY <3>3, <3>5
  <2>3. ASSUME NEW k \in Issue, k # i
        PROVE  /\ \A m \in Attempts(k)' :
                    3 * m + Earned[issues'[k].status] <= issues'[k].version
               /\ \E m \in Attempts(k)' : \A n \in Attempts(k)' : n <= m
    BY <1>7, <2>1, <2>3 DEF AttemptsOK
  <2>4. \A m \in Attempts(i)' : m \in Nat /\ m <= top + 1
    BY <1>2, <1>3, <2>2
  <2>5. \A m \in Attempts(i)' :
          3 * m + Earned[issues'[i].status] <= issues'[i].version
    <3> TAKE m \in Attempts(i)'
    <3>1. Earned[issues'[i].status] = 0
      BY <1>7 DEF Earned
    <3>2. issues'[i].version \in Nat
      BY <1>1, <1>15
    <3> QED BY <1>3, <1>16, <2>4, <3>1, <3>2
  <2>6. \E m \in Attempts(i)' : \A n \in Attempts(i)' : n <= m
    BY <2>2, <2>4
  <2> QED BY <2>3, <2>5, <2>6 DEF AttemptsOK
<1> QED BY <1>6, <1>9, <1>10, <1>11, <1>18, <1>19, <1>20

\* A process that has admitted its first command, or has given all of them up.
LEMMA BatchShrinks ==
  ASSUME AdmissionInv, NEW s \in Process, UNCHANGED projection,
         \/ batch' = [batch EXCEPT ![s] = <<>>]
         \/ batch[s] # <<>> /\ batch' = [batch EXCEPT ![s] = Tail(@)]
  PROVE  /\ batch' \in [Process -> Seq(Command)]
         /\ \A p \in Process : \A n \in DOMAIN batch'[p] : batch'[p][n].task[1] = projection
<1> USE DEF AdmissionInv
<1>1. /\ batch \in [Process -> Seq(Command)]
      /\ batch[s] \in Seq(Command)
      /\ DOMAIN batch[s] = 1 .. Len(batch[s]) /\ Len(batch[s]) \in Nat
  BY AdmissionParts DEF AdmissionTypes
<1>2. \A p \in Process : \A n \in DOMAIN batch[p] : batch[p][n].task[1] = projection
  BY DEF ProjectionOK
<1>3. CASE batch' = [batch EXCEPT ![s] = <<>>]
  <2>1. \A p \in Process : p # s => batch'[p] = batch[p]
    BY <1>1, <1>3
  <2>2. batch'[s] = <<>> /\ DOMAIN batch'[s] = {}
    BY <1>1, <1>3
  <2> QED BY <1>1, <1>2, <1>3, <2>1, <2>2
<1>4. CASE batch[s] # <<>> /\ batch' = [batch EXCEPT ![s] = Tail(@)]
  <2>1. /\ Tail(batch[s]) \in Seq(Command) /\ Len(Tail(batch[s])) = Len(batch[s]) - 1
        /\ \A n \in 1 .. Len(Tail(batch[s])) : Tail(batch[s])[n] = batch[s][n + 1]
    BY <1>1, <1>4, HeadTailProperties
  <2>2. \A p \in Process : p # s => batch'[p] = batch[p]
    BY <1>1, <1>4
  <2>3. batch'[s] = Tail(batch[s])
    BY <1>1, <1>4
  <2>4. DOMAIN Tail(batch[s]) = 1 .. Len(batch[s]) - 1
    BY <2>1, LenProperties
  <2>5. \A n \in DOMAIN batch'[s] : batch'[s][n].task[1] = projection
    <3> TAKE n \in DOMAIN batch'[s]
    <3>1. n \in 1 .. Len(batch[s]) - 1 /\ n + 1 \in DOMAIN batch[s]
      BY <1>1, <2>3, <2>4
    <3>2. batch'[s][n] = batch[s][n + 1]
      BY <2>1, <2>3, <3>1
    <3> QED BY <1>2, <3>1, <3>2
  <2>6. batch' \in [Process -> Seq(Command)]
    BY <1>1, <1>4, <2>1
  <2> QED BY <1>2, <2>2, <2>5, <2>6
<1> QED BY <1>3, <1>4

\* A command names the version the query saw and a task of the stored import.
LEMMA ScanKeeps ==
  ASSUME AdmissionInv, NEW s \in Process, Scan(s)
  PROVE  AdmissionInv'
<1> USE AdmissionAssumption DEF AdmissionAssumption, AdmissionInv
<1> DEFINE seen == {i \in Issue : Admissible(i)}
           list == {[issue |-> i, version |-> issues[i].version,
                     task |-> <<projection, i>>, deadline |-> clock + Runtime]
                        : i \in seen}
<1>1. /\ UNCHANGED <<imports, projection, calls, issues, runs, jobs, admissions, clock, exits>>
      /\ batch' = [batch EXCEPT ![s] = SetToSeq(list)]
      /\ \E i \in Issue : Admissible(i)
  BY DEF Scan, autodev, admitted
<1>2. projection \in ImportKey
  BY <1>1 DEF Admissible, AdmissionTypes
<1>3. IsFiniteSet(list)
  <2>1. IsFiniteSet(seen)
    BY FS_Subset, seen \in SUBSET Issue
  <2>2. PICK n \in Nat : ExistsSurjection(1 .. n, seen)
    BY <2>1, FS_NatSurjection
  <2>3. PICK f \in [1 .. n -> seen] : \A i \in seen : \E k \in 1 .. n : f[k] = i
    BY <2>2 DEF ExistsSurjection, Surjection
  <2> DEFINE g == [k \in 1 .. n |->
                    [issue |-> f[k], version |-> issues[f[k]].version,
                     task |-> <<projection, f[k]>>, deadline |-> clock + Runtime]]
  <2>4. g \in [1 .. n -> list] /\ \A c \in list : \E k \in 1 .. n : g[k] = c
    BY <2>3
  <2>5. ExistsSurjection(1 .. n, list)
    BY <2>4 DEF ExistsSurjection, Surjection
  <2> QED BY <2>5, FS_NatSurjection
<1>4. \A c \in list : c \in Command /\ c.task[1] = projection
  <2> SUFFICES ASSUME NEW i \in Issue
               PROVE  /\ [issue |-> i, version |-> issues[i].version,
                          task |-> <<projection, i>>, deadline |-> clock + Runtime]
                                \in Command
                      /\ <<projection, i>>[1] = projection
    OBVIOUS
  <2>1. /\ issues[i].version \in Nat /\ clock + Runtime \in Nat
        /\ <<projection, i>> \in ImportKey \X Issue
    BY <1>2, AdmissionParts DEF AdmissionTypes
  <2> QED BY <2>1 DEF Command
<1> HIDE DEF list
<1>5. SetToSeq(list) \in Seq(list)
  BY <1>3, ListedInOrder
<1>6. /\ SetToSeq(list) \in Seq(Command)
      /\ \A n \in DOMAIN SetToSeq(list) : SetToSeq(list)[n].task[1] = projection
  <2>1. SetToSeq(list) \in Seq(Command)
    BY <1>4, <1>5, SeqMonotonic, list \subseteq Command
  <2>2. \A n \in DOMAIN SetToSeq(list) : SetToSeq(list)[n] \in list
    BY <1>5, LenProperties, ElementOfSeq
  <2> QED BY <1>4, <2>1, <2>2
<1>7. AdmissionTypes'
  <2>1. batch' \in [Process -> Seq(Command)]
    BY <1>1, <1>6 DEF AdmissionTypes
  <2> QED BY <1>1, <2>1 DEF AdmissionTypes
<1>8. ProjectionOK'
  <2>1. \A p \in Process : p # s => batch'[p] = batch[p]
    BY <1>1 DEF AdmissionTypes
  <2>2. batch'[s] = SetToSeq(list)
    BY <1>1 DEF AdmissionTypes
  <2>3. \A p \in Process : \A n \in DOMAIN batch'[p] : batch'[p][n].task[1] = projection
    BY <1>6, <2>1, <2>2 DEF ProjectionOK
  <2> QED BY <1>1, <2>3 DEF ProjectionOK
<1> QED BY <1>1, <1>7, <1>8, RowsStay

LEMMA AdmitKeeps ==
  ASSUME AdmissionInv, NEW s \in Process, Admit(s) \/ Crash(s)
  PROVE  AdmissionInv'
<1> USE DEF AdmissionInv
<1> DEFINE command == Head(batch[s])
<1>1. /\ UNCHANGED <<imports, projection, calls, clock>> /\ batch[s] # <<>>
  BY DEF Admit, Crash, autodev
<1>2. exits' \in Nat
  BY DEF Admit, Crash, Exit, AdmissionTypes
<1>3. \/ batch' = [batch EXCEPT ![s] = <<>>]
      \/ batch[s] # <<>> /\ batch' = [batch EXCEPT ![s] = Tail(@)]
  BY <1>1 DEF Admit, Crash, Exit
<1>4. /\ batch' \in [Process -> Seq(Command)]
      /\ \A p \in Process : \A n \in DOMAIN batch'[p] : batch'[p][n].task[1] = projection
  BY <1>1, <1>3, BatchShrinks
<1>5. CASE UNCHANGED <<issues, runs, jobs, admissions>>
  <2>1. AdmissionTypes'
    BY <1>1, <1>2, <1>4, <1>5 DEF AdmissionTypes
  <2>2. ProjectionOK'
    BY <1>1, <1>4, <1>5 DEF ProjectionOK
  <2> QED BY <1>1, <1>5, <2>1, <2>2, RowsStay
<1>6. CASE AdmitJob(command) /\ Ready(command) /\ Satisfied(command.issue)
  <2>1. command \in Command /\ command.task[1] = projection
    <3>1. /\ batch[s] \in Seq(Command) /\ DOMAIN batch[s] = 1 .. Len(batch[s])
          /\ Len(batch[s]) \in Nat
      BY AdmissionParts
    <3>2. 1 \in DOMAIN batch[s] /\ command = batch[s][1]
      BY <1>1, <3>1, EmptySeq
    <3> QED BY <1>1, <3>1, <3>2, HeadTailProperties DEF ProjectionOK
  <2> HIDE DEF command
  <2>2. /\ issues' \in [Issue -> IssueRow] /\ runs' \in Seq(RunRow)
        /\ jobs' \in SUBSET JobRow /\ admissions' \in SUBSET AdmissionRow
        /\ RunsWereReady' /\ AttemptsOK'
        /\ \A j \in jobs' : j.task[1] = projection /\ j.run \in DOMAIN runs'
    BY <1>1, <1>6, <2>1, AdmitJobKeeps
  <2>3. AdmissionTypes'
    BY <1>1, <1>2, <1>4, <2>2 DEF AdmissionTypes
  <2>4. ProjectionOK'
    BY <1>1, <1>4, <2>2 DEF ProjectionOK
  <2> QED BY <2>2, <2>3, <2>4
<1>7. \/ UNCHANGED <<issues, runs, jobs, admissions>>
      \/ AdmitJob(command) /\ Ready(command) /\ Satisfied(command.issue)
  BY DEF Admit, Crash, Exit, admitted
<1> QED BY <1>5, <1>6, <1>7

\* The plan is imported, perhaps more than once, and one import is stored.
LEMMA ProjectKeeps ==
  ASSUME AdmissionInv, NEW c \in Call,
         \/ \E k \in ImportKey : AskProject(c, k)
         \/ \E answered \in BOOLEAN : ImportPlan(c, answered)
         \/ SaveProjection(c)
  PROVE  AdmissionInv'
<1> USE AdmissionAssumption DEF AdmissionAssumption, AdmissionInv
<1>0. /\ UNCHANGED <<issues, runs, jobs, admissions, batch, clock, exits>>
      /\ calls \in [Call -> ProjectCall] /\ calls[c] \in ProjectCall
  BY DEF AskProject, ImportPlan, SaveProjection, admitted, AdmissionTypes
<1>1. ASSUME NEW k \in ImportKey, AskProject(c, k)
      PROVE  AdmissionInv'
  <2>1. /\ UNCHANGED <<imports, projection>>
        /\ calls' = [calls EXCEPT ![c] = [stage |-> "found_none", key |-> k]]
    BY <1>1 DEF AskProject
  <2>2. AdmissionTypes'
    BY <1>0, <2>1 DEF AdmissionTypes, ProjectCall
  <2>3. ProjectionOK'
    BY <1>0, <2>1 DEF ProjectionOK
  <2> QED BY <1>0, <2>1, <2>2, <2>3, RowsStay
<1>2. ASSUME NEW answered \in BOOLEAN, ImportPlan(c, answered)
      PROVE  AdmissionInv'
  <2> DEFINE stage == IF answered THEN "imported" ELSE "idle"
  <2>1. /\ UNCHANGED projection /\ calls[c].stage = "found_none"
        /\ imports' = imports \cup {calls[c].key}
        /\ calls' = [calls EXCEPT ![c].stage = stage]
    BY <1>2 DEF ImportPlan, Stage
  <2>2. calls[c].key \in ImportKey
    BY <2>1 DEF ProjectionOK
  <2>3. /\ calls'[c].stage = stage /\ calls'[c].key = calls[c].key
        /\ \A d \in Call : d # c => calls'[d] = calls[d]
    BY <1>0, <2>1 DEF ProjectCall
  <2>4. AdmissionTypes'
    <3>1. [calls[c] EXCEPT !.stage = stage] \in ProjectCall
      BY <1>0 DEF ProjectCall
    <3>2. calls' \in [Call -> ProjectCall]
      BY <1>0, <2>1, <3>1
    <3> QED BY <1>0, <2>1, <2>2, <3>2 DEF AdmissionTypes
  <2> HIDE DEF stage
  <2>5. ProjectionOK'
    <3>1. \A d \in Call : /\ calls'[d].stage # "idle" => calls'[d].key \in ImportKey
                          /\ calls'[d].stage = "imported" => calls'[d].key \in imports'
      BY <2>1, <2>2, <2>3 DEF ProjectionOK
    <3>2. projection' # None => projection' \in imports'
      BY <2>1 DEF ProjectionOK
    <3>3. \A s \in Process : \A n \in DOMAIN batch'[s] :
            batch'[s][n].task[1] = projection'
      BY <1>0, <2>1 DEF ProjectionOK
    <3>4. \A j \in jobs' : j.task[1] = projection' /\ j.run \in DOMAIN runs'
      BY <1>0, <2>1 DEF ProjectionOK
    <3> QED BY <3>1, <3>2, <3>3, <3>4 DEF ProjectionOK
  <2> QED BY <1>0, <2>1, <2>4, <2>5, RowsStay
<1>3. CASE SaveProjection(c)
  <2>1. /\ UNCHANGED imports /\ calls[c].stage = "imported"
        /\ projection' = IF projection = None THEN calls[c].key ELSE projection
        /\ calls' = [calls EXCEPT ![c].stage = "idle"]
    BY <1>3 DEF SaveProjection, Stage, Unprojected
  <2>2. calls[c].key \in ImportKey /\ calls[c].key \in imports
    BY <2>1 DEF ProjectionOK
  <2>3. /\ calls'[c].stage = "idle" /\ calls'[c].key = calls[c].key
        /\ \A d \in Call : d # c => calls'[d] = calls[d]
    BY <1>0, <2>1 DEF ProjectCall
  <2>4. AdmissionTypes'
    <3>1. [calls[c] EXCEPT !.stage = "idle"] \in ProjectCall
      BY <1>0 DEF ProjectCall
    <3>2. calls' \in [Call -> ProjectCall]
      BY <1>0, <2>1, <3>1
    <3>3. projection' \in ImportKey \cup {None}
      BY <2>1, <2>2 DEF AdmissionTypes
    <3> QED BY <1>0, <2>1, <3>2, <3>3 DEF AdmissionTypes
  <2>5. CASE projection = None
    <3>1. \A s \in Process : \A n \in DOMAIN batch[s] : FALSE
      <4> SUFFICES ASSUME NEW s \in Process, NEW n \in DOMAIN batch[s] PROVE FALSE
        OBVIOUS
      <4>1. batch[s][n] \in Command /\ batch[s][n].task[1] = projection
        BY AdmissionParts DEF ProjectionOK
      <4> QED BY <2>5, <4>1 DEF Command
    <3>2. \A j \in jobs : FALSE
      BY <2>5, AdmissionParts DEF ProjectionOK
    <3>3. ProjectionOK'
      BY <1>0, <2>1, <2>2, <2>3, <2>5, <3>1, <3>2 DEF ProjectionOK
    <3> QED BY <1>0, <2>1, <2>4, <3>3, RowsStay
  <2>6. CASE projection # None
    <3>1. projection' = projection
      BY <2>1, <2>6
    <3>2. ProjectionOK'
      BY <1>0, <2>1, <2>3, <3>1 DEF ProjectionOK
    <3> QED BY <1>0, <2>1, <2>4, <3>2, RowsStay
  <2> QED BY <2>5, <2>6
<1> QED BY <1>1, <1>2, <1>3

LEMMA AdmissionNextKeeps ==
  ASSUME AdmissionInv, AdmissionNext
  PROVE  AdmissionInv'
<1>1. CASE TimePasses
  <2>1. /\ UNCHANGED <<imports, projection, calls, issues, runs, jobs, admissions, batch, exits>>
        /\ clock' = clock + 1
    BY <1>1 DEF TimePasses, autodev, admitted
  <2>2. AdmissionTypes' /\ ProjectionOK'
    BY <2>1 DEF AdmissionInv, AdmissionTypes, ProjectionOK
  <2> QED BY <2>1, <2>2, RowsStay DEF AdmissionInv
<1> QED BY <1>1, ProjectKeeps, MoveIssueKeeps, ScanKeeps, AdmitKeeps DEF AdmissionNext

\* For any number of processes, issues and stale commands: a further run of an
\* issue is paid for by its being made ready again, and everything scheduled
\* comes from one accepted import (postgres-scheduler-admission-repository.ts
\* admit, postgres-queue-projection-repository.ts save).
THEOREM RunsWereAlwaysReady == Spec => []RunsWereReady
<1>1. AdmissionInv /\ [Next]_vars => AdmissionInv'
  <2> SUFFICES ASSUME AdmissionInv, [Next]_vars PROVE AdmissionInv'
    OBVIOUS
  <2>1. CASE AdmissionStep
    BY <2>1, AdmissionNextKeeps DEF AdmissionStep
  <2>2. CASE ~AdmissionStep
    <3>1. UNCHANGED admissionVars
      BY <2>2 DEF Next, vars, AccessStep, SignInStep, ClarificationStep, EvidenceStep,
                  WavesStep
    <3>2. UNCHANGED <<imports, projection, calls, issues, runs, jobs, admissions,
                      batch, clock, exits>>
      BY <3>1 DEF admissionVars
    <3>3. AdmissionTypes' /\ ProjectionOK'
      BY <3>2 DEF AdmissionInv, AdmissionTypes, ProjectionOK
    <3> QED BY <3>2, <3>3, RowsStay DEF AdmissionInv
  <2> QED BY <2>1, <2>2
<1>2. AdmissionInv => RunsWereReady
  BY DEF AdmissionInv
<1> QED BY <1>1, <1>2, AdmissionInitHolds, PTL DEF Spec

-----------------------------------------------------------------------------
(* Artifacts and reviews.                                                   *)

\* An ingest that may save its row has seen the object in the store: it is still
\* there or its lock has ended.  Who wrote an object that has not expired wrote
\* its lock.  A review that may be saved has passed its checks.
Stands(a) ==
    \/ Expired(a.until)
    \/ a.digest \in objects
    \/ ~a.wrote /\ Expired(locks[a.digest])
Locked(a) ==
    \/ ~a.wrote
    \/ Expired(a.until)
    \/ a.digest \in objects /\ locks[a.digest] = a.until
StagedOK ==
    /\ \A i \in ingests : Locked(i) /\ (i.stage = "put" => Stands(i))
    /\ \A i \in ingests : i.stage \in {"staged", "absent"} => ~i.wrote
    /\ \A a \in artifacts : Locked(a)
    /\ \A r \in submitting :
        /\ r.builder # r.reviewer
        /\ \A d \in r.digests : HasArtifact(r.run, d)

EvidenceInv == EvidenceTypes /\ EvidenceStands /\ StagedOK

LEMMA EvidenceInitHolds == Init => EvidenceInv
<1> SUFFICES ASSUME EvidenceInit PROVE EvidenceInv
  BY DEF Init
<1> USE DEF EvidenceInit
<1>1. EvidenceTypes
  BY DEF EvidenceTypes, NoEnd
<1>2. EvidenceStands
  BY DEF EvidenceStands
<1>3. StagedOK
  BY DEF StagedOK
<1> QED BY <1>1, <1>2, <1>3 DEF EvidenceInv

\* How the store and the clock move: days pass, a lock that has not ended stays
\* with its object, and a new one comes only to a digest that is not there.
StoreMoves ==
    /\ today' \in Nat /\ today <= today'
    /\ objects' \in SUBSET Content /\ locks' \in [Content -> Nat]
    /\ \A d \in Content : \/ locks'[d] = locks[d]
                          \/ d \notin objects /\ d \in objects'
    /\ \A d \in objects : d \notin objects' => locks'[d] = locks[d] /\ Expired(locks[d])

\* What stands and is locked stays so.
LEMMA StandingStays ==
  ASSUME EvidenceTypes, StoreMoves, NEW a, a.until \in Nat, a.digest \in Content,
         a.wrote \in BOOLEAN
  PROVE  /\ Locked(a) => Locked(a)'
         /\ Stands(a) /\ Locked(a) => Stands(a)'
<1>1. today \in Nat /\ locks \in [Content -> Nat]
  BY DEF EvidenceTypes
<1>2. Expired(a.until) => Expired(a.until)'
  BY <1>1 DEF Expired, StoreMoves
<1>3. Expired(locks[a.digest]) /\ locks'[a.digest] = locks[a.digest]
        => Expired(locks[a.digest])'
  BY <1>1 DEF Expired, StoreMoves
<1>4. \/ locks'[a.digest] = locks[a.digest]
      \/ a.digest \notin objects /\ a.digest \in objects'
  BY DEF StoreMoves
<1>5. a.digest \in objects /\ a.digest \notin objects'
        => locks'[a.digest] = locks[a.digest] /\ Expired(locks[a.digest])
  BY DEF StoreMoves
<1>6. Locked(a) => Locked(a)'
  BY <1>2, <1>4, <1>5 DEF Locked
<1>7. Stands(a) /\ Locked(a) => Stands(a)'
  <2> SUFFICES ASSUME Stands(a), Locked(a), ~Expired(a.until)', a.digest \notin objects'
               PROVE  ~a.wrote /\ Expired(locks[a.digest])'
    BY DEF Stands
  <2>1. ~Expired(a.until) /\ locks'[a.digest] = locks[a.digest]
    BY <1>2, <1>4
  <2>2. Expired(locks[a.digest])
    BY <1>5, <2>1 DEF Stands
  <2>3. ~a.wrote
    BY <1>6, <2>1 DEF Locked
  <2> QED BY <1>3, <2>1, <2>2, <2>3
<1> QED BY <1>6, <1>7

\* The rows stand: what EvidenceStands says of artifacts.
LEMMA RowsStand ==
  ASSUME EvidenceTypes, NEW a \in artifacts
  PROVE  Stands(a) <=> \/ Expired(a.until) \/ Downloadable(a)
                       \/ ~a.wrote /\ Expired(locks[a.digest])
BY DEF Stands, Downloadable

\* Steps of the store, of the clock and of an ingest before its rows are saved.
LEMMA IngestStays ==
  ASSUME EvidenceInv, StoreMoves, UNCHANGED <<artifacts, evidence, review>>,
         started' \in Nat, ingests' \in SUBSET Ingest,
         \A i \in ingests' : \/ i \in ingests
                             \/ /\ Locked(i)' /\ (i.stage = "put" => Stands(i)')
                                /\ i.stage \in {"staged", "absent"} => ~i.wrote
  PROVE  EvidenceInv'
<1> USE DEF EvidenceInv
<1>0. UNCHANGED <<reviews, submitting, submitted>>
  BY DEF review
<1>1. EvidenceTypes'
  BY <1>0 DEF EvidenceTypes, StoreMoves
<1>2. \A run, d : HasArtifact(run, d)' = HasArtifact(run, d)
  BY DEF HasArtifact
<1>3. \A a \in artifacts : Stands(a)' /\ Locked(a)'
  <2> TAKE a \in artifacts
  <2>1. a.until \in Nat /\ a.digest \in Content /\ a.wrote \in BOOLEAN
    BY DEF EvidenceTypes, ArtifactRow
  <2>2. Stands(a) /\ Locked(a)
    BY RowsStand DEF EvidenceStands, StagedOK
  <2> QED BY <2>1, <2>2, StandingStays
<1>4. EvidenceStands'
  <2>1. \A a \in artifacts' : \/ Expired(a.until)' \/ Downloadable(a)'
                              \/ ~a.wrote /\ Expired(locks[a.digest])'
    BY <1>3 DEF Stands, Downloadable
  <2> QED BY <1>0, <1>2, <2>1 DEF EvidenceStands
<1>5. StagedOK'
  <2>1. \A i \in ingests' : Locked(i)' /\ (i.stage = "put" => Stands(i)')
    <3> TAKE i \in ingests'
    <3>1. CASE i \in ingests
      <4>1. i.until \in Nat /\ i.digest \in Content /\ i.wrote \in BOOLEAN
        BY <3>1 DEF EvidenceTypes, Ingest
      <4> QED BY <3>1, <4>1, StandingStays DEF StagedOK
    <3> QED BY <3>1
  <2>2. \A i \in ingests' : i.stage \in {"staged", "absent"} => ~i.wrote
    BY DEF StagedOK
  <2> QED BY <1>0, <1>2, <1>3, <2>1, <2>2 DEF StagedOK
<1> QED BY <1>1, <1>4, <1>5

\* Nothing has to move.
LEMMA StoreRests ==
  ASSUME EvidenceTypes, UNCHANGED <<today, objects, locks>>
  PROVE  /\ StoreMoves
         /\ \A a : Locked(a)' = Locked(a) /\ Stands(a)' = Stands(a)
<1>1. StoreMoves
  BY DEF EvidenceTypes, StoreMoves
<1>2. \A until : Expired(until)' = Expired(until)
  BY DEF Expired
<1> QED BY <1>1, <1>2 DEF Locked, Stands, Expired

LEMMA IngestKeeps ==
  ASSUME EvidenceInv, NEW i \in ingests,
         \/ HeadObject(i) \/ ConfirmObject(i) \/ LoseIngest(i)
         \/ \E arrives \in BOOLEAN : PutObject(i, arrives)
  PROVE  EvidenceInv'
<1> USE DEF EvidenceInv
<1>1. /\ i \in Ingest /\ ingests \subseteq Ingest /\ started \in Nat
      /\ i.digest \in Content /\ i.until \in Nat /\ i.wrote \in BOOLEAN
      /\ Locked(i) /\ today \in Nat /\ locks \in [Content -> Nat]
  BY DEF EvidenceTypes, Ingest, StagedOK
<1>2. ASSUME NEW stage \in {"absent", "put"}, NEW moved,
             moved = [i EXCEPT !.stage = stage],
             ingests' = (ingests \ {i}) \cup {moved},
             UNCHANGED <<today, objects, locks, artifacts, evidence, started, review>>,
             stage = "put" => i.digest \in objects,
             stage = "absent" => ~i.wrote
      PROVE  EvidenceInv'
  <2>1. /\ moved \in Ingest /\ moved.stage = stage /\ moved.digest = i.digest
        /\ moved.wrote = i.wrote /\ moved.until = i.until
    BY <1>1, <1>2 DEF Ingest
  <2>2. Locked(moved) /\ (stage = "put" => Stands(moved))
    BY <1>1, <1>2, <2>1 DEF Locked, Stands
  <2>3. StoreMoves /\ Locked(moved)' /\ (stage = "put" => Stands(moved)')
    BY <1>2, <2>2, StoreRests
  <2> QED BY <1>1, <1>2, <2>1, <2>3, IngestStays
<1>3. CASE HeadObject(i)
  <2>1. PICK stage \in {"absent", "put"} :
          /\ ingests' = (ingests \ {i}) \cup {[i EXCEPT !.stage = stage]}
          /\ stage = "put" => i.digest \in objects
    BY <1>3 DEF HeadObject, Move
  <2>2. /\ UNCHANGED <<today, objects, locks, artifacts, evidence, started, review>>
        /\ ~i.wrote
    BY <1>3 DEF HeadObject, store, StagedOK
  <2> QED BY <1>2, <2>1, <2>2
<1>4. ASSUME ingests' = ingests \ {i},
             UNCHANGED <<today, objects, locks, artifacts, evidence, started, review>>
      PROVE  EvidenceInv'
  BY <1>1, <1>4, StoreRests, IngestStays
<1>5. CASE ConfirmObject(i)
  <2>1. /\ UNCHANGED <<today, objects, locks, artifacts, evidence, started, review>>
        /\ \/ ingests' = ingests \ {i}
           \/ /\ ingests' = (ingests \ {i}) \cup {[i EXCEPT !.stage = "put"]}
              /\ i.digest \in objects
    BY <1>5 DEF ConfirmObject, Move, Drop, Uploaded, store
  <2> QED BY <1>2, <1>4, <2>1
<1>6. CASE LoseIngest(i)
  BY <1>4, <1>6 DEF LoseIngest, Drop, store
<1>7. ASSUME NEW arrives \in BOOLEAN, PutObject(i, arrives)
      PROVE  EvidenceInv'
  <2> DEFINE writes == arrives /\ i.digest \notin objects
  <2>0. PICK moved : moved = [i EXCEPT !.stage = "sent", !.wrote = writes]
    OBVIOUS
  <2>1. /\ UNCHANGED <<today, artifacts, evidence, started, review>>
        /\ objects' = IF writes THEN objects \cup {i.digest} ELSE objects
        /\ locks' = IF writes THEN [locks EXCEPT ![i.digest] = i.until] ELSE locks
        /\ ingests' = (ingests \ {i}) \cup {moved}
    BY <1>7, <2>0 DEF PutObject
  <2>2. /\ moved \in Ingest /\ moved.stage = "sent" /\ moved.digest = i.digest
        /\ moved.wrote = writes /\ moved.until = i.until
    BY <1>1, <2>0 DEF Ingest
  <2>3. writes => i.digest \in objects' /\ locks'[i.digest] = i.until
    BY <1>1, <2>1
  <2>4. StoreMoves
    BY <1>1, <2>1 DEF StoreMoves, EvidenceTypes
  <2>5. Locked(moved)'
    BY <2>2, <2>3 DEF Locked
  <2> QED BY <1>1, <2>1, <2>2, <2>4, <2>5, IngestStays
<1> QED BY <1>3, <1>5, <1>6, <1>7

LEMMA StoreKeeps ==
  ASSUME EvidenceInv, DayPasses \/ \E digest \in Content : Purge(digest)
  PROVE  EvidenceInv'
<1> USE DEF EvidenceInv
<1>1. /\ UNCHANGED <<artifacts, evidence, ingests, started, review>>
      /\ ingests \in SUBSET Ingest /\ started \in Nat
  BY DEF DayPasses, Purge, EvidenceTypes
<1>2. StoreMoves
  BY DEF DayPasses, Purge, EvidenceTypes, StoreMoves
<1> QED BY <1>1, <1>2, IngestStays

\* The row of a digest is the one that was there, or the first.
LEMMA SaveArtifactKeeps ==
  ASSUME EvidenceInv, NEW i \in ingests, SaveArtifact(i)
  PROVE  EvidenceInv'
<1> USE DEF EvidenceInv
<1> DEFINE row == [kind |-> i.kind, digest |-> i.digest, until |-> i.until,
                   wrote |-> i.wrote]
           stored == {a \in artifacts : a.digest = i.digest}
           kept == IF stored = {} THEN row ELSE CHOOSE a \in stored : TRUE
           new == [run |-> i.run, kind |-> i.kind, digest |-> i.digest,
                   until |-> kept.until]
<1>1. /\ i \in Ingest /\ i.digest \in Content /\ i.run \in Run /\ i.kind \in Kind
      /\ i.until \in Nat /\ i.wrote \in BOOLEAN
      /\ Stands(i) /\ Locked(i)
  BY DEF EvidenceTypes, Ingest, StagedOK, SaveArtifact
<1>2. /\ UNCHANGED <<today, objects, locks, started, reviews, submitting, submitted>>
      /\ ingests' = ingests \ {i}
      /\ \/ UNCHANGED <<artifacts, evidence>>
         \/ /\ {a \in artifacts : a.digest = i.digest /\ a.kind # i.kind} = {}
            /\ artifacts' = artifacts \cup {kept}
            /\ evidence' = evidence \/ evidence' = evidence \cup {new}
  BY DEF SaveArtifact, Drop, review
<1>3. CASE UNCHANGED <<artifacts, evidence>>
  BY <1>2, <1>3, StoreRests, IngestStays DEF EvidenceTypes, review
<1>4. CASE /\ {a \in artifacts : a.digest = i.digest /\ a.kind # i.kind} = {}
           /\ artifacts' = artifacts \cup {kept}
           /\ evidence' = evidence \/ evidence' = evidence \cup {new}
  <2>1. /\ kept \in ArtifactRow /\ kept.digest = i.digest /\ kept.kind = i.kind
        /\ Stands(kept) /\ Locked(kept)
        /\ \A a \in artifacts : a.digest = i.digest => a = kept
    <3>1. CASE stored = {}
      <4>1. row \in ArtifactRow /\ Stands(row) /\ Locked(row)
        BY <1>1 DEF ArtifactRow, Stands, Locked
      <4> QED BY <3>1, <4>1
    <3>2. CASE stored # {}
      <4>1. kept \in stored /\ kept \in artifacts
        BY <3>2
      <4>2. \A a \in artifacts : a.digest = i.digest => a = kept
        BY <4>1 DEF EvidenceStands
      <4>3. \A a \in artifacts : Stands(a) /\ Locked(a)
        BY RowsStand DEF EvidenceStands, StagedOK
      <4> HIDE DEF kept
      <4> QED BY <1>4, <4>1, <4>2, <4>3 DEF EvidenceTypes
    <3> QED BY <3>1, <3>2
  <2> HIDE DEF kept
  <2>2. new \in EvidenceRow
    BY <1>1, <2>1 DEF EvidenceRow, ArtifactRow
  <2>3. /\ new.kind = kept.kind /\ new.digest = kept.digest
        /\ new.until = kept.until
    BY <2>1
  <2> HIDE DEF new
  <2>4. EvidenceTypes'
    BY <1>2, <1>4, <2>1, <2>2 DEF EvidenceTypes
  <2>5. \A run, d : HasArtifact(run, d) => HasArtifact(run, d)'
    BY <1>4 DEF HasArtifact
  <2>6. \A a \in artifacts' : Stands(a)' /\ Locked(a)'
    <3>1. \A a \in artifacts : Stands(a) /\ Locked(a)
      BY RowsStand DEF EvidenceStands, StagedOK
    <3> QED BY <1>2, <1>4, <2>1, <3>1, StoreRests
  <2>7. EvidenceStands'
    <3>1. \A a, b \in artifacts' : a.digest = b.digest => a = b
      BY <1>4, <2>1 DEF EvidenceStands
    <3>2. \A e \in evidence' : \E a \in artifacts' :
            <<a.kind, a.digest, a.until>> = <<e.kind, e.digest, e.until>>
      BY <1>4, <2>3 DEF EvidenceStands
    <3>3. \A a \in artifacts' : \/ Expired(a.until)' \/ Downloadable(a)'
                                \/ ~a.wrote /\ Expired(locks[a.digest])'
      BY <2>6 DEF Stands, Downloadable
    <3> QED BY <1>2, <2>5, <3>1, <3>2, <3>3 DEF EvidenceStands
  <2>8. StagedOK'
    BY <1>2, <2>5, <2>6, StoreRests DEF StagedOK
  <2> QED BY <2>4, <2>7, <2>8
<1> QED BY <1>2, <1>3, <1>4

LEMMA ReviewKeeps ==
  ASSUME EvidenceInv,
         \/ \E run \in Run, key \in ReviewKey, builder, reviewer \in Reviewer,
               digests \in SUBSET Content :
                    StartReview(run, key, builder, reviewer, digests)
         \/ \E s \in submitting : SaveReview(s)
  PROVE  EvidenceInv'
<1> USE DEF EvidenceInv
<1>1. UNCHANGED <<today, objects, locks, artifacts, evidence, ingests, started>>
  BY DEF StartReview, SaveReview, store
<1>2. \A run, d : HasArtifact(run, d)' = HasArtifact(run, d)
  BY <1>1 DEF HasArtifact
<1>5. /\ \A a : Locked(a)' = Locked(a) /\ Stands(a)' = Stands(a)
      /\ \A until : Expired(until)' = Expired(until)
      /\ \A a : Downloadable(a)' = Downloadable(a)
  BY <1>1, StoreRests DEF Downloadable, Expired
<1>3. ASSUME NEW run \in Run, NEW key \in ReviewKey, NEW builder \in Reviewer,
             NEW reviewer \in Reviewer, NEW digests \in SUBSET Content,
             StartReview(run, key, builder, reviewer, digests)
      PROVE  EvidenceInv'
  <2> DEFINE s == [id |-> submitted, run |-> run, key |-> key, builder |-> builder,
                   reviewer |-> reviewer, digests |-> digests]
  <2>1. /\ reviews' = reviews /\ submitting' = submitting \cup {s}
        /\ submitted' = submitted + 1 /\ submitted \in Nat
        /\ builder # reviewer /\ \A d \in digests : HasArtifact(run, d)
    BY <1>3 DEF StartReview, EvidenceTypes
  <2>2. EvidenceTypes'
    BY <1>1, <2>1 DEF EvidenceTypes, ReviewRow
  <2>3. EvidenceStands'
    BY <1>1, <1>2, <1>5, <2>1 DEF EvidenceStands
  <2>4. StagedOK'
    BY <1>1, <1>2, <1>5, <2>1 DEF StagedOK
  <2> QED BY <2>2, <2>3, <2>4
<1>4. ASSUME NEW s \in submitting, SaveReview(s)
      PROVE  EvidenceInv'
  <2>1. /\ submitting' = submitting \ {s} /\ submitted' = submitted
        /\ reviews' = IF \E r \in reviews : r.run = s.run /\ r.key = s.key
                      THEN reviews ELSE reviews \cup {s}
    BY <1>4 DEF SaveReview
  <2>2. EvidenceTypes'
    BY <1>1, <2>1 DEF EvidenceTypes
  <2>3. StagedOK'
    BY <1>1, <1>2, <1>5, <2>1 DEF StagedOK
  <2>4. \A r \in reviews' :
          /\ r.builder # r.reviewer
          /\ \A d \in r.digests : HasArtifact(r.run, d)
          /\ \A t \in reviews' : <<r.run, r.key>> = <<t.run, t.key>> => r = t
    BY <2>1 DEF EvidenceStands, StagedOK
  <2>5. EvidenceStands'
    BY <1>1, <1>2, <1>5, <2>4 DEF EvidenceStands
  <2> QED BY <2>2, <2>3, <2>5
<1> QED BY <1>3, <1>4

LEMMA EvidenceNextKeeps ==
  ASSUME EvidenceInv, EvidenceNext
  PROVE  EvidenceInv'
<1>1. ASSUME NEW run \in Run, NEW kind \in Kind, NEW digest \in Content,
             NEW retention \in Retention, StartIngest(run, kind, digest, retention)
      PROVE  EvidenceInv'
  <2> DEFINE until == IF retention = NoEnd THEN NoEnd ELSE today + retention
  <2>0. PICK i : i = [id |-> started, run |-> run, kind |-> kind, digest |-> digest,
                      stage |-> "staged", wrote |-> FALSE, until |-> until]
    OBVIOUS
  <2>1. /\ started' = started + 1 /\ started \in Nat /\ ingests' = ingests \cup {i}
        /\ UNCHANGED <<today, objects, locks, artifacts, evidence, review>>
    BY <1>1, <2>0 DEF StartIngest, EvidenceInv, EvidenceTypes, store
  <2>2. until \in Nat
    BY RetentionIsDays DEF EvidenceInv, EvidenceTypes, NoEnd
  <2> HIDE DEF until
  <2>3. /\ i \in Ingest /\ i.stage = "staged" /\ ~i.wrote /\ ingests \subseteq Ingest
    BY <2>0, <2>1, <2>2 DEF Ingest, EvidenceInv, EvidenceTypes
  <2>4. StoreMoves /\ Locked(i)'
    BY <2>1, <2>3, StoreRests DEF Locked, EvidenceInv
  <2> QED BY <2>1, <2>3, <2>4, IngestStays
<1> QED BY <1>1, IngestKeeps, StoreKeeps, SaveArtifactKeeps, ReviewKeeps DEF EvidenceNext

\* However ingests of the same bytes interleave, are lost or crash, and whatever
\* the lifecycle cleans away: evidence leads to its one artifact, that to its
\* object until it expires or an older lock ends, and a review to evidence of its
\* own run (s3-object-store.ts putImmutable, postgres-evidence-repository.ts
\* saveArtifact, saveReview).
THEOREM EvidenceAlwaysStands == Spec => []EvidenceStands
<1>1. EvidenceInv /\ [Next]_vars => EvidenceInv'
  <2> SUFFICES ASSUME EvidenceInv, [Next]_vars PROVE EvidenceInv'
    OBVIOUS
  <2>1. CASE EvidenceStep
    BY <2>1, EvidenceNextKeeps DEF EvidenceStep
  <2>2. CASE ~EvidenceStep
    <3>1. UNCHANGED evidenceVars
      BY <2>2 DEF Next, vars, AccessStep, SignInStep, ClarificationStep, AdmissionStep,
                  WavesStep
    <3> QED BY <3>1, StoreRests, IngestStays
            DEF evidenceVars, EvidenceInv, EvidenceTypes, review
  <2> QED BY <2>1, <2>2
<1>2. EvidenceInv => EvidenceStands
  BY DEF EvidenceInv
<1> QED BY <1>1, <1>2, EvidenceInitHolds, PTL DEF Spec

-----------------------------------------------------------------------------
(* Sign-in.                                                                 *)

\* A callback brings a code the provider gave, and one that was checked brings
\* the cookie of the same attempt.
CallbacksOK ==
    \A c \in callbacks : /\ c.code \in codes
                         /\ c.checked => c.cookie = c.code

SignInInv == SignInTypes /\ SessionsAreEarned /\ CallbacksOK

Earnings == {s.attempt : s \in sessions}

LEMMA SignInInitHolds == Init => SignInInv
<1> SUFFICES ASSUME SignInInit PROVE SignInInv
  BY DEF Init
<1> USE DEF SignInInit
<1>1. SignInTypes
  BY DEF SignInTypes
<1>2. SessionsAreEarned
  <2>1. spentCodes \ {s.attempt : s \in sessions} = {}
    OBVIOUS
  <2> QED BY <2>1, FS_EmptySet DEF SessionsAreEarned, Principal
<1>3. CallbacksOK
  BY DEF CallbacksOK
<1> QED BY <1>1, <1>2, <1>3 DEF SignInInv

\* Attempts have numbers, so that what was exchanged is a finite set.
LEMMA SignInParts ==
  ASSUME SignInTypes
  PROVE  /\ Len(attempts) \in Nat /\ Attempt \subseteq Nat
         /\ IsFiniteSet(spentCodes) /\ IsFiniteSet(spentCodes \ Earnings)
         /\ Cardinality(spentCodes \ Earnings) \in Nat
<1>1. Len(attempts) \in Nat
  BY DEF SignInTypes
<1>2. IsFiniteSet(Attempt)
  BY <1>1, FS_Interval DEF Attempt
<1>3. IsFiniteSet(spentCodes)
  BY <1>2, FS_Subset DEF SignInTypes
<1>4. IsFiniteSet(spentCodes \ Earnings)
  BY <1>3, FS_Difference
<1>5. Cardinality(spentCodes \ Earnings) \in Nat
  BY <1>4, FS_CardinalityType
<1> QED BY <1>1, <1>3, <1>4, <1>5 DEF Attempt

\* Steps that exchange no code and start no session.
LEMMA NothingEarned ==
  ASSUME SignInInv, UNCHANGED <<spentCodes, sessions>>, codes \subseteq codes',
         faults <= faults', faults' \in Nat,
         session' = session \/ session' = NoSession
  PROVE  SessionsAreEarned'
<1> USE DEF SignInInv
<1>1. Cardinality(spentCodes \ {s.attempt : s \in sessions}) <= faults'
  BY SignInParts DEF SessionsAreEarned, SignInTypes, Earnings
<1>2. session' # NoSession => session' \in sessions /\ session'.attempt \in codes
  BY DEF SessionsAreEarned
<1>3. Principal' # NoCookie => Principal' \in codes'
  BY <1>2 DEF Principal
<1> QED BY <1>1, <1>2, <1>3 DEF SessionsAreEarned

\* What a step that only forgets callbacks and clears cookies leaves.
LEMMA RequestsStay ==
  ASSUME SignInInv, UNCHANGED <<attempts, spentCodes, sessions>>, codes \subseteq codes',
         codes' \in SUBSET Attempt, faults <= faults', faults' \in Nat,
         session' = session \/ session' = NoSession,
         transaction' = transaction \/ transaction' = NoCookie,
         discovery' \in {"unknown", "known", "failed"},
         callbacks' \in SUBSET Callback,
         \A c \in callbacks' : c.code \in codes /\ (c.checked => c.cookie = c.code),
         sent' \in Nat, time' \in Nat
  PROVE  SignInInv'
<1> USE DEF SignInInv
<1>1. Attempt' = Attempt /\ Callback' = Callback /\ Session' = Session
  BY DEF Attempt, Callback, Session
<1>2. SignInTypes'
  BY <1>1 DEF SignInTypes
<1>3. CallbacksOK'
  BY DEF CallbacksOK
<1> QED BY <1>2, <1>3, NothingEarned

\* A new attempt: what belongs to earlier ones is as it was.
LEMMA BeginKeeps ==
  ASSUME SignInInv, Begin
  PROVE  SignInInv'
<1> USE DEF SignInInv
<1>1. /\ attempts' = Append(attempts, time) /\ transaction' = Len(attempts) + 1
      /\ UNCHANGED <<discovery, session, codes, spentCodes, callbacks, sent, sessions,
                     time, faults>>
  BY DEF Begin, provider
<1>2. /\ attempts' \in Seq(Nat) /\ Len(attempts') = Len(attempts) + 1
      /\ Len(attempts) \in Nat
  BY <1>1, AppendProperties DEF SignInTypes
<1>3. Attempt \subseteq Attempt' /\ transaction' \in Attempt'
  BY <1>1, <1>2 DEF Attempt
<1>4. Callback \subseteq Callback' /\ Session \subseteq Session'
  BY <1>3 DEF Callback, Session
<1>5. SignInTypes'
  BY <1>1, <1>2, <1>3, <1>4 DEF SignInTypes
<1>6. CallbacksOK'
  BY <1>1 DEF CallbacksOK
<1>7. SessionsAreEarned'
  BY <1>1, NothingEarned DEF SignInTypes
<1> QED BY <1>5, <1>6, <1>7

\* A code is exchanged once, under the cookie of its own attempt: either it was
\* gone, or there is one more session for one more code.
LEMMA ExchangeKeeps ==
  ASSUME SignInInv, NEW c \in callbacks, Exchange(c)
  PROVE  SignInInv'
<1> USE SessionsExpire DEF SignInInv
<1>1. /\ UNCHANGED <<discovery, attempts, codes, sent, time, faults>>
      /\ spentCodes' = spentCodes \cup {c.code} /\ callbacks' = callbacks \ {c}
      /\ transaction' = NoCookie
      /\ c.cookie = c.code /\ c.code \in codes /\ c.code \in Attempt
  BY DEF Exchange, Fails, CallbacksOK, SignInTypes
<1>2. CASE c.code \in spentCodes
  <2>1. UNCHANGED <<spentCodes, session, sessions>>
    BY <1>1, <1>2 DEF Exchange, Redeems, Fails
  <2> QED BY <1>1, <2>1, RequestsStay DEF SignInTypes, CallbacksOK
<1>3. CASE c.code \notin spentCodes
  <2> DEFINE new == [attempt |-> c.cookie, expires |-> time + SessionTtl]
  <2>1. session' = new /\ sessions' = sessions \cup {new} /\ new.attempt = c.code
    BY <1>1, <1>3 DEF Exchange, Redeems, IdTokenVerifies
  <2>2. new \in Session
    BY <1>1 DEF Session, SignInTypes
  <2> HIDE DEF new
  <2>3. Attempt' = Attempt /\ Callback' = Callback /\ Session' = Session
    BY <1>1 DEF Attempt, Callback, Session
  <2>4. SignInTypes'
    BY <1>1, <2>1, <2>2, <2>3 DEF SignInTypes
  <2>5. CallbacksOK'
    BY <1>1 DEF CallbacksOK
  <2>6. Earnings' = Earnings \cup {c.code}
    BY <2>1 DEF Earnings
  <2>7. spentCodes' \ Earnings' = spentCodes \ Earnings
    BY <1>1, <1>3, <2>6
  <2>8. \A s \in sessions : s.attempt # c.code
    BY <1>3 DEF SessionsAreEarned
  <2>9. \A s \in sessions' : s.attempt \in codes' \cap spentCodes'
    BY <1>1, <2>1 DEF SessionsAreEarned
  <2>10. \A s, t \in sessions' : s.attempt = t.attempt => s = t
    BY <2>1, <2>8 DEF SessionsAreEarned
  <2>11. Principal' # NoCookie => Principal' \in codes'
    BY <1>1, <2>1 DEF Principal
  <2>12. Cardinality(spentCodes' \ {s.attempt : s \in sessions'}) <= faults'
    BY <1>1, <2>7 DEF SessionsAreEarned, Earnings
  <2>13. SessionsAreEarned'
    BY <2>1, <2>9, <2>10, <2>11, <2>12 DEF SessionsAreEarned
  <2> QED BY <2>4, <2>5, <2>13
<1> QED BY <1>2, <1>3

\* One failure of the provider loses one code.
LEMMA ExchangeFailsKeeps ==
  ASSUME SignInInv, NEW c \in callbacks, NEW used \in BOOLEAN, ExchangeFails(c, used)
  PROVE  SignInInv'
<1> USE DEF SignInInv
<1>1. /\ UNCHANGED <<discovery, attempts, codes, sent, time, session, sessions>>
      /\ faults' = faults + 1 /\ callbacks' = callbacks \ {c} /\ transaction' = NoCookie
      /\ spentCodes' = spentCodes \/ spentCodes' = spentCodes \cup {c.code}
      /\ c.code \in codes /\ c.code \in Attempt
  BY DEF ExchangeFails, Fails, Fault, CallbacksOK, SignInTypes
<1>2. Attempt' = Attempt /\ Callback' = Callback /\ Session' = Session
  BY <1>1 DEF Attempt, Callback, Session
<1>3. SignInTypes'
  BY <1>1, <1>2 DEF SignInTypes
<1>4. CallbacksOK'
  BY <1>1 DEF CallbacksOK
<1>5. Cardinality(spentCodes' \ Earnings) <= faults + 1
  <2>1. /\ IsFiniteSet(spentCodes \ Earnings)
        /\ Cardinality(spentCodes \ Earnings) \in Nat
        /\ Cardinality(spentCodes \ Earnings) <= faults
        /\ faults \in Nat
    BY SignInParts DEF SessionsAreEarned, SignInTypes, Earnings
  <2>2. CASE c.code \in Earnings \/ spentCodes' = spentCodes
    <3>1. spentCodes' \ Earnings = spentCodes \ Earnings
      BY <1>1, <2>2
    <3>2. Cardinality(spentCodes' \ Earnings) = Cardinality(spentCodes \ Earnings)
      BY <3>1
    <3> QED BY ONLY <2>1, <3>2
  <2>3. CASE c.code \notin Earnings /\ spentCodes' = spentCodes \cup {c.code}
    <3>1. spentCodes' \ Earnings = (spentCodes \ Earnings) \cup {c.code}
      BY <2>3
    <3>2. PICK before : before = spentCodes \ Earnings
      OBVIOUS
    <3>3. /\ IsFiniteSet(before) /\ Cardinality(before) \in Nat
          /\ Cardinality(before) <= faults
      BY <2>1, <3>2
    <3>4. Cardinality(before \cup {c.code}) \in {Cardinality(before), Cardinality(before) + 1}
      BY ONLY <3>3, FS_AddElement
    <3>5. Cardinality(spentCodes' \ Earnings) = Cardinality(before \cup {c.code})
      BY ONLY <3>1, <3>2
    <3> QED BY ONLY <2>1, <3>3, <3>4, <3>5
  <2> QED BY <1>1, <2>2, <2>3
<1>6. Cardinality(spentCodes' \ {s.attempt : s \in sessions'}) <= faults'
  BY <1>1, <1>5 DEF Earnings
<1>7. Principal' # NoCookie => Principal' \in codes'
  BY <1>1 DEF SessionsAreEarned, Principal
<1>8. SessionsAreEarned'
  BY <1>1, <1>6, <1>7 DEF SessionsAreEarned
<1> QED BY <1>3, <1>4, <1>8

LEMMA SignInNextKeeps ==
  ASSUME SignInInv, SignInNext
  PROVE  SignInInv'
<1> USE DEF SignInInv
<1>0. /\ SignInTypes /\ callbacks \subseteq Callback /\ codes \subseteq Attempt
      /\ sent \in Nat /\ time \in Nat /\ faults \in Nat
      /\ discovery \in {"unknown", "known", "failed"}
      /\ \A c \in callbacks : c.code \in codes /\ (c.checked => c.cookie = c.code)
  BY DEF SignInTypes, CallbacksOK
<1>1. ASSUME NEW ok \in BOOLEAN, Discover(ok)
      PROVE  SignInInv'
  <2>1. /\ UNCHANGED <<attempts, transaction, session, codes, spentCodes, callbacks, sent,
                       sessions, time>>
        /\ discovery' \in {"unknown", "known", "failed"}
        /\ faults' = faults \/ faults' = faults + 1
    BY <1>1 DEF Discover, Fault, cookies, provider
  <2> QED BY <1>0, <2>1, RequestsStay
<1>2. CASE RestartServer \/ Logout \/ MinutePasses
  <2>1. /\ UNCHANGED <<attempts, transaction, codes, spentCodes, callbacks, sent, sessions>>
        /\ discovery' \in {"unknown", "known", "failed"}
        /\ faults' = faults \/ faults' = faults + 1
        /\ session' = session \/ session' = NoSession
        /\ time' = time \/ time' = time + 1
    BY <1>0, <1>2 DEF RestartServer, Logout, MinutePasses, Fault, cookies, provider
  <2> QED BY <1>0, <2>1, RequestsStay
<1>3. ASSUME NEW n \in DOMAIN attempts, Authenticate(n)
      PROVE  SignInInv'
  <2>1. n \in Attempt
    BY <1>0, LenProperties DEF SignInTypes, Attempt
  <2>2. /\ UNCHANGED <<discovery, attempts, transaction, session, spentCodes, callbacks, sent,
                       sessions, time, faults>>
        /\ codes' = codes \cup {n}
    BY <1>3 DEF Authenticate, cookies
  <2> QED BY <1>0, <2>1, <2>2, RequestsStay
<1>4. ASSUME NEW n \in DOMAIN attempts, SendCallback(n)
      PROVE  SignInInv'
  <2> DEFINE new == [id |-> sent, code |-> n, cookie |-> KeptCookie, checked |-> FALSE]
  <2>1. /\ UNCHANGED <<discovery, attempts, transaction, session, codes, spentCodes,
                       sessions, time, faults>>
        /\ n \in codes /\ sent' = sent + 1 /\ callbacks' = callbacks \cup {new}
    BY <1>4 DEF SendCallback, cookies, provider
  <2>2. new \in Callback /\ new.code = n /\ new.checked = FALSE
    <3>1. KeptCookie \in Attempt \cup {NoCookie}
      BY DEF KeptCookie, SignInTypes
    <3> QED BY <1>0, <2>1, <3>1 DEF Callback
  <2> HIDE DEF new
  <2>3. /\ callbacks' \in SUBSET Callback
        /\ \A c \in callbacks' : c.code \in codes /\ (c.checked => c.cookie = c.code)
    BY <1>0, <2>1, <2>2
  <2>4. sent' \in Nat
    BY <1>0, <2>1
  <2> QED BY <1>0, <2>1, <2>3, <2>4, RequestsStay
<1>5. ASSUME NEW c \in callbacks, CheckCallback(c)
      PROVE  SignInInv'
  <2>1. UNCHANGED <<discovery, attempts, codes, spentCodes, session, sessions, sent, time,
                    faults>>
    BY <1>5 DEF CheckCallback, Fails, provider, cookies
  <2>2. CASE callbacks' = callbacks \ {c} /\ transaction' = NoCookie
    BY <1>0, <2>1, <2>2, RequestsStay
  <2>3. CASE /\ callbacks' = (callbacks \ {c}) \cup {[c EXCEPT !.checked = TRUE]}
             /\ transaction' = transaction /\ c.cookie = c.code
    <3> DEFINE new == [c EXCEPT !.checked = TRUE]
    <3>1. new \in Callback /\ new.code = c.code /\ new.cookie = c.cookie
      BY <1>0 DEF Callback
    <3>2. callbacks' = (callbacks \ {c}) \cup {new}
      BY <2>3
    <3> HIDE DEF new
    <3> QED BY <1>0, <2>1, <2>3, <3>1, <3>2, RequestsStay
  <2> QED BY <1>5, <2>2, <2>3 DEF CheckCallback, Fails, Belongs, cookies
<1> QED BY <1>1, <1>2, <1>3, <1>4, <1>5, BeginKeeps, ExchangeKeeps, ExchangeFailsKeeps
        DEF SignInNext

\* For any number of tabs, reloads, restarts and failures of the provider: one
\* session for an attempt, and no code spoiled by another tab (oidc-service.ts
\* complete, oidc-http.ts callback).
THEOREM SessionsAreAlwaysEarned == Spec => []SessionsAreEarned
<1>1. SignInInv /\ [Next]_vars => SignInInv'
  <2> SUFFICES ASSUME SignInInv, [Next]_vars PROVE SignInInv'
    OBVIOUS
  <2>1. CASE SignInStep
    BY <2>1, SignInNextKeeps DEF SignInStep
  <2>2. CASE ~SignInStep
    <3>1. UNCHANGED signInVars
      BY <2>2 DEF Next, vars, AccessStep, EvidenceStep, ClarificationStep, AdmissionStep,
                  WavesStep
    <3>2. UNCHANGED <<discovery, attempts, transaction, session, codes, spentCodes,
                      callbacks, sent, sessions, time, faults>>
      BY <3>1 DEF signInVars
    <3> QED BY <3>2, RequestsStay DEF SignInInv, SignInTypes, CallbacksOK
  <2> QED BY <2>1, <2>2
<1>2. SignInInv => SessionsAreEarned
  BY DEF SignInInv
<1> QED BY <1>1, <1>2, SignInInitHolds, PTL DEF Spec

-----------------------------------------------------------------------------
(* Access.                                                                  *)

\* Somebody above, perhaps revoked by now, allowed the actor to give the role.
Backed(actor, role, site) ==
    \E above \in DOMAIN bindings :
        /\ bindings[above].actor = actor
        /\ \/ bindings[above].role = "organization_owner"
           \/ /\ bindings[above].role = "project_admin"
              /\ bindings[above].site = site
              /\ role \notin {"organization_owner", "project_admin"}

\* A request past its authorization was authorised, and a command that still
\* has the version it read has the state it read.
RequestOK(q) ==
    /\ q.kind = "revoke" => q.binding \in DOMAIN bindings
    /\ q.kind = "assign" =>
        /\ q.role = "organization_owner" => q.site = Organization
        /\ Backed(q.actor, q.role, q.site)
    /\ q.kind = "control" => Entitled(q.actor, q.scope)
    /\ q.kind = "commit" =>
        /\ Entitled(q.command.actor, q.command.scope)
        /\ q.command.expected <= controls[q.command.scope].version
        /\ q.command.expected = controls[q.command.scope].version
                => q.from = controls[q.command.scope].state

BindingsOK ==
    /\ 1 \in DOMAIN bindings
    /\ \A b \in DOMAIN bindings :
        bindings[b].role = "organization_owner" => bindings[b].site = Organization
    /\ \A a \in audits : a.binding \in DOMAIN bindings

ReceiptsOK ==
    \A scope \in Scope : At(scope, Len(receipts) + 1).version \in Nat

AccessInv ==
    /\ AccessTypes /\ AuthorityDescends /\ ControlsAreTraced
    /\ BindingsOK /\ ReceiptsOK
    /\ \A q \in requests : RequestOK(q)

LEMMA AccessInitHolds == Init => AccessInv
<1> SUFFICES ASSUME AccessInit PROVE AccessInv
  BY DEF Init
<1> USE AccessAssumption DEF AccessInit, AccessAssumption
<1>1. /\ Len(bindings) = 1 /\ DOMAIN bindings = {1} /\ bindings \in Seq(Binding)
      /\ bindings[1].role = "organization_owner" /\ bindings[1].site = Organization
      /\ bindings[1].version = 1 /\ bindings[1].revoked = FALSE
  <2> DEFINE first == [actor |-> Founder, role |-> "organization_owner",
                       site |-> Organization, by |-> Founder, version |-> 1,
                       revoked |-> FALSE]
  <2>1. "organization_owner" \in Role
    BY DEF Role, grants
  <2>2. first \in Binding
    BY <2>1 DEF Binding
  <2>3. bindings = <<first>>
    OBVIOUS
  <2> QED BY <2>2, <2>3
<1>2. /\ receipts = <<>> /\ DOMAIN receipts = {} /\ Len(receipts) = 0
      /\ audits = {} /\ requests = {}
      /\ controls = [s \in Scope |-> [state |-> "active", version |-> 1]]
  OBVIOUS
<1>3. AccessTypes
  BY <1>1, <1>2 DEF AccessTypes, ControlRow, ControlState
<1>4. AuthorityDescends
  <2>1. {a.version : a \in {a \in audits : a.binding = 1}} = 2 .. 1
    BY <1>2
  <2> QED BY <1>1, <1>2, <2>1 DEF AuthorityDescends, Live
<1>5. \A scope \in Scope : At(scope, 1) = [state |-> "active", version |-> 1]
  BY <1>2 DEF At, Before
<1>6. ControlsAreTraced /\ ReceiptsOK
  BY <1>2, <1>5 DEF ControlsAreTraced, ReceiptsOK
<1>7. BindingsOK
  BY <1>1, <1>2 DEF BindingsOK
<1> QED BY <1>2, <1>3, <1>4, <1>6, <1>7 DEF AccessInv

LEMMA AccessParts ==
  ASSUME AccessTypes
  PROVE  /\ bindings \in Seq(Binding) /\ Len(bindings) \in Nat
         /\ DOMAIN bindings = 1 .. Len(bindings)
         /\ \A b \in DOMAIN bindings : bindings[b] \in Binding
         /\ receipts \in Seq(CommandReceipt) /\ Len(receipts) \in Nat
         /\ DOMAIN receipts = 1 .. Len(receipts)
         /\ \A r \in DOMAIN receipts : receipts[r] \in CommandReceipt
         /\ \A scope \in Scope : /\ controls[scope] \in ControlRow
                                 /\ controls[scope].version \in Nat
                                 /\ controls[scope].state \in ControlState
         /\ \A q \in requests : q \in AccessRequest
  BY LenProperties, ElementOfSeq DEF AccessTypes, ControlRow

\* Steps of requests that change no row.
LEMMA AskedIsOK ==
  ASSUME AccessInv, UNCHANGED <<bindings, audits, controls, receipts>>,
         requests' \in SUBSET AccessRequest,
         \A q \in requests' : RequestOK(q)
  PROVE  AccessInv'
<1> USE DEF AccessInv
<1>1. AccessTypes'
  BY DEF AccessTypes
<1>2. AuthorityDescends'
  BY DEF AuthorityDescends, Live
<1>3. \A scope, n : At(scope, n)' = At(scope, n)
  BY DEF At, Before
<1>4. \A actor, scope : Entitled(actor, scope)' = Entitled(actor, scope)
  BY DEF Entitled
<1>5. ControlsAreTraced' /\ ReceiptsOK'
  BY <1>3, <1>4 DEF ControlsAreTraced, ReceiptsOK
<1>6. BindingsOK'
  BY DEF BindingsOK
<1>7. \A q \in requests' : RequestOK(q)'
  BY <1>4 DEF RequestOK, Backed
<1> QED BY <1>1, <1>2, <1>5, <1>6, <1>7

\* Bindings are added and revoked, never taken away or given to others: what a
\* request or a receipt rests on stays.
LEMMA RolesGrow ==
  ASSUME AccessInv, UNCHANGED <<controls, receipts>>,
         DOMAIN bindings \subseteq DOMAIN bindings',
         \A b \in DOMAIN bindings :
            /\ bindings'[b].actor = bindings[b].actor
            /\ bindings'[b].role = bindings[b].role
            /\ bindings'[b].site = bindings[b].site,
         requests' \subseteq requests
  PROVE  /\ ControlsAreTraced' /\ ReceiptsOK'
         /\ requests' \in SUBSET AccessRequest
         /\ \A q \in requests' : RequestOK(q)'
<1> USE DEF AccessInv
<1>1. \A scope, n : At(scope, n)' = At(scope, n)
  BY DEF At, Before
<1>2. \A actor, scope : Entitled(actor, scope) => Entitled(actor, scope)'
  <2> SUFFICES ASSUME NEW actor, NEW scope, Entitled(actor, scope)
               PROVE  Entitled(actor, scope)'
    OBVIOUS
  <2>1. PICK b \in DOMAIN bindings :
          /\ bindings[b].actor = actor
          /\ "run.operate" \in grants[bindings[b].role]
          /\ bindings[b].site \in {Organization, scope}
    BY DEF Entitled
  <2>2. /\ b \in DOMAIN bindings'
        /\ bindings'[b].actor = actor
        /\ "run.operate" \in grants[bindings'[b].role]
        /\ bindings'[b].site \in {Organization, scope}
    BY <2>1
  <2> QED BY <2>2 DEF Entitled
<1>3. \A actor, role, site : Backed(actor, role, site) => Backed(actor, role, site)'
  <2> SUFFICES ASSUME NEW actor, NEW role, NEW site, Backed(actor, role, site)
               PROVE  Backed(actor, role, site)'
    OBVIOUS
  <2>1. PICK b \in DOMAIN bindings :
          /\ bindings[b].actor = actor
          /\ \/ bindings[b].role = "organization_owner"
             \/ /\ bindings[b].role = "project_admin"
                /\ bindings[b].site = site
                /\ role \notin {"organization_owner", "project_admin"}
    BY DEF Backed
  <2> QED BY <2>1 DEF Backed
<1>4. ControlsAreTraced' /\ ReceiptsOK'
  <2>1. ReceiptsOK'
    BY <1>1 DEF ReceiptsOK
  <2>2. \A r \in DOMAIN receipts : Entitled(receipts[r].actor, receipts[r].scope)
    BY DEF ControlsAreTraced
  <2>3. \A r \in DOMAIN receipts : \E b \in DOMAIN bindings' :
          /\ bindings'[b].actor = receipts[r].actor
          /\ "run.operate" \in grants[bindings'[b].role]
          /\ bindings'[b].site \in {Organization, receipts[r].scope}
    BY <1>2, <2>2 DEF Entitled
  <2> QED BY <1>1, <2>1, <2>3 DEF ControlsAreTraced, Entitled
<1>5. \A q \in requests' : RequestOK(q)'
  <2> SUFFICES ASSUME NEW q \in requests PROVE RequestOK(q)'
    OBVIOUS
  <2>1. RequestOK(q)
    OBVIOUS
  <2> QED BY <1>2, <1>3, <2>1 DEF RequestOK
<1> QED BY <1>4, <1>5 DEF AccessTypes

\* An assignment has, in the rows before it, the authority it was checked for.
LEMMA AssignKeeps ==
  ASSUME AccessInv, NEW request \in requests, Assign(request)
  PROVE  AccessInv'
<1> USE DEF AccessInv
<1> DEFINE new == [actor |-> request.target, role |-> request.role,
                   site |-> request.site, by |-> request.actor,
                   version |-> 1, revoked |-> FALSE]
           event == [action |-> "assigned", binding |-> Len(bindings) + 1,
                     version |-> 1, actor |-> request.actor]
           n == Len(bindings) + 1
<1>1. /\ UNCHANGED <<controls, receipts>> /\ requests' = requests \ {request}
      /\ request.kind = "assign"
      /\ \/ UNCHANGED <<bindings, audits>>
         \/ bindings' = Append(bindings, new) /\ audits' = audits \cup {event}
  BY DEF Assign, Answered
<1>2. CASE UNCHANGED <<bindings, audits>>
  BY <1>1, <1>2, AskedIsOK DEF AccessTypes
<1>3. CASE bindings' = Append(bindings, new) /\ audits' = audits \cup {event}
  <2>1. /\ request \in AccessRequest /\ request.role \in Role
        /\ request.actor \in Actor /\ request.target \in Actor
        /\ request.site \in Site \cup {Organization}
    BY <1>1, AccessParts, AccessAssumption
       DEF AccessRequest, ControlRequest, AccessAssumption
  <2>2. /\ request.role = "organization_owner" => request.site = Organization
        /\ Backed(request.actor, request.role, request.site)
    BY <1>1 DEF RequestOK
  <2>3. /\ new \in Binding /\ Len(bindings) \in Nat /\ bindings \in Seq(Binding)
        /\ DOMAIN bindings = 1 .. Len(bindings)
    BY <2>1, AccessParts DEF Binding
  <2>4. /\ new.actor = request.target /\ new.role = request.role
        /\ new.site = request.site /\ new.by = request.actor
        /\ new.version = 1 /\ new.revoked = FALSE
    OBVIOUS
  <2> HIDE DEF new
  <2>5. /\ bindings' \in Seq(Binding) /\ Len(bindings') = n /\ DOMAIN bindings' = 1 .. n
        /\ \A b \in DOMAIN bindings : bindings'[b] = bindings[b]
        /\ bindings'[n] = new
    BY <1>3, <2>3, AppendProperties, LenProperties
  <2>6. \A b \in 1 .. n : b \in DOMAIN bindings \/ b = n
    BY <2>3
  <2>7. /\ event \in AuditEvent /\ event.binding = n /\ event.version = 1
    BY <2>1, <2>3 DEF AuditEvent
  <2> HIDE DEF event
  <2>8. DOMAIN bindings \subseteq DOMAIN bindings'
    BY <2>3, <2>5
  <2>9. /\ ControlsAreTraced' /\ ReceiptsOK'
        /\ requests' \in SUBSET AccessRequest
        /\ \A q \in requests' : RequestOK(q)'
    BY <1>1, <2>5, <2>8, RolesGrow
  <2>10. AccessTypes'
    BY <1>1, <1>3, <2>5, <2>7, <2>9 DEF AccessTypes
  <2>11. BindingsOK'
    BY <1>3, <2>2, <2>4, <2>5, <2>6, <2>7, <2>8 DEF BindingsOK
  <2>12. \A b \in 2 .. n : \E above \in 1 .. b - 1 :
            /\ bindings'[above].actor = bindings'[b].by
            /\ \/ bindings'[above].role = "organization_owner"
               \/ /\ bindings'[above].role = "project_admin"
                  /\ bindings'[above].site = bindings'[b].site
                  /\ bindings'[b].role \notin {"organization_owner", "project_admin"}
    <3> TAKE b \in 2 .. n
    <3>1. CASE b = n
      <4>1. PICK above \in DOMAIN bindings :
              /\ bindings[above].actor = request.actor
              /\ \/ bindings[above].role = "organization_owner"
                 \/ /\ bindings[above].role = "project_admin"
                    /\ bindings[above].site = request.site
                    /\ request.role \notin {"organization_owner", "project_admin"}
        BY <2>2 DEF Backed
      <4>2. above \in 1 .. b - 1 /\ bindings'[above] = bindings[above]
        BY <2>3, <2>5, <3>1, <4>1
      <4> QED BY <2>4, <2>5, <3>1, <4>1, <4>2
    <3>2. CASE b \in 2 .. Len(bindings)
      <4>1. b \in DOMAIN bindings /\ bindings'[b] = bindings[b]
        BY <2>3, <2>5, <3>2
      <4>2. PICK above \in 1 .. b - 1 :
              /\ bindings[above].actor = bindings[b].by
              /\ \/ bindings[above].role = "organization_owner"
                 \/ /\ bindings[above].role = "project_admin"
                    /\ bindings[above].site = bindings[b].site
                    /\ bindings[b].role \notin {"organization_owner", "project_admin"}
        BY <3>2 DEF AuthorityDescends
      <4>3. bindings'[above] = bindings[above]
        BY <2>3, <2>5, <3>2
      <4> QED BY <4>1, <4>2, <4>3
    <3> QED BY <2>3, <3>1, <3>2
  <2>13. \A b \in DOMAIN bindings' :
          /\ bindings'[b].version = IF ~bindings'[b].revoked THEN 1 ELSE 2
          /\ {a.version : a \in {a \in audits' : a.binding = b}}
                = (IF b = 1 THEN 2 ELSE 1) .. bindings'[b].version
    <3> TAKE b \in DOMAIN bindings'
    <3>1. CASE b = n
      <4>1. \A a \in audits : a.binding # n
        BY <2>3 DEF BindingsOK
      <4>2. {a \in audits' : a.binding = b} = {event}
        BY <1>3, <2>7, <3>1, <4>1
      <4>3. {a.version : a \in {a \in audits' : a.binding = b}} = {1}
        BY <2>7, <4>2
      <4>4. b # 1
        <5>1. 1 \in DOMAIN bindings
          BY DEF BindingsOK
        <5> QED BY <2>3, <3>1, <5>1
      <4>5. bindings'[b].version = 1 /\ bindings'[b].revoked = FALSE
        BY <2>4, <2>5, <3>1
      <4>6. {1} = 1 .. 1
        OBVIOUS
      <4> QED BY <4>3, <4>4, <4>5, <4>6
    <3>2. CASE b \in DOMAIN bindings
      <4>1. b # n /\ bindings'[b] = bindings[b]
        BY <2>3, <2>5, <3>2
      <4>2. {a \in audits' : a.binding = b} = {a \in audits : a.binding = b}
        BY <1>3, <2>7, <4>1
      <4> QED BY <3>2, <4>1, <4>2 DEF AuthorityDescends, Live
    <3> QED BY <2>5, <2>6, <3>1, <3>2
  <2>14. \A a, c \in audits' :
            <<a.binding, a.version>> = <<c.binding, c.version>> => a = c
    <3>1. \A a \in audits : a.binding # n
      BY <2>3 DEF BindingsOK
    <3> QED BY <1>3, <2>7, <3>1 DEF AuthorityDescends
  <2>15. AuthorityDescends'
    BY <2>5, <2>12, <2>13, <2>14 DEF AuthorityDescends, Live
  <2> QED BY <2>9, <2>10, <2>11, <2>15
<1> QED BY <1>1, <1>2, <1>3

\* A revocation finds the version it read, or does nothing.
LEMMA RevokeKeeps ==
  ASSUME AccessInv, NEW request \in requests, Revoke(request)
  PROVE  AccessInv'
<1> USE DEF AccessInv
<1> DEFINE k == request.binding
           event == [action |-> "revoked", binding |-> k,
                     version |-> request.version + 1, actor |-> request.actor]
<1>1. /\ UNCHANGED <<controls, receipts>> /\ requests' = requests \ {request}
      /\ request.kind = "revoke"
      /\ \/ UNCHANGED <<bindings, audits>>
         \/ /\ Unrevoked(request)
            /\ bindings' = [bindings EXCEPT ![k] =
                    [@ EXCEPT !.revoked = TRUE, !.version = request.version + 1]]
            /\ audits' = audits \cup {event}
  BY DEF Revoke, Answered
<1>2. CASE UNCHANGED <<bindings, audits>>
  BY <1>1, <1>2, AskedIsOK DEF AccessTypes
<1>3. CASE /\ Unrevoked(request)
           /\ bindings' = [bindings EXCEPT ![k] =
                    [@ EXCEPT !.revoked = TRUE, !.version = request.version + 1]]
           /\ audits' = audits \cup {event}
  <2>1. k \in DOMAIN bindings /\ request.actor \in Actor
    BY <1>1, AccessParts DEF RequestOK, AccessRequest, ControlRequest
  <2>2. /\ bindings \in Seq(Binding) /\ Len(bindings) \in Nat
        /\ DOMAIN bindings = 1 .. Len(bindings) /\ bindings[k] \in Binding
    BY <2>1, AccessParts
  <2>3. request.version = 1 /\ bindings[k].version = 1 /\ ~bindings[k].revoked
    BY <1>3, <2>1 DEF Unrevoked, AuthorityDescends, Live
  <2> DEFINE row == [bindings[k] EXCEPT !.revoked = TRUE, !.version = 2]
  <2>4. /\ row \in Binding /\ row.revoked = TRUE /\ row.version = 2
        /\ row.actor = bindings[k].actor /\ row.role = bindings[k].role
        /\ row.site = bindings[k].site /\ row.by = bindings[k].by
    BY <2>2 DEF Binding
  <2>5. bindings' = [bindings EXCEPT ![k] = row]
    BY <1>3, <2>2, <2>3 DEF Binding
  <2> HIDE DEF row
  <2>6. /\ bindings' \in Seq(Binding) /\ Len(bindings') = Len(bindings)
        /\ DOMAIN bindings' = DOMAIN bindings
        /\ \A b \in DOMAIN bindings : bindings'[b] = IF b = k THEN row ELSE bindings[b]
    BY <2>1, <2>2, <2>4, <2>5, ExceptSeq, LenProperties
  <2>7. \A b \in DOMAIN bindings :
          /\ bindings'[b].actor = bindings[b].actor
          /\ bindings'[b].role = bindings[b].role
          /\ bindings'[b].site = bindings[b].site
          /\ bindings'[b].by = bindings[b].by
    BY <2>4, <2>6
  <2>8. event \in AuditEvent /\ event.binding = k /\ event.version = 2
    BY <2>1, <2>2, <2>3 DEF AuditEvent
  <2> HIDE DEF event
  <2>9. /\ ControlsAreTraced' /\ ReceiptsOK'
        /\ requests' \in SUBSET AccessRequest
        /\ \A q \in requests' : RequestOK(q)'
    BY <1>1, <2>6, <2>7, RolesGrow
  <2>10. AccessTypes'
    BY <1>1, <1>3, <2>6, <2>8, <2>9 DEF AccessTypes
  <2>11. BindingsOK'
    BY <1>3, <2>1, <2>6, <2>7, <2>8 DEF BindingsOK
  <2>12. {a.version : a \in {a \in audits : a.binding = k}} = (IF k = 1 THEN 2 ELSE 1) .. 1
    BY <2>1, <2>3 DEF AuthorityDescends
  <2>13. \A b \in DOMAIN bindings' :
          /\ bindings'[b].version = IF ~bindings'[b].revoked THEN 1 ELSE 2
          /\ {a.version : a \in {a \in audits' : a.binding = b}}
                = (IF b = 1 THEN 2 ELSE 1) .. bindings'[b].version
    <3> TAKE b \in DOMAIN bindings'
    <3>1. CASE b = k
      <4>1. {a \in audits' : a.binding = b} = {a \in audits : a.binding = k} \cup {event}
        BY <1>3, <2>8, <3>1
      <4>2. {a.version : a \in {a \in audits' : a.binding = b}}
              = ((IF k = 1 THEN 2 ELSE 1) .. 1) \cup {2}
        BY <2>8, <2>12, <4>1
      <4>3. ((IF k = 1 THEN 2 ELSE 1) .. 1) \cup {2} = (IF k = 1 THEN 2 ELSE 1) .. 2
        OBVIOUS
      <4>4. bindings'[b].version = 2 /\ bindings'[b].revoked = TRUE
        BY <2>1, <2>4, <2>6, <3>1
      <4> QED BY <3>1, <4>2, <4>3, <4>4
    <3>2. CASE b # k
      <4>1. bindings'[b] = bindings[b] /\ b \in DOMAIN bindings
        BY <2>6, <3>2
      <4>2. {a \in audits' : a.binding = b} = {a \in audits : a.binding = b}
        BY <1>3, <2>8, <3>2
      <4> QED BY <4>1, <4>2 DEF AuthorityDescends, Live
    <3> QED BY <3>1, <3>2
  <2>14. \A a, c \in audits' :
            <<a.binding, a.version>> = <<c.binding, c.version>> => a = c
    <3>1. \A a \in audits : a.binding = k => a.version # 2
      BY <2>12
    <3> QED BY <1>3, <2>8, <3>1 DEF AuthorityDescends
  <2>15. \A b \in 2 .. Len(bindings) :
           \E above \in 1 .. b - 1 :
            /\ bindings'[above].actor = bindings'[b].by
            /\ \/ bindings'[above].role = "organization_owner"
               \/ /\ bindings'[above].role = "project_admin"
                  /\ bindings'[above].site = bindings'[b].site
                  /\ bindings'[b].role \notin {"organization_owner", "project_admin"}
    <3> TAKE b \in 2 .. Len(bindings)
    <3>1. PICK above \in 1 .. b - 1 :
              /\ bindings[above].actor = bindings[b].by
              /\ \/ bindings[above].role = "organization_owner"
                 \/ /\ bindings[above].role = "project_admin"
                    /\ bindings[above].site = bindings[b].site
                    /\ bindings[b].role \notin {"organization_owner", "project_admin"}
      BY DEF AuthorityDescends
    <3>2. above \in DOMAIN bindings /\ b \in DOMAIN bindings
      BY <2>2
    <3> QED BY <2>7, <3>1, <3>2
  <2>16. AuthorityDescends'
    BY <2>6, <2>13, <2>14, <2>15 DEF AuthorityDescends, Live
  <2> QED BY <2>9, <2>10, <2>11, <2>16
<1> QED BY <1>1, <1>2, <1>3

\* Steps that leave roles alone.
LEMMA RolesStay ==
  ASSUME AccessInv, UNCHANGED <<bindings, audits>>
  PROVE  /\ AuthorityDescends' /\ BindingsOK'
         /\ \A actor, scope : Entitled(actor, scope)' = Entitled(actor, scope)
         /\ \A actor, role, site : Backed(actor, role, site)' = Backed(actor, role, site)
  BY DEF AccessInv, AuthorityDescends, Live, BindingsOK, Entitled, Backed

\* A row that moved on in the state it had: the trail ends in that state still,
\* and no request has its version.
LEMMA GatewayFailsKeeps ==
  ASSUME AccessInv, NEW site \in Site, GatewayFails(site)
  PROVE  AccessInv'
<1> USE DEF AccessInv
<1>1. /\ UNCHANGED <<bindings, audits, receipts, requests>>
      /\ controls' = [controls EXCEPT ![site].version = @ + 1]
      /\ site \in Scope
  BY DEF GatewayFails, Scope
<1>2. /\ controls \in [Scope -> ControlRow] /\ controls[site].version \in Nat
      /\ \A scope \in Scope : controls[scope] \in ControlRow
      /\ \A scope \in Scope : controls[scope].version \in Nat
  BY <1>1, AccessParts DEF AccessTypes
<1>3. \A scope \in Scope :
        /\ controls'[scope].state = controls[scope].state
        /\ controls'[scope].version
                = controls[scope].version + IF scope = site THEN 1 ELSE 0
  BY <1>1, <1>2 DEF ControlRow
<1>4. controls' \in [Scope -> ControlRow]
  BY <1>1, <1>2 DEF ControlRow
<1>5. AccessTypes'
  BY <1>1, <1>4 DEF AccessTypes
<1>6. \A scope, n : At(scope, n)' = At(scope, n)
  BY <1>1 DEF At, Before
<1>7. ReceiptsOK'
  BY <1>1, <1>6 DEF ReceiptsOK
<1>8. ControlsAreTraced'
  <2>1. \A scope \in Scope :
          /\ controls'[scope].state = At(scope, Len(receipts) + 1).state
          /\ controls'[scope].version >= At(scope, Len(receipts) + 1).version
    BY <1>2, <1>3 DEF ControlsAreTraced, ReceiptsOK
  <2> QED BY <1>1, <1>6, <2>1, RolesStay DEF ControlsAreTraced
<1>9. \A q \in requests' : RequestOK(q)'
  <2> SUFFICES ASSUME NEW q \in requests PROVE RequestOK(q)'
    BY <1>1
  <2>1. RequestOK(q) /\ q \in AccessRequest
    BY AccessParts
  <2>2. ASSUME q.kind = "commit"
        PROVE  /\ q.command.expected <= controls'[q.command.scope].version
               /\ q.command.expected = controls'[q.command.scope].version
                    => q.from = controls'[q.command.scope].state
    <3>1. q.command \in ControlRequest
      BY <2>1, <2>2 DEF AccessRequest, ControlRequest
    <3>2. q.command.scope \in Scope /\ q.command.expected \in Nat
      BY <3>1 DEF ControlRequest
    <3>3. /\ q.command.expected <= controls[q.command.scope].version
          /\ q.command.expected = controls[q.command.scope].version
                => q.from = controls[q.command.scope].state
      BY <2>1, <2>2 DEF RequestOK
    <3> QED BY <1>2, <1>3, <3>2, <3>3
  <2> QED BY <1>1, <2>1, <2>2, RolesStay DEF RequestOK
<1> QED BY <1>1, <1>5, <1>7, <1>8, <1>9, RolesStay

\* A command takes effect on the row it read: its receipt continues the trail.
LEMMA CommitControlKeeps ==
  ASSUME AccessInv, NEW request \in requests, CommitControl(request)
  PROVE  AccessInv'
<1> USE DEF AccessInv
<1> DEFINE command == request.command
           scope == command.scope
           state == NextState(command.operation)
           version == controls[scope].version + 1
           new == [actor |-> command.actor, key |-> command.key, scope |-> scope,
                   from |-> request.from, state |-> state,
                   previous |-> command.expected, version |-> version]
<1>0. PICK n : n = Len(receipts) + 1
  OBVIOUS
<1>1. /\ UNCHANGED <<bindings, audits>> /\ requests' = requests \ {request}
      /\ request.kind = "commit"
      /\ \/ UNCHANGED <<controls, receipts>>
         \/ /\ ~Recorded(command) /\ SameVersion(command)
            /\ controls' = [controls EXCEPT ![scope] = [state |-> state, version |-> version]]
            /\ receipts' = Append(receipts, new)
  BY DEF CommitControl, Answered
<1>2. CASE UNCHANGED <<controls, receipts>>
  BY <1>1, <1>2, AskedIsOK DEF AccessTypes
<1>3. CASE /\ ~Recorded(command) /\ SameVersion(command)
           /\ controls' = [controls EXCEPT ![scope] = [state |-> state, version |-> version]]
           /\ receipts' = Append(receipts, new)
  <2>1. command \in ControlRequest /\ request.from \in ControlState
    BY <1>1, AccessParts DEF AccessRequest, ControlRequest
  <2>2. /\ command.actor \in Actor /\ command.key \in CommandKey /\ scope \in Scope
        /\ command.expected \in Nat /\ state \in ControlState
    BY <2>1 DEF ControlRequest, NextState, ControlState
  <2>3. /\ controls \in [Scope -> ControlRow] /\ controls[scope].version \in Nat
        /\ \A s \in Scope : controls[s].version \in Nat
    BY <2>2, AccessParts DEF AccessTypes
  <2>4. /\ command.expected = controls[scope].version
        /\ request.from = controls[scope].state
        /\ Entitled(command.actor, scope)
    BY <1>1, <1>3 DEF RequestOK, SameVersion
  <2>5. new \in CommandReceipt
    BY <2>1, <2>2, <2>3 DEF CommandReceipt
  <2>6. /\ new.actor = command.actor /\ new.key = command.key /\ new.scope = scope
        /\ new.from = controls[scope].state /\ new.state = state
        /\ new.previous = controls[scope].version /\ new.version = version
    BY <2>4
  <2>7. /\ \A r \in DOMAIN receipts :
             <<receipts[r].actor, receipts[r].key>> # <<command.actor, command.key>>
    BY <1>3 DEF Recorded
  <2> HIDE DEF new, state
  <2>8. /\ receipts \in Seq(CommandReceipt) /\ Len(receipts) \in Nat
        /\ DOMAIN receipts = 1 .. Len(receipts)
    BY AccessParts
  <2>23. n = Len(receipts) + 1 /\ n \in Nat
    BY <1>0, <2>8
  <2>9. /\ receipts' \in Seq(CommandReceipt) /\ Len(receipts') = n
        /\ DOMAIN receipts' = 1 .. n
        /\ \A r \in DOMAIN receipts : receipts'[r] = receipts[r]
        /\ receipts'[n] = new
    BY <1>3, <2>5, <2>8, <2>23, AppendProperties, LenProperties
  <2>10. \A r \in 1 .. n : r \in DOMAIN receipts \/ r = n
    BY <2>8, <2>23
  <2>11. /\ controls'[scope] = [state |-> state, version |-> version]
         /\ \A s \in Scope : s # scope => controls'[s] = controls[s]
         /\ controls' \in [Scope -> ControlRow]
    BY <1>3, <2>2, <2>3 DEF ControlRow
  <2>12. AccessTypes'
    BY <1>1, <2>9, <2>11 DEF AccessTypes
  <2>13. \A s : \A m \in 1 .. n : Before(s, m)' = Before(s, m) /\ At(s, m)' = At(s, m)
    <3> TAKE s
    <3> TAKE m \in 1 .. n
    <3>1. {r \in DOMAIN receipts' : r < m /\ receipts'[r].scope = s}
            = {r \in DOMAIN receipts : r < m /\ receipts[r].scope = s}
      BY <2>8, <2>9, <2>10, <2>23
    <3>2. Before(s, m)' = Before(s, m)
      BY <3>1 DEF Before
    <3>3. CASE Before(s, m) = {}
      BY <3>2, <3>3 DEF At
    <3>4. CASE Before(s, m) # {}
      <4>1. /\ Before(s, m) \in SUBSET Nat /\ Before(s, m) \subseteq DOMAIN receipts
            /\ \A r \in Before(s, m) : r <= Len(receipts)
        BY <2>8 DEF Before
      <4>2. Max(Before(s, m)) \in DOMAIN receipts
        BY <2>8, <3>4, <4>1, HighestIsThere
      <4> QED BY <2>9, <3>2, <3>4, <4>2 DEF At
    <3> QED BY <3>2, <3>3, <3>4
  <2>14. At(scope, n + 1)' = new
    <3>1. n \in Before(scope, n + 1)' /\ \A r \in Before(scope, n + 1)' : n >= r
      BY <2>6, <2>8, <2>9, <2>23 DEF Before
    <3>2. Before(scope, n + 1)' \subseteq Nat
      BY <2>9 DEF Before
    <3>3. Max(Before(scope, n + 1)') = n
      <4> DEFINE S == Before(scope, n + 1)'
      <4>1. Max(S) \in S /\ \A r \in S : Max(S) >= r
        BY <3>1 DEF Max
      <4>2. Max(S) >= n /\ n >= Max(S) /\ Max(S) \in Nat /\ n \in Nat
        BY <2>23, <3>1, <3>2, <4>1
      <4> QED BY ONLY <4>2
    <3> QED BY <2>9, <3>1, <3>3 DEF At
  <2>15. \A s \in Scope : s # scope => At(s, n + 1)' = At(s, n)
    <3> SUFFICES ASSUME NEW s \in Scope, s # scope PROVE At(s, n + 1)' = At(s, n)
      OBVIOUS
    <3>1. {r \in DOMAIN receipts' : r < n + 1 /\ receipts'[r].scope = s}
            = {r \in DOMAIN receipts : r < n /\ receipts[r].scope = s}
      BY <2>6, <2>8, <2>9, <2>10, <2>23
    <3>2. Before(s, n + 1)' = Before(s, n)
      BY <3>1 DEF Before
    <3>3. CASE Before(s, n) = {}
      BY <3>2, <3>3 DEF At
    <3>4. CASE Before(s, n) # {}
      <4>1. /\ Before(s, n) \in SUBSET Nat /\ Before(s, n) \subseteq DOMAIN receipts
            /\ \A r \in Before(s, n) : r <= Len(receipts)
        BY <2>8 DEF Before
      <4>2. Max(Before(s, n)) \in DOMAIN receipts
        BY <2>8, <3>4, <4>1, HighestIsThere
      <4> QED BY <2>9, <3>2, <3>4, <4>2 DEF At
    <3> QED BY <3>3, <3>4
  <2>16. \A m \in DOMAIN receipts' : \A s : s = receipts'[m].scope =>
          /\ receipts'[m].from = At(s, m)'.state
          /\ receipts'[m].previous >= At(s, m)'.version
          /\ receipts'[m].version = receipts'[m].previous + 1
    <3> TAKE m \in DOMAIN receipts'
    <3> TAKE s
    <3> HAVE s = receipts'[m].scope
    <3>1. CASE m = n
      <4>1. At(s, n)' = At(s, n) /\ s = scope
        BY <2>6, <2>9, <2>13, <2>23, <3>1
      <4>2. /\ controls[s].state = At(s, n).state
            /\ controls[s].version >= At(s, n).version
        BY <2>2, <2>23, <4>1 DEF ControlsAreTraced
      <4> QED BY <2>3, <2>6, <2>9, <3>1, <4>1, <4>2
    <3>2. CASE m \in DOMAIN receipts
      <4>1. receipts'[m] = receipts[m] /\ m \in 1 .. n /\ s = receipts[m].scope
        BY <2>8, <2>9, <2>23, <3>2
      <4>2. At(s, m)' = At(s, m)
        BY <2>13, <4>1
      <4>3. /\ receipts[m].from = At(receipts[m].scope, m).state
            /\ receipts[m].previous >= At(receipts[m].scope, m).version
            /\ receipts[m].version = receipts[m].previous + 1
        BY <3>2 DEF ControlsAreTraced
      <4> QED BY <4>1, <4>2, <4>3
    <3> QED BY <2>9, <2>10, <3>1, <3>2
  <2>17. \A s \in Scope :
          /\ controls'[s].state = At(s, n + 1)'.state
          /\ controls'[s].version >= At(s, n + 1)'.version
          /\ At(s, n + 1)'.version \in Nat
    <3> TAKE s \in Scope
    <3>1. CASE s = scope
      BY <2>3, <2>6, <2>11, <2>14, <3>1
    <3>2. CASE s # scope
      BY <2>11, <2>15, <2>23, <3>2 DEF ControlsAreTraced, ReceiptsOK
    <3> QED BY <3>1, <3>2
  <2>18. \A r, s \in DOMAIN receipts' :
          <<receipts'[r].actor, receipts'[r].key>> = <<receipts'[s].actor, receipts'[s].key>>
            => r = s
    BY <2>6, <2>7, <2>9, <2>10 DEF ControlsAreTraced
  <2>19. \A r \in DOMAIN receipts' : Entitled(receipts'[r].actor, receipts'[r].scope)
    BY <2>4, <2>6, <2>9, <2>10 DEF ControlsAreTraced
  <2>20. ControlsAreTraced' /\ ReceiptsOK'
    BY <1>1, <2>9, <2>16, <2>17, <2>18, <2>19, RolesStay
       DEF ControlsAreTraced, ReceiptsOK, Entitled
  <2>21. \A q \in requests' : RequestOK(q)'
    <3> SUFFICES ASSUME NEW q \in requests PROVE RequestOK(q)'
      BY <1>1
    <3>1. RequestOK(q) /\ q \in AccessRequest
      BY AccessParts
    <3>2. ASSUME q.kind = "commit"
          PROVE  /\ q.command.expected <= controls'[q.command.scope].version
                 /\ q.command.expected = controls'[q.command.scope].version
                      => q.from = controls'[q.command.scope].state
      <4>1. q.command \in ControlRequest
        BY <3>1, <3>2 DEF AccessRequest, ControlRequest
      <4>2. q.command.scope \in Scope /\ q.command.expected \in Nat
        BY <4>1 DEF ControlRequest
      <4>3. /\ q.command.expected <= controls[q.command.scope].version
            /\ q.command.expected = controls[q.command.scope].version
                  => q.from = controls[q.command.scope].state
        BY <3>1, <3>2 DEF RequestOK
      <4>4. CASE q.command.scope = scope
        BY <2>3, <2>11, <4>2, <4>3, <4>4
      <4>5. CASE q.command.scope # scope
        BY <2>11, <4>2, <4>3, <4>5
      <4> QED BY <4>4, <4>5
    <3> QED BY <1>1, <3>1, <3>2, RolesStay DEF RequestOK
  <2> QED BY <1>1, <2>12, <2>20, <2>21, RolesStay
<1> QED BY <1>1, <1>2, <1>3

\* Whoever may control a scope was given a role that allows it: an owner's role
\* counts for the whole organisation.
LEMMA ControllersAreEntitled ==
  ASSUME AccessInv, NEW actor \in Actor, NEW scope \in Scope, MayControl(actor, scope)
  PROVE  Entitled(actor, scope)
<1> USE DEF AccessInv
<1>1. CASE scope = Global
  <2>1. PICK b \in BindingsOf(actor) : bindings[b].role = "organization_owner"
    BY <1>1 DEF MayControl
  <2>2. b \in DOMAIN bindings /\ bindings[b].actor = actor
    BY <2>1 DEF BindingsOf
  <2>3. bindings[b].site = Organization
    BY <2>1, <2>2 DEF BindingsOK
  <2>4. "run.operate" \in grants["organization_owner"]
    BY DEF grants, Permissions, Operates
  <2> QED BY <2>1, <2>2, <2>3, <2>4 DEF Entitled
<1>2. CASE scope # Global
  <2>1. PICK b \in ListActive(actor, scope) : "run.operate" \in grants[bindings[b].role]
    BY <1>2 DEF MayControl, Allowed
  <2>2. /\ b \in DOMAIN bindings /\ bindings[b].actor = actor
        /\ bindings[b].site \in {Organization, scope}
    BY <2>1 DEF ListActive, BindingsOf
  <2> QED BY <2>1, <2>2 DEF Entitled
<1> QED BY <1>1, <1>2

\* The operations that answer nothing yet: they only record what was authorised.
LEMMA AskAssignKeeps ==
  ASSUME AccessInv, NEW actor \in Actor, NEW target \in Actor, NEW role \in GivenRole,
         NEW site \in Site \cup {Organization}, AskAssign(actor, target, role, site)
  PROVE  AccessInv'
<1> DEFINE new == [kind |-> "assign", actor |-> actor, target |-> target,
                   role |-> role, site |-> site]
<1>1. /\ UNCHANGED <<bindings, audits, controls, receipts>>
      /\ requests' = requests \cup {new}
      /\ CanAssignRole(actor, role, site)
  BY DEF AskAssign, Ask
<1>2. new \in AccessRequest
  BY DEF AccessRequest
<1>3. role = "organization_owner" => site = Organization
  BY <1>1 DEF CanAssignRole, Fits
<1>4. Backed(actor, role, site)
  BY <1>1 DEF CanAssignRole, Backed, ListActive, BindingsOf
<1>5. /\ new.kind = "assign" /\ new.actor = actor /\ new.role = role /\ new.site = site
  OBVIOUS
<1> HIDE DEF new
<1>6. RequestOK(new)
  BY <1>3, <1>4, <1>5 DEF RequestOK
<1> QED BY <1>1, <1>2, <1>6, AskedIsOK DEF AccessInv, AccessTypes

LEMMA AskRevokeKeeps ==
  ASSUME AccessInv, NEW actor \in Actor, NEW b \in DOMAIN bindings, AskRevoke(actor, b)
  PROVE  AccessInv'
<1> DEFINE new == [kind |-> "revoke", actor |-> actor, binding |-> b,
                   version |-> bindings[b].version]
<1>1. /\ UNCHANGED <<bindings, audits, controls, receipts>>
      /\ requests' = requests \cup {new}
  BY DEF AskRevoke, Ask
<1>2. b \in Nat /\ bindings[b] \in Binding
  BY AccessParts DEF AccessInv
<1>3. new \in AccessRequest
  BY <1>2 DEF AccessRequest, Binding
<1>4. new.kind = "revoke" /\ new.binding = b
  OBVIOUS
<1> HIDE DEF new
<1>5. RequestOK(new)
  BY <1>4 DEF RequestOK
<1> QED BY <1>1, <1>3, <1>5, AskedIsOK DEF AccessInv, AccessTypes

LEMMA AskControlKeeps ==
  ASSUME AccessInv, NEW actor \in Actor, NEW scope \in Scope,
         NEW operation \in TriedOperation, NEW key \in CommandKey,
         AskControl(actor, scope, operation, key)
  PROVE  AccessInv'
<1> DEFINE new == [kind |-> "control", actor |-> actor, scope |-> scope,
                   operation |-> operation, key |-> key,
                   expected |-> controls[scope].version]
<1>1. /\ UNCHANGED <<bindings, audits, controls, receipts>>
      /\ requests' = requests \cup {new}
      /\ MayControl(actor, scope)
  BY DEF AskControl, Ask
<1>2. controls[scope].version \in Nat
  BY AccessParts DEF AccessInv
<1>3. new \in AccessRequest
  BY <1>2 DEF AccessRequest, ControlRequest
<1>4. new.kind = "control" /\ new.actor = actor /\ new.scope = scope
  OBVIOUS
<1> HIDE DEF new
<1>5. RequestOK(new)
  BY <1>1, <1>4, ControllersAreEntitled DEF RequestOK
<1> QED BY <1>1, <1>3, <1>5, AskedIsOK DEF AccessInv, AccessTypes

\* What is read is the state of the version the client named.
LEMMA ReadControlKeeps ==
  ASSUME AccessInv, NEW request \in requests, ReadControl(request)
  PROVE  AccessInv'
<1> DEFINE new == [kind |-> "commit", command |-> request,
                   from |-> controls[request.scope].state]
<1>1. /\ UNCHANGED <<bindings, audits, controls, receipts>>
      /\ request.kind = "control"
      /\ \/ requests' = requests \ {request}
         \/ /\ controls[request.scope].version = request.expected
            /\ requests' = (requests \ {request}) \cup {new}
  BY DEF ReadControl
<1>2. request \in ControlRequest /\ RequestOK(request)
  BY <1>1, AccessParts DEF AccessInv, AccessRequest
<1>3. /\ request.scope \in Scope /\ request.expected \in Nat
      /\ controls[request.scope] \in ControlRow
  BY <1>2, AccessParts DEF ControlRequest, AccessInv, AccessTypes
<1>4. CASE requests' = requests \ {request}
  BY <1>1, <1>4, AskedIsOK DEF AccessInv, AccessTypes
<1>5. CASE /\ controls[request.scope].version = request.expected
           /\ requests' = (requests \ {request}) \cup {new}
  <2>1. new \in AccessRequest
    BY <1>2, <1>3 DEF AccessRequest, ControlRow
  <2>2. /\ new.kind = "commit" /\ new.command = request
        /\ new.from = controls[request.scope].state
    OBVIOUS
  <2> HIDE DEF new
  <2>3. RequestOK(new)
    BY <1>1, <1>2, <1>3, <1>5, <2>2 DEF RequestOK
  <2> QED BY <1>1, <1>5, <2>1, <2>3, AskedIsOK DEF AccessInv, AccessTypes
<1> QED BY <1>1, <1>4, <1>5

LEMMA AccessNextKeeps ==
  ASSUME AccessInv, AccessNext
  PROVE  AccessInv'
<1>1. CASE \E actor, target \in Actor, role \in GivenRole,
            site \in Site \cup {Organization} : AskAssign(actor, target, role, site)
  BY <1>1, AskAssignKeeps
<1>2. CASE \E actor \in Actor, b \in DOMAIN bindings : AskRevoke(actor, b)
  BY <1>2, AskRevokeKeeps
<1>3. CASE \E actor \in Actor, scope \in Scope, operation \in TriedOperation,
            key \in CommandKey : AskControl(actor, scope, operation, key)
  BY <1>3, AskControlKeeps
<1>4. CASE \E request \in requests : Assign(request)
  BY <1>4, AssignKeeps
<1>5. CASE \E request \in requests : Revoke(request)
  BY <1>5, RevokeKeeps
<1>6. CASE \E request \in requests : ReadControl(request)
  BY <1>6, ReadControlKeeps
<1>7. CASE \E request \in requests : CommitControl(request)
  BY <1>7, CommitControlKeeps
<1>8. CASE \E site \in Site : GatewayFails(site)
  BY <1>8, GatewayFailsKeeps
<1> QED BY <1>1, <1>2, <1>3, <1>4, <1>5, <1>6, <1>7, <1>8 DEF AccessNext

LEMMA AccessIsInvariant == Spec => []AccessInv
<1>1. AccessInv /\ [Next]_vars => AccessInv'
  <2> SUFFICES ASSUME AccessInv, [Next]_vars PROVE AccessInv'
    OBVIOUS
  <2>1. CASE AccessStep
    BY <2>1, AccessNextKeeps DEF AccessStep
  <2>2. CASE ~AccessStep
    <3>1. UNCHANGED accessVars
      BY <2>2 DEF Next, vars, SignInStep, EvidenceStep, ClarificationStep, AdmissionStep,
                  WavesStep
    <3>2. UNCHANGED <<bindings, audits, controls, receipts, requests>>
      BY <3>1 DEF accessVars
    <3> QED BY <3>2, AskedIsOK DEF AccessInv, AccessTypes
  <2> QED BY <2>1, <2>2
<1> QED BY <1>1, AccessInitHolds, PTL DEF Spec

\* Nobody holds a role that somebody above did not give, and the trail of a
\* binding is complete, however checks and revocations interleave
\* (rbac-policy.ts assertCanAssignRole, role-binding-service.ts).
THEOREM AuthorityAlwaysDescends == Spec => []AuthorityDescends
<1>1. AccessInv => AuthorityDescends
  BY DEF AccessInv
<1> QED BY <1>1, AccessIsInvariant, PTL

\* No control command is lost under another or recorded from a state the row
\* was not in (postgres-execution-control-repository.ts commit).
THEOREM ControlsAreAlwaysTraced == Spec => []ControlsAreTraced
<1>1. AccessInv => ControlsAreTraced
  BY DEF AccessInv
<1> QED BY <1>1, AccessIsInvariant, PTL
-----------------------------------------------------------------------------
(* The waves of a plan.                                                     *)

\* A set of sets, each in one finite set, has one that no other is inside of.
LEMMA SmallestIsThere ==
    ASSUME NEW S, IsFiniteSet(S), NEW family, \A U \in family : U \subseteq S, family # {}
    PROVE  \E T \in family : \A U \in family : U \subseteq T => U = T
<1>1. IsWellFoundedOn(StrictSubsetOrdering(S), FiniteSubsetsOf(S))
  BY FS_StrictSubsetOrderingWellFounded
<1>2. family \subseteq FiniteSubsetsOf(S)
  BY FS_Subset DEF FiniteSubsetsOf
<1>3. PICK T \in family : \A U \in family : <<U, T>> \notin StrictSubsetOrdering(S)
  BY <1>1, <1>2, WFMin
<1>4. \A U \in family : ~(U \subseteq T /\ U # T)
  BY <1>3 DEF StrictSubsetOrdering
<1> QED BY <1>3, <1>4

\* A finite set of integers has a lowest member.
LEMMA LowestIsThere ==
    ASSUME NEW S \in SUBSET Int, IsFiniteSet(S), S # {}
    PROVE  \E x \in S : \A y \in S : x <= y
<1> DEFINE below(x) == {y \in S : y < x}
<1>1. PICK F : F = {below(x) : x \in S}
  OBVIOUS
<1>2. (\A U \in F : U \subseteq S) /\ F # {}
  BY <1>1
<1> HIDE DEF below
<1>3. PICK T \in F : \A U \in F : U \subseteq T => U = T
  BY <1>2, SmallestIsThere
<1>4. PICK x \in S : T = below(x)
  BY <1>1, <1>3
<1>5. ASSUME NEW y \in S, y < x PROVE FALSE
  <2>1. x \in Int /\ y \in Int /\ \A z \in S : z \in Int
    OBVIOUS
  <2>2. \A z \in S : z < y => z < x
    BY <2>1, <1>5
  <2>3. y \in below(x)
    BY <1>5 DEF below
  <2>4. y \notin below(y)
    BY <2>1 DEF below
  <2>5. below(y) \subseteq below(x)
    BY <2>2 DEF below
  <2>6. below(y) \in F
    BY <1>1
  <2> QED BY <2>3, <2>4, <2>5, <2>6, <1>3, <1>4
<1>6. \A y \in S : x <= y
  BY <1>5
<1> QED BY <1>6

\* There is a choice of a wave: the longest run of ready issues that has one is
\* all of them.
LEMMA ChoiceIsThere ==
    ASSUME NEW S \in SUBSET Int, IsFiniteSet(S), NEW R
    PROVE  \E s \in SUBSET S : \A k \in S : k \in s <=> \A c \in s : c < k => <<c, k>> \notin R
<1> DEFINE kept(T, s) == {k \in T : \A c \in s : c < k => <<c, k>> \notin R}
           family == {U \in SUBSET S :
                        /\ \A x \in S \ U, y \in U : x < y
                        /\ \E s \in SUBSET (S \ U) : s = kept(S \ U, s)}
<1>1. S \in family
  OBVIOUS
<1>2. PICK U \in family : \A V \in family : V \subseteq U => V = U
  <2>1. PICK F : F = family
    OBVIOUS
  <2>2. (\A U \in F : U \subseteq S) /\ F # {}
    BY <1>1, <2>1
  <2> HIDE DEF family
  <2>3. PICK U \in F : \A V \in F : V \subseteq U => V = U
    BY <2>2, SmallestIsThere
  <2> QED BY <2>1, <2>3
<1>3. PICK s \in SUBSET (S \ U) : s = kept(S \ U, s)
  BY <1>2
<1>4. U \subseteq S /\ \A x \in S \ U, y \in U : x < y
  BY <1>2
<1>5. CASE U = {}
  BY <1>3, <1>5
<1>6. CASE U # {}
  <2>1. IsFiniteSet(U) /\ U \in SUBSET Int
    BY <1>4, FS_Subset
  <2>2. PICK m \in U : \A y \in U : m <= y
    BY <2>1, <1>6, LowestIsThere
  <2> DEFINE V == U \ {m}
             s2 == IF \A c \in s : <<c, m>> \notin R THEN s \cup {m} ELSE s
  <2>3. m \in Int /\ m \in S /\ m \notin s /\ (S \ V) = (S \ U) \cup {m}
    BY <2>1, <2>2, <1>3, <1>4
  <2>4. \A x \in S \ U : x < m /\ x \in Int
    BY <1>4, <2>2
  <2>5. \A x \in S \ V, y \in V : x < y
    <3> SUFFICES ASSUME NEW x \in S \ V, NEW y \in V PROVE x < y
      OBVIOUS
    <3>1. CASE x = m
      BY <3>1, <2>1, <2>2, <2>3
    <3>2. CASE x # m
      BY <3>2, <1>4
    <3> QED BY <3>1, <3>2
  <2>6. s2 \in SUBSET (S \ V)
    BY <1>3, <2>3
  <2>7. s2 = kept(S \ V, s2)
    <3>1. \A k \in S \ U : k \in kept(S \ V, s2) <=> k \in s
      <4> SUFFICES ASSUME NEW k \in S \ U
                   PROVE (\A c \in s2 : c < k => <<c, k>> \notin R) <=> k \in s
        BY <2>3
      <4>1. ~(m < k)
        BY <2>3, <2>4
      <4>2. (\A c \in s2 : c < k => <<c, k>> \notin R) <=> (\A c \in s : c < k => <<c, k>> \notin R)
        BY <4>1
      <4> QED BY <4>2, <1>3
    <3>2. m \in kept(S \ V, s2) <=> m \in s2
      <4>1. m \in kept(S \ V, s2) <=> (\A c \in s2 : c < m => <<c, m>> \notin R)
        BY <2>3
      <4>2. \A c \in s : c < m
        BY <1>3, <2>4
      <4>3. (\A c \in s2 : c < m => <<c, m>> \notin R) <=> (\A c \in s : <<c, m>> \notin R)
        BY <2>3, <4>2
      <4>4. m \in s2 <=> (\A c \in s : <<c, m>> \notin R)
        BY <2>3
      <4> QED BY <4>1, <4>3, <4>4
    <3>3. \A k \in S \ U : k \in s2 <=> k \in s
      BY <2>2
    <3>4. \A k : k \in s2 <=> k \in kept(S \ V, s2)
      <4> SUFFICES ASSUME NEW k PROVE k \in s2 <=> k \in kept(S \ V, s2)
        OBVIOUS
      <4>1. s2 \subseteq S \ V /\ kept(S \ V, s2) \subseteq S \ V
        BY <2>6
      <4> HIDE DEF s2, kept, V
      <4>2. CASE k = m
        BY <4>2, <3>2
      <4>3. CASE k \in S \ U
        BY <4>3, <3>1, <3>3
      <4> QED BY <4>1, <4>2, <4>3, <2>3
    <3> HIDE DEF s2, kept
    <3> QED BY <3>4
  <2>8. V \in family
    <3> HIDE DEF s2
    <3> QED BY <2>5, <2>6, <2>7, <1>4
  <2>9. V \subseteq U /\ V # U
    BY <2>2
  <2> QED BY <1>2, <2>8, <2>9
<1> QED BY <1>5, <1>6

\* An issue conflicts with another in both directions, and whatever two issues
\* touch they conflict about.
LEMMA TouchingConflicts ==
    ASSUME NEW k \in Key, NEW m \in Key, plan[k].claims \in Claim, plan[m].claims \in Claim
    PROVE  /\ Conflict(k, m) <=> Conflict(m, k)
           /\ Touching(k, m) => Conflict(k, m)
<1> DEFINE a == plan[k].claims
           b == plan[m].claims
<1>1. /\ (a.files \cup a.directories) \cap b.resources = {}
      /\ (b.files \cup b.directories) \cap a.resources = {}
  BY WavesAssumption
<1>2. Conflict(k, m) <=> Conflict(m, k)
  BY DEF Conflict, ConflictFor
<1>3. ASSUME Touching(k, m) PROVE ConflictFor(a, b)
  <2>1. \/ \E p \in a.files \cup a.resources : p \in b.files \cup b.resources
        \/ Covers(a, b)
        \/ Covers(b, a)
    BY <1>3 DEF Touching, Covers
  <2>2. CASE \E p \in a.files \cup a.resources : p \in b.files \cup b.resources
    BY <2>2, <1>1 DEF ConflictFor
  <2> QED BY <2>1, <2>2 DEF ConflictFor
<1> QED BY <1>2, <1>3 DEF Conflict

LEMMA SelectedFits ==
    ASSUME remaining \subseteq Key, \A k \in Key : plan[k].claims \in Claim
    PROVE  /\ Selected \subseteq ReadyKeys
           /\ \A k, m \in Selected : k # m => ~Conflict(k, m)
<1>1. ReadyKeys \subseteq Key /\ ReadyKeys \in SUBSET Int /\ IsFiniteSet(ReadyKeys)
  BY WavesAssumption, FS_Subset DEF ReadyKeys
<1> DEFINE R == {p \in Key \X Key : Conflict(p[1], p[2])}
<1>2. PICK s \in SUBSET ReadyKeys :
          s = {k \in ReadyKeys : \A c \in s : c < k => <<c, k>> \notin R}
  <2>1. PICK r : r = R
    OBVIOUS
  <2> HIDE DEF R
  <2>2. PICK S : S = ReadyKeys
    OBVIOUS
  <2>3. S \in SUBSET Int /\ IsFiniteSet(S)
    BY <1>1, <2>2
  <2>4. PICK s \in SUBSET S : \A k \in S : k \in s <=> \A c \in s : c < k => <<c, k>> \notin r
    BY <2>3, ChoiceIsThere
  <2>5. s = {k \in S : \A c \in s : c < k => <<c, k>> \notin r}
    BY <2>4
  <2> QED BY <2>1, <2>2, <2>5
<1>3. \A c, k \in ReadyKeys : <<c, k>> \in R <=> Conflict(c, k)
  BY <1>1
<1>4. Chosen(s)
  BY <1>2, <1>3 DEF Chosen
<1>5. Selected \in SUBSET ReadyKeys /\ Chosen(Selected)
  BY <1>2, <1>4 DEF Selected
<1>6. ASSUME NEW k \in Selected, NEW m \in Selected, k # m PROVE ~Conflict(k, m)
  <2>1. k \in Key /\ m \in Key /\ k \in Int /\ m \in Int
    BY <1>1, <1>5
  <2>2. (k < m => ~Conflict(k, m)) /\ (m < k => ~Conflict(m, k))
    BY <1>5 DEF Chosen
  <2>3. k < m \/ m < k
    BY <2>1, <1>6
  <2> QED BY <2>1, <2>2, <2>3, TouchingConflicts
<1> QED BY <1>5, <1>6

\* The waves hold what is no longer left over, each issue once, and behind what
\* it depends on.  A plan that came with its waves has no dependencies.
PlacedBefore(n) == UNION {waves[m] : m \in 1 .. n - 1}
PlanOK ==
    /\ \A k \in Key : plan[k].needs \subseteq Key /\ plan[k].claims \in Claim
    /\ remaining \subseteq Key
    /\ waves \in Seq(SUBSET Key)
WavesInv ==
    /\ PlanOK
    /\ \/ \A k \in Key \ remaining : \E n \in DOMAIN waves : k \in waves[n]
       \/ \A k \in Key : plan[k].needs = {}
    /\ \A n \in DOMAIN waves :
        /\ waves[n] \cap remaining = {}
        /\ \A m \in (DOMAIN waves) \ {n} : waves[n] \cap waves[m] = {}
        /\ \A k \in waves[n] : /\ plan[k].needs \subseteq PlacedBefore(n)
                               /\ \A other \in waves[n] \ {k} : ~Touching(k, other)

LEMMA WavesInitHolds == ASSUME Init PROVE WavesInv
<1>1. CASE WavesInit
  <2>1. PICK needs \in [Key -> SUBSET Key], claims \in [Key -> Claim] :
            plan = [k \in Key |-> [needs |-> needs[k], claims |-> claims[k]]]
    BY <1>1 DEF WavesInit
  <2>2. \A k \in Key : plan[k].needs \subseteq Key /\ plan[k].claims \in Claim
    BY <2>1
  <2>3. remaining = Key /\ waves = <<>> /\ DOMAIN waves = {}
    BY <1>1 DEF WavesInit
  <2> QED BY <2>2, <2>3 DEF WavesInv, PlanOK
<1>2. CASE WavesPlaced
  <2>1. PICK claim : claim = CHOOSE c \in Claim : TRUE
    OBVIOUS
  <2>2. plan = [k \in Key |-> [needs |-> {}, claims |-> claim]]
    BY <1>2, <2>1 DEF WavesPlaced
  <2>3. \A k \in Key : plan[k].needs = {} /\ plan[k].claims = claim
    BY <2>2
  <2>4. claim \in Claim
    BY <2>1, WavesAssumption
  <2>5. remaining = {} /\ waves = <<>> /\ DOMAIN waves = {}
    BY <1>2 DEF WavesPlaced
  <2> QED BY <2>3, <2>4, <2>5 DEF WavesInv, PlanOK
<1> QED BY <1>1, <1>2 DEF Init

LEMMA NextWaveKeeps ==
    ASSUME WavesInv, NextWave
    PROVE  WavesInv'
<1>1. /\ plan' = plan /\ waves' = Append(waves, Selected) /\ remaining' = remaining \ Selected
      /\ remaining \subseteq Key /\ waves \in Seq(SUBSET Key)
      /\ \A k \in Key : plan[k].needs \subseteq Key /\ plan[k].claims \in Claim
  BY DEF NextWave, WavesInv, PlanOK
<1>2. PICK s : s = Selected
  OBVIOUS
<1>3. PICK n : n = Len(waves) + 1
  OBVIOUS
<1>4. /\ s \subseteq ReadyKeys
      /\ \A k, m \in s : k # m => ~Conflict(k, m)
  BY <1>1, <1>2, SelectedFits
<1>5. s \subseteq remaining /\ s \subseteq Key /\ \A k \in s : plan[k].needs \cap remaining = {}
  BY <1>1, <1>4 DEF ReadyKeys
<1>6. /\ n \in Nat \ {0} /\ DOMAIN waves = 1 .. n - 1
      /\ waves' \in Seq(SUBSET Key) /\ DOMAIN waves' = 1 .. n /\ waves'[n] = s
      /\ \A m \in 1 .. n - 1 : waves'[m] = waves[m]
  BY <1>1, <1>2, <1>3, <1>5
<1>7. \A m \in DOMAIN waves' : m \in DOMAIN waves \/ m = n
  BY <1>6
<1>8. \A m \in DOMAIN waves : waves'[m] = waves[m] /\ m # n /\ waves[m] \cap s = {}
  BY <1>5, <1>6 DEF WavesInv
<1>9. PlanOK'
  BY <1>1, <1>6 DEF PlanOK
<1>10. \/ \A k \in Key \ remaining' : \E m \in DOMAIN waves' : k \in waves'[m]
       \/ \A k \in Key : plan'[k].needs = {}
  <2>1. CASE \A k \in Key : plan[k].needs = {}
    BY <2>1, <1>1
  <2>2. CASE \A k \in Key \ remaining : \E m \in DOMAIN waves : k \in waves[m]
    <3> SUFFICES ASSUME NEW k \in Key \ remaining' PROVE \E m \in DOMAIN waves' : k \in waves'[m]
      OBVIOUS
    <3>1. CASE k \in s
      <4>1. n \in DOMAIN waves' /\ waves'[n] = s
        BY <1>6
      <4> QED BY <3>1, <4>1
    <3>2. CASE k \notin s
      <4>1. k \in Key \ remaining
        BY <3>2, <1>1, <1>2
      <4>2. PICK m \in DOMAIN waves : k \in waves[m]
        BY <4>1, <2>2
      <4>3. m \in DOMAIN waves' /\ waves'[m] = waves[m]
        BY <4>2, <1>6
      <4> QED BY <4>2, <4>3
    <3> QED BY <3>1, <3>2
  <2> QED BY <2>1, <2>2 DEF WavesInv
<1>11. \A m \in DOMAIN waves' : waves'[m] \cap remaining' = {}
  BY <1>1, <1>2, <1>6, <1>7, <1>8 DEF WavesInv
<1>12. \A m \in DOMAIN waves' : \A l \in (DOMAIN waves') \ {m} : waves'[m] \cap waves'[l] = {}
  <2> SUFFICES ASSUME NEW m \in DOMAIN waves', NEW l \in DOMAIN waves', m # l
               PROVE  waves'[m] \cap waves'[l] = {}
    OBVIOUS
  <2>1. CASE m = n
    BY <2>1, <1>6, <1>7, <1>8
  <2>2. CASE l = n
    BY <2>2, <1>6, <1>7, <1>8
  <2>3. CASE m # n /\ l # n
    BY <2>3, <1>7, <1>8 DEF WavesInv
  <2> QED BY <2>1, <2>2, <2>3
<1>13. ASSUME NEW m \in DOMAIN waves' PROVE PlacedBefore(m)' = PlacedBefore(m)
  <2>1. m \in 1 .. n
    BY <1>6
  <2>2. \A l \in 1 .. m - 1 : waves'[l] = waves[l]
    BY <1>6, <2>1
  <2> QED BY <2>2 DEF PlacedBefore
<1>14. ASSUME NEW m \in DOMAIN waves', NEW k \in waves'[m]
       PROVE  /\ plan'[k].needs \subseteq PlacedBefore(m)'
              /\ \A other \in waves'[m] \ {k} : ~Touching(k, other)'
  <2>1. \A other : Touching(k, other)' <=> Touching(k, other)
    BY <1>1 DEF Touching
  <2>2. CASE m # n
    <3>1. m \in DOMAIN waves /\ waves'[m] = waves[m]
      BY <2>2, <1>7, <1>8
    <3> QED BY <3>1, <2>1, <1>1, <1>13, <1>14 DEF WavesInv
  <2>3. CASE m = n
    <3>1. k \in s /\ k \in Key /\ waves'[m] = s
      BY <2>3, <1>5, <1>6, <1>14
    <3>2. \A other \in s \ {k} : ~Touching(k, other)
      BY <3>1, <1>1, <1>4, <1>5, TouchingConflicts
    <3>3. plan[k].needs \subseteq PlacedBefore(n)
      <4>1. CASE \A j \in Key : plan[j].needs = {}
        BY <4>1, <3>1
      <4>2. CASE \A j \in Key \ remaining : \E l \in DOMAIN waves : j \in waves[l]
        <5> SUFFICES ASSUME NEW j \in plan[k].needs PROVE j \in PlacedBefore(n)
          OBVIOUS
        <5>1. j \in Key \ remaining
          BY <3>1, <1>1, <1>5
        <5>2. PICK l \in DOMAIN waves : j \in waves[l]
          BY <4>2, <5>1
        <5>3. l \in 1 .. n - 1
          BY <5>2, <1>6
        <5> QED BY <5>2, <5>3 DEF PlacedBefore
      <4> QED BY <4>1, <4>2 DEF WavesInv
    <3>4. plan'[k].needs \subseteq PlacedBefore(m)'
      BY <2>3, <3>3, <1>1, <1>13
    <3> QED BY <3>1, <3>2, <3>4, <2>1
  <2> QED BY <2>2, <2>3
<1> QED BY <1>9, <1>10, <1>11, <1>12, <1>14 DEF WavesInv

\* With all issues in their waves none waits for another in a circle: one of the
\* earliest wave of a circle would have a dependency before it.
LEMMA PlacedHasNoCycle ==
    ASSUME WavesInv, remaining = {}
    PROVE  ~HasCycle
<1> SUFFICES ASSUME NEW some \in SUBSET Key, some # {},
                    \A k \in some : plan[k].needs \cap some # {}
             PROVE  FALSE
  BY DEF HasCycle
<1>1. \A k \in Key : \E n \in DOMAIN waves : k \in waves[n]
  BY DEF WavesInv
<1>2. DOMAIN waves = 1 .. Len(waves) /\ Len(waves) \in Nat
  BY DEF WavesInv, PlanOK
<1> DEFINE N == {n \in DOMAIN waves : waves[n] \cap some # {}}
<1>3. N \in SUBSET Int /\ IsFiniteSet(N) /\ N # {}
  <2>1. IsFiniteSet(1 .. Len(waves))
    BY <1>2, FS_Interval
  <2>2. N \subseteq 1 .. Len(waves) /\ N # {}
    BY <1>1, <1>2
  <2> QED BY <2>1, <2>2, FS_Subset
<1>4. PICK n \in N : \A m \in N : n <= m
  <2> HIDE DEF N
  <2> QED BY <1>3, LowestIsThere
<1>5. PICK k \in some : k \in waves[n] /\ n \in DOMAIN waves
  BY <1>4
<1>6. PICK j \in some : j \in plan[k].needs
  BY <1>5
<1>7. j \in PlacedBefore(n)
  BY <1>5, <1>6 DEF WavesInv
<1>8. PICK m \in 1 .. n - 1 : j \in waves[m]
  BY <1>7 DEF PlacedBefore
<1>9. m \in DOMAIN waves /\ ~(n <= m)
  BY <1>2, <1>5, <1>8
<1> QED BY <1>4, <1>6, <1>8, <1>9

\* A finite set of integers has its order: the longest run of its members from
\* below that has one is all of them.
LEMMA SortedIsThere ==
    ASSUME NEW S \in SUBSET Int, IsFiniteSet(S)
    PROVE  /\ InOrder(S) \in [1 .. Cardinality(S) -> S]
           /\ \A k \in S : \E i \in 1 .. Cardinality(S) : InOrder(S)[i] = k
<1> DEFINE sorted(T) == {g \in [1 .. Cardinality(T) -> T] :
                            \A i, j \in 1 .. Cardinality(T) : i < j => g[i] < g[j]}
           family == {U \in SUBSET S : /\ \A x \in S \ U, y \in U : x < y
                                       /\ sorted(S \ U) # {}}
<1>1. S \in family
  <2>1. S \ S = {} /\ Cardinality({}) = 0
    BY FS_EmptySet
  <2>2. 1 .. 0 = {}
    OBVIOUS
  <2>3. [x \in {} |-> x] \in sorted({})
    BY <2>1, <2>2
  <2> HIDE DEF sorted
  <2> QED BY <2>1, <2>3
<1>2. PICK U \in family : \A V \in family : V \subseteq U => V = U
  <2>1. PICK F : F = family
    OBVIOUS
  <2>2. (\A U \in F : U \subseteq S) /\ F # {}
    BY <1>1, <2>1
  <2> HIDE DEF family
  <2>3. PICK U \in F : \A V \in F : V \subseteq U => V = U
    BY <2>2, SmallestIsThere
  <2> QED BY <2>1, <2>3
<1>3. PICK g \in sorted(S \ U) : TRUE
  BY <1>2
<1>4. U \subseteq S /\ \A x \in S \ U, y \in U : x < y
  BY <1>2
<1>5. CASE U = {}
  <2>1. g \in sorted(S)
    BY <1>3, <1>5
  <2> DEFINE n == Cardinality(S)
             h == InOrder(S)
  <2>2. h \in [1 .. n -> S] /\ \A i, j \in 1 .. n : i < j => h[i] < h[j]
    BY <2>1 DEF InOrder
  <2>3. n \in Nat
    BY FS_CardinalityType
  <2> HIDE DEF n, h, sorted
  <2>4. h \in Injection(1 .. n, S)
    <3> SUFFICES ASSUME NEW i \in 1 .. n, NEW j \in 1 .. n, h[i] = h[j] PROVE i = j
      BY <2>2 DEF Injection, IsInjective
    <3>1. h[i] \in Int /\ h[j] \in Int
      BY <2>2
    <3> QED BY <2>2, <2>3, <3>1
  <2>5. IsFiniteSet(1 .. n) /\ Cardinality(1 .. n) = n
    BY <2>3, FS_Interval
  <2>6. h \in Surjection(1 .. n, S)
    BY <2>4, <2>5, FS_Injection DEF n
  <2> QED BY <2>2, <2>6 DEF Surjection, n, h
<1>6. CASE U # {}
  <2>1. IsFiniteSet(U) /\ U \in SUBSET Int
    BY <1>4, FS_Subset
  <2>2. PICK m \in U : \A y \in U : m <= y
    BY <2>1, <1>6, LowestIsThere
  <2> DEFINE V == U \ {m}
             n == Cardinality(S \ U)
             g2 == [i \in 1 .. n + 1 |-> IF i = n + 1 THEN m ELSE g[i]]
  <2>3. m \in Int /\ m \in S /\ (S \ V) = (S \ U) \cup {m} /\ m \notin S \ U
    BY <2>1, <2>2, <1>4
  <2>4. \A x \in S \ V, y \in V : x < y
    <3> SUFFICES ASSUME NEW x \in S \ V, NEW y \in V PROVE x < y
      OBVIOUS
    <3>1. CASE x = m
      BY <3>1, <2>1, <2>2, <2>3
    <3>2. CASE x # m
      BY <3>2, <1>4
    <3> QED BY <3>1, <3>2
  <2>5. n \in Nat /\ Cardinality(S \ V) = n + 1
    <3>1. IsFiniteSet(S \ U)
      BY FS_Subset
    <3> QED BY <3>1, <2>3, FS_CardinalityType, FS_AddElement
  <2>6. g2 \in sorted(S \ V)
    <3>1. g \in [1 .. n -> S \ U] /\ \A i, j \in 1 .. n : i < j => g[i] < g[j]
      BY <1>3
    <3> HIDE DEF n, V
    <3>2. g2 \in [1 .. n + 1 -> S \ V]
      <4>1. ASSUME NEW i \in 1 .. n + 1 PROVE (IF i = n + 1 THEN m ELSE g[i]) \in S \ V
        <5>1. CASE i = n + 1
          BY <5>1, <2>3
        <5>2. CASE i # n + 1
          <6>1. i \in 1 .. n
            BY <5>2, <2>5
          <6> QED BY <6>1, <5>2, <3>1, <2>3
        <5> QED BY <5>1, <5>2
      <4> QED BY <4>1
    <3>3. ASSUME NEW i \in 1 .. n + 1, NEW j \in 1 .. n + 1, i < j PROVE g2[i] < g2[j]
      <4>1. i \in 1 .. n /\ g2[i] = g[i] /\ g[i] \in S \ U
        <5>1. i \in 1 .. n /\ i # n + 1
          BY <3>3, <2>5
        <5> QED BY <5>1, <3>1
      <4>2. CASE j = n + 1
        BY <4>1, <4>2, <1>4, <2>2
      <4>3. CASE j # n + 1
        <5>1. j \in 1 .. n /\ g2[j] = g[j]
          BY <4>3, <2>5
        <5> QED BY <5>1, <4>1, <3>1, <3>3
      <4> QED BY <4>2, <4>3
    <3> HIDE DEF g2
    <3> QED BY <3>2, <3>3, <2>5
  <2>7. V \in family
    <3> HIDE DEF g2, sorted
    <3> QED BY <2>4, <2>6, <1>4
  <2>8. V \subseteq U /\ V # U
    BY <2>2
  <2> HIDE DEF V, family
  <2> QED BY <1>2, <2>7, <2>8
<1> QED BY <1>5, <1>6

\* The order is what its rounds say: they end, since each leaves fewer issues.
Free(left) == {k \in left : plan[k].needs \cap left = {}}
Rounds(left, f) == IF Free(left) = {} THEN <<>> ELSE InOrder(Free(left)) \o f[left \ Free(left)]

LEMMA PlaceIsThere == Place = [left \in SUBSET Key |-> Rounds(left, Place)]
<1> DEFINE fits(D, f) == f = [left \in D |-> Rounds(left, f)]
           family == {U \in SUBSET SUBSET Key :
                        /\ \A left \in (SUBSET Key) \ U : SUBSET left \subseteq (SUBSET Key) \ U
                        /\ \E f : fits((SUBSET Key) \ U, f)}
<1>1. IsFiniteSet(Key) /\ IsFiniteSet(SUBSET Key)
  BY WavesAssumption, FS_SUBSET
<1>2. SUBSET Key \in family
  <2>1. fits({}, [left \in {} |-> left])
    OBVIOUS
  <2> QED BY <2>1
<1>3. PICK U \in family : \A V \in family : V \subseteq U => V = U
  <2>1. PICK F : F = family
    OBVIOUS
  <2>2. (\A U \in F : U \subseteq SUBSET Key) /\ F # {}
    BY <1>2, <2>1
  <2> HIDE DEF family
  <2>3. PICK U \in F : \A V \in F : V \subseteq U => V = U
    BY <1>1, <2>2, SmallestIsThere
  <2> QED BY <2>1, <2>3
<1> DEFINE D == (SUBSET Key) \ U
<1>4. PICK f : fits(D, f)
  BY <1>3
<1>5. \A left \in D : SUBSET left \subseteq D
  BY <1>3
<1>6. U \subseteq SUBSET Key
  BY <1>3
<1>7. U = {}
  <2> SUFFICES ASSUME U # {} PROVE FALSE
    OBVIOUS
  <2>1. PICK T \in U : \A W \in U : W \subseteq T => W = T
    BY <1>1, <1>6, SmallestIsThere
  <2> DEFINE V == U \ {T}
             E == (SUBSET Key) \ V
             g == [left \in E |-> IF left = T THEN Rounds(T, f) ELSE f[left]]
  <2>2. E = D \cup {T} /\ T \in SUBSET Key /\ T \notin D
    BY <1>6, <2>1
  <2>3. \A left \in E : SUBSET left \subseteq E
    <3> SUFFICES ASSUME NEW left \in E, NEW sub \in SUBSET left PROVE sub \in E
      OBVIOUS
    <3>1. CASE left = T
      BY <3>1, <2>1, <2>2
    <3>2. CASE left # T
      <4>1. left \in D
        BY <3>2, <2>2
      <4> HIDE DEF D, E
      <4> QED BY <4>1, <1>5, <2>2
    <3> QED BY <3>1, <3>2
  <2>4. \A left \in D : g[left] = f[left] /\ left \in E
    BY <2>2
  <2>5. ASSUME NEW left \in E PROVE Rounds(left, g) = Rounds(left, f)
    <3> HIDE DEF D, E, g
    <3>1. CASE Free(left) = {}
      BY <3>1 DEF Rounds
    <3>2. CASE Free(left) # {}
      <4>1. left \ Free(left) \in E /\ left \ Free(left) # left
        BY <2>3, <3>2 DEF Free
      <4>2. left \ Free(left) # T
        <5>1. CASE left = T
          BY <4>1, <5>1
        <5>2. CASE left # T
          <6>1. left \in D
            BY <2>2, <2>5, <5>2
          <6>2. left \ Free(left) \in D
            BY <6>1, <1>5
          <6> QED BY <6>2, <2>2
        <5> QED BY <5>1, <5>2
      <4>3. left \ Free(left) \in D
        BY <4>1, <4>2, <2>2
      <4>4. g[left \ Free(left)] = f[left \ Free(left)]
        BY <4>3, <2>4
      <4> QED BY <4>4 DEF Rounds
    <3> QED BY <3>1, <3>2
  <2>6. \A left \in E : g[left] = Rounds(left, g)
    <3> SUFFICES ASSUME NEW left \in E PROVE g[left] = Rounds(left, g)
      OBVIOUS
    <3>1. CASE left = T
      BY <3>1, <2>5
    <3>2. CASE left # T
      <4>1. left \in D
        BY <3>2, <2>2
      <4>2. f[left] = Rounds(left, f)
        BY <4>1, <1>4
      <4> QED BY <4>1, <4>2, <2>4, <2>5
    <3> QED BY <3>1, <3>2
  <2>7. fits(E, g)
    <3>1. g = [left \in E |-> g[left]]
      OBVIOUS
    <3> HIDE DEF g, E
    <3> QED BY <3>1, <2>6
  <2>8. V \in family
    <3> HIDE DEF g, fits
    <3> QED BY <2>3, <2>7, <1>6
  <2>9. V \subseteq U /\ V # U
    BY <2>1
  <2> HIDE DEF family, V
  <2> QED BY <1>3, <2>8, <2>9
<1>8. \E h : h = [left \in SUBSET Key |-> Rounds(left, h)]
  <2>1. D = SUBSET Key
    BY <1>7
  <2> HIDE DEF D
  <2> QED BY <1>4, <2>1
<1>9. Place = CHOOSE h : h = [left \in SUBSET Key |-> Rounds(left, h)]
  BY DEF Place, Rounds, Free
<1> QED BY <1>8, <1>9

\* A list of some issues in which each comes once and after what it needs of them.
Lists(order, left) ==
    /\ order \in Seq(Key) /\ Len(order) = Cardinality(left)
    /\ {order[n] : n \in DOMAIN order} = left
    /\ \A n \in DOMAIN order :
        plan[order[n]].needs \subseteq (Key \ left) \cup {order[m] : m \in 1 .. n - 1}

LEMMA PlaceLists ==
    ASSUME PlanOK, ~HasCycle
    PROVE  \A left \in SUBSET Key : Lists(Place[left], left)
<1>1. PICK bad : bad = {left \in SUBSET Key : ~Lists(Place[left], left)}
  OBVIOUS
<1> SUFFICES ASSUME bad # {} PROVE FALSE
  BY <1>1
<1>2. IsFiniteSet(Key) /\ Key \subseteq Int
  BY WavesAssumption
<1>3. PICK left \in bad : \A other \in bad : other \subseteq left => other = left
  <2>1. \A U \in bad : U \subseteq Key
    BY <1>1
  <2> QED BY <2>1, <1>2, SmallestIsThere
<1>4. left \in SUBSET Key /\ ~Lists(Place[left], left) /\ IsFiniteSet(left)
  BY <1>1, <1>2, <1>3, FS_Subset
<1>5. Place[left] = Rounds(left, Place)
  BY <1>4, PlaceIsThere
<1>6. CASE left = {}
  <2>1. Place[left] = <<>>
    BY <1>5, <1>6 DEF Rounds, Free
  <2>2. Cardinality(left) = 0
    BY <1>6, FS_EmptySet
  <2> QED BY <2>1, <2>2, <1>4, <1>6 DEF Lists
<1>7. CASE left # {}
  <2> DEFINE free == Free(left)
             rest == left \ free
             a == InOrder(free)
             b == Place[rest]
  <2>1. free # {} /\ free \subseteq left
    BY <1>4, <1>7 DEF Free, HasCycle
  <2>2. Lists(b, rest)
    BY <1>1, <1>3, <1>4, <2>1
  <2>3. free \in SUBSET Int /\ IsFiniteSet(free) /\ IsFiniteSet(rest)
    BY <1>2, <1>4, <2>1, FS_Subset
  <2>4. /\ a \in [1 .. Cardinality(free) -> free]
        /\ \A k \in free : \E i \in 1 .. Cardinality(free) : a[i] = k
    BY <2>3, SortedIsThere
  <2>5. /\ Cardinality(free) \in Nat /\ Cardinality(rest) \in Nat
        /\ Cardinality(left) = Cardinality(free) + Cardinality(rest)
    <3>1. left = free \cup rest /\ free \cap rest = {}
      BY <2>1
    <3>2. Cardinality({}) = 0
      BY FS_EmptySet
    <3> HIDE DEF free, rest
    <3>3. Cardinality(free) \in Nat /\ Cardinality(rest) \in Nat
      BY <2>3, FS_CardinalityType
    <3>4. Cardinality(free \cup rest) =
              Cardinality(free) + Cardinality(rest) - Cardinality(free \cap rest)
      BY <2>3, FS_Union
    <3>5. Cardinality(left) = Cardinality(free \cup rest)
      BY <3>1
    <3>6. Cardinality(free \cap rest) = 0
      BY <3>1, <3>2
    <3> QED BY <3>3, <3>4, <3>5, <3>6
  <2>6. Place[left] = a \o b
    BY <1>5, <2>1 DEF Rounds
  <2>7. \A k \in free : plan[k].needs \subseteq Key \ left
    BY <1>4, <2>1 DEF Free, PlanOK
  <2> HIDE DEF free, a, b
  <2> DEFINE p == Cardinality(free)
             c == a \o b
  <2>8. a \in Seq(Key) /\ Len(a) = p /\ \A i \in 1 .. p : a[i] \in free
    <3>1. \A i \in 1 .. p : a[i] \in free /\ a[i] \in Key
      BY <2>4, <2>1, <1>4
    <3>2. a \in [1 .. p -> Key]
      BY <3>1, <2>4
    <3> HIDE DEF p
    <3> QED BY <3>1, <3>2, <2>5 DEF p
  <2>9. b \in Seq(Key) /\ Len(b) = Cardinality(rest)
    BY <2>2 DEF Lists
  <2>10. /\ c \in Seq(Key) /\ Len(c) = Cardinality(left)
         /\ \A i \in 1 .. p : c[i] = a[i]
         /\ \A i \in 1 .. Len(b) : c[p + i] = b[i]
    <3>1. c \in Seq(Key) /\ Len(c) = Len(a) + Len(b)
      BY <2>8, <2>9
    <3>2. \A i \in 1 .. p : c[i] = a[i]
      BY <2>8, <2>9, <2>5
    <3>3. ASSUME NEW i \in 1 .. Len(b) PROVE c[p + i] = b[i]
      BY <2>8, <2>9, <2>5, <3>3
    <3> QED BY <3>1, <3>2, <3>3, <2>5, <2>8, <2>9
  <2>11. ASSUME NEW n \in DOMAIN c
         PROVE  plan[c[n]].needs \subseteq (Key \ left) \cup {c[m] : m \in 1 .. n - 1}
    <3>1. n \in 1 .. p + Len(b)
      BY <2>5, <2>9, <2>10
    <3>2. CASE n \in 1 .. p
      BY <3>2, <2>7, <2>8, <2>10
    <3>3. CASE n \notin 1 .. p
      <4>1. PICK i \in 1 .. Len(b) : n = p + i
        <5>1. n - p \in 1 .. Len(b) /\ n = p + (n - p)
          BY <3>1, <3>3, <2>5, <2>9
        <5> QED BY <5>1
      <4>2. c[n] = b[i]
        BY <4>1, <2>10
      <4>3. plan[b[i]].needs \subseteq (Key \ rest) \cup {b[m] : m \in 1 .. i - 1}
        <5>1. i \in DOMAIN b
          BY <2>9
        <5> QED BY <5>1, <2>2 DEF Lists
      <4>4. \A k \in free : k \in {c[m] : m \in 1 .. n - 1}
        <5> SUFFICES ASSUME NEW k \in free PROVE \E m \in 1 .. n - 1 : c[m] = k
          OBVIOUS
        <5>1. PICK m \in 1 .. p : a[m] = k
          BY <2>4
        <5>2. m \in 1 .. n - 1 /\ c[m] = k
          BY <5>1, <4>1, <2>5, <2>10
        <5> QED BY <5>2
      <4>5. \A m \in 1 .. i - 1 : b[m] \in {c[x] : x \in 1 .. n - 1}
        <5> SUFFICES ASSUME NEW m \in 1 .. i - 1 PROVE \E x \in 1 .. n - 1 : c[x] = b[m]
          OBVIOUS
        <5>1. m \in 1 .. Len(b) /\ p + m \in 1 .. n - 1
          BY <4>1, <2>5, <2>9
        <5>2. c[p + m] = b[m]
          BY <5>1, <2>10
        <5> QED BY <5>1, <5>2
      <4>6. Key \ rest \subseteq (Key \ left) \cup free
        OBVIOUS
      <4> HIDE DEF c, rest
      <4> QED BY <4>2, <4>3, <4>4, <4>5, <4>6
    <3> QED BY <3>2, <3>3
  <2>12. {c[n] : n \in DOMAIN c} = left
    <3>1. DOMAIN c = 1 .. p + Len(b)
      BY <2>5, <2>9, <2>10
    <3>2. p \in Nat /\ Len(b) \in Nat /\ DOMAIN b = 1 .. Len(b)
      BY <2>5, <2>9
    <3>3. \A i \in 1 .. Len(b) : b[i] \in rest
      <4>1. {b[i] : i \in DOMAIN b} = rest
        BY <2>2 DEF Lists
      <4> HIDE DEF rest
      <4> QED BY <4>1, <3>2
    <3>4. \A i \in 1 .. p : c[i] = a[i]
      BY <2>10
    <3>5. \A i \in 1 .. Len(b) : c[p + i] = b[i]
      BY <2>10
    <3> HIDE DEF c, p
    <3>6. ASSUME NEW n \in DOMAIN c PROVE c[n] \in left
      <4>1. CASE n \in 1 .. p
        <5>1. a[n] \in free
          BY <4>1, <2>8
        <5> QED BY <4>1, <5>1, <2>1, <3>4
      <4>2. CASE n \notin 1 .. p
        <5>1. n - p \in 1 .. Len(b) /\ n = p + (n - p)
          BY <3>1, <3>2, <4>2
        <5>2. c[n] = b[n - p]
          BY <5>1, <3>5
        <5>3. b[n - p] \in rest
          BY <5>1, <3>3
        <5> QED BY <5>2, <5>3
      <4> QED BY <4>1, <4>2
    <3>7. ASSUME NEW k \in left PROVE \E n \in DOMAIN c : c[n] = k
      <4>1. CASE k \in free
        <5>1. PICK i \in 1 .. p : a[i] = k
          BY <4>1, <2>4 DEF p
        <5>2. i \in DOMAIN c /\ c[i] = k
          BY <5>1, <3>1, <3>2, <3>4
        <5> QED BY <5>2
      <4>2. CASE k \notin free
        <5>1. PICK i \in DOMAIN b : b[i] = k
          BY <4>2, <2>2 DEF Lists
        <5>2. i \in 1 .. Len(b)
          BY <3>2
        <5>3. p + i \in DOMAIN c /\ c[p + i] = k
          BY <5>1, <5>2, <3>1, <3>2, <3>5
        <5> QED BY <5>3
      <4> QED BY <4>1, <4>2
    <3> QED BY <3>6, <3>7
  <2>13. Lists(Place[left], left)
    <3> HIDE DEF c
    <3>1. Place[left] = c
      BY <2>6 DEF c
    <3> QED BY <3>1, <2>10, <2>11, <2>12 DEF Lists
  <2> QED BY <2>13, <1>4
<1> QED BY <1>6, <1>7

LEMMA WavesInvSuffices == ASSUME WavesInv PROVE WavesRespectThePlan
<1>1. ASSUME ReadyKeys = {} PROVE remaining = {} <=> ~HasCycle
  <2>1. remaining = {} => ~HasCycle
    BY PlacedHasNoCycle
  <2>2. ASSUME remaining # {} PROVE HasCycle
    <3>1. remaining \in (SUBSET Key) \ {{}} /\ \A k \in remaining : plan[k].needs \cap remaining # {}
      BY <1>1, <2>2 DEF ReadyKeys, WavesInv, PlanOK
    <3> QED BY <3>1 DEF HasCycle
  <2> QED BY <2>1, <2>2
<1>2. ASSUME NEW n \in DOMAIN waves, NEW k \in waves[n]
      PROVE  /\ \A m \in (DOMAIN waves) \ {n} : k \notin waves[m]
             /\ plan[k].needs \subseteq UNION {waves[m] : m \in 1 .. n - 1}
             /\ \A other \in waves[n] \ {k} : ~Touching(k, other)
  BY <1>2 DEF WavesInv, PlacedBefore
<1>3. ASSUME ~HasCycle
      PROVE  /\ Len(Order) = Cardinality(Key) /\ {Order[n] : n \in DOMAIN Order} = Key
             /\ \A n \in DOMAIN Order :
                 plan[Order[n]].needs \subseteq {Order[m] : m \in 1 .. n - 1}
  <2>1. Lists(Place[Key], Key)
    BY <1>3, PlaceLists DEF WavesInv
  <2>2. Order = Place[Key]
    BY <1>3 DEF Order
  <2> HIDE DEF Order
  <2>3. Lists(Order, Key)
    BY <2>1, <2>2
  <2>4. Len(Order) = Cardinality(Key) /\ {Order[n] : n \in DOMAIN Order} = Key
    BY <2>3 DEF Lists
  <2>5. \A n \in DOMAIN Order : plan[Order[n]].needs \subseteq {Order[m] : m \in 1 .. n - 1}
    BY <2>3 DEF Lists
  <2> QED BY <2>4, <2>5
<1> QED BY <1>1, <1>2, <1>3 DEF WavesRespectThePlan

\* Every issue has one wave, behind all it depends on, in which nobody touches
\* what it touches, and only a circle of dependencies keeps issues out of the
\* waves; without one, the compiler's order has every issue after those it
\* depends on (execution-waves.ts scheduleExecutionWaves, issue-compiler.ts).
THEOREM WavesAlwaysRespectThePlan == Spec => []WavesRespectThePlan
<1>1. WavesInv /\ [Next]_vars => WavesInv'
  <2> SUFFICES ASSUME WavesInv, [Next]_vars PROVE WavesInv'
    OBVIOUS
  <2>1. CASE WavesStep
    BY <2>1, NextWaveKeeps DEF WavesStep
  <2>2. CASE ~WavesStep
    <3>1. UNCHANGED waveVars
      BY <2>2 DEF Next, vars, AccessStep, SignInStep, EvidenceStep, ClarificationStep,
                  AdmissionStep
    <3>2. plan' = plan /\ remaining' = remaining /\ waves' = waves
      BY <3>1 DEF waveVars
    <3> QED BY <3>2 DEF WavesInv, PlanOK, PlacedBefore, Touching
  <2> QED BY <2>1, <2>2
<1>2. WavesInv => WavesRespectThePlan
  BY WavesInvSuffices
<1> QED BY <1>1, <1>2, WavesInitHolds, PTL DEF Spec
=============================================================================
