--------------------------- MODULE DeliveryProofs ---------------------------
(***************************************************************************)
(* The delivery of a candidate, for any number of requests, keys, faults,   *)
(* pull requests and people who push.                                      *)
(*                                                                         *)
(* The candidate only ever moves on, so what a request has seen, or a       *)
(* receipt shows, is an earlier candidate: nothing it relies on is undone.  *)
(***************************************************************************)
EXTENDS GitDelivery, SequenceTheorems, TLAPS

\* A candidate that was: earlier, or the very one.
Earlier(c) ==
    /\ c.version <= candidate.version
    /\ c.version = candidate.version => c = candidate
    /\ c.version > 4 => c.pull = candidate.pull

\* What a request has found out or done, by the step it is at, in Git, at GitHub
\* and in the candidate it has seen.
RequestOK(q) ==
    /\ Earlier(q.seen)
    /\ q.pc \in {"look", "commit", "committed"} => q.op = "checkpoint"
    /\ q.pc = "committed" => head = Commit
    /\ q.pc \in {"review", "policy", "local", "push", "pushed", "propose", "create",
                 "opened"} => q.op = "deliver"
    /\ q.pc \in {"policy", "local", "push", "pushed"} => q.seen.version > 2
    /\ q.pc = "pushed" => remote # Nowhere
    /\ q.pc \in {"propose", "create", "opened"} => q.seen.version > 3
    /\ q.pc \in {"create", "opened"} => q.seen.state = "branch_pushed"
    /\ q.pc = "opened" => q.pull \in 1 .. Len(pulls)
    /\ q.pc \in {"permit", "start", "inspect", "merge", "landed"} =>
         q.op = "land" /\ q.seen.version > 4
    /\ q.pc = "landed" => /\ pulls[candidate.pull].state = "merged"
                          /\ pulls[candidate.pull].head = Commit
    /\ q.pc = "remember" => /\ q.op = "deliver" => candidate.version > 3
                            /\ q.op = "land" => candidate.state = "landed"

\* A receipt shows what its step had done.
ReceiptOK(r) ==
    /\ Earlier(r.shows)
    /\ r.step = "review" => r.shows.version > 2
    /\ r.step \in {"local", "push"} => r.shows.version > 3
    /\ r.step = "push" => remote # Nowhere
    /\ r.step \in {"pr", "start"} => r.shows.version > 4
    /\ r.step = "landed" => r.shows.state = "landed"

PullsOK ==
    \A p \in 1 .. Len(pulls) : pulls[p].by = "harness" => pulls[p].state = "merged"

DeliveryInv ==
    /\ DeliveryTypes /\ MergedIsReviewed /\ CandidateIsTrue
    /\ candidate.version > 2 => Commit \in approved
    /\ PullsOK
    /\ \A r \in receipts : ReceiptOK(r)
    /\ \A h \in Handler : \A q \in Request : ops[h] = q => RequestOK(q)

-----------------------------------------------------------------------------
(* What the steps need of the types.                                        *)

LEMMA CandidateParts ==
  ASSUME NEW c \in Candidate
  PROVE  /\ c.state \in DOMAIN Moves /\ c.version = Moves[c.state]
         /\ c.version \in 1 .. 7 /\ c.pull \in Nat /\ c.commit \in {Nowhere, Commit}
         /\ c = [state |-> c.state, version |-> c.version, commit |-> c.commit,
                 pull |-> c.pull]
         /\ c.commit = Commit <=> c.version > 1
         /\ c.pull # 0 <=> c.version > 4
         /\ c.version = 7 <=> c.state = "landed"
         /\ c.version > 2 <=> c.state \notin {"verified", "committed"}
         /\ c.version > 3 <=> c.state \notin {"verified", "committed", "reviewed"}
         /\ c.version > 4 <=> c.state \in {"pr_open", "landing", "landed"}
  BY DEF Candidate, Moves

LEMMA InvParts ==
  ASSUME DeliveryInv
  PROVE  /\ candidate \in Candidate
         /\ pulls \in Seq(PullRow) /\ Len(pulls) \in Nat /\ DOMAIN pulls = 1 .. Len(pulls)
         /\ \A p \in 1 .. Len(pulls) : pulls[p] \in PullRow
         /\ \A h \in Handler : ops[h] \in Request \cup {Idle}
         /\ \A h \in Handler : ops[h].pc # "idle" => ops[h] \in Request
         /\ \A h \in Handler : ops[h] # Idle => ops[h] \in Request
         /\ \A r \in receipts : r \in ReceiptRow
  BY LenProperties, ElementOfSeq DEF DeliveryInv, DeliveryTypes, Idle

-----------------------------------------------------------------------------
(* The three ways in which a step can touch what others rely on.            *)

\* The world: Git and GitHub go on, merged stays merged; a request goes on.
LEMMA WorldGoesOn ==
  ASSUME DeliveryInv, UNCHANGED <<candidate, receipts>>, DeliveryTypes',
         head = Commit => head' = Commit,
         remote # Nowhere => remote' # Nowhere,
         approved \subseteq approved',
         Len(pulls) <= Len(pulls'),
         \A p \in 1 .. Len(pulls) : pulls[p].state = "merged" =>
            pulls'[p].state = "merged" /\ pulls'[p].head = pulls[p].head,
         PullsOK', MergedIsReviewed',
         \A h \in Handler : \A q \in Request :
            ops'[h] = q => ops[h] = q \/ RequestOK(q)'
  PROVE  DeliveryInv'
<1> USE DEF DeliveryInv
<1>1. Len(pulls) \in Nat /\ Len(pulls') \in Nat /\ candidate \in Candidate
  BY InvParts, LenProperties DEF DeliveryTypes
<1>2. \A p \in 1 .. Len(pulls) : p \in 1 .. Len(pulls')
  BY <1>1
<1>3. \A c : Earlier(c)' = Earlier(c)
  BY DEF Earlier
<1>4. CandidateIsTrue'
  BY <1>1, <1>2 DEF CandidateIsTrue
<1>5. \A r \in receipts : ReceiptOK(r)'
  <2> SUFFICES ASSUME NEW r \in receipts PROVE ReceiptOK(r)'
    OBVIOUS
  <2>1. ReceiptOK(r)
    OBVIOUS
  <2> QED BY <1>3, <2>1 DEF ReceiptOK
<1>6. \A q \in Request : RequestOK(q) => RequestOK(q)'
  <2> SUFFICES ASSUME NEW q \in Request, RequestOK(q) PROVE RequestOK(q)'
    OBVIOUS
  <2>1. CASE q.pc = "landed"
    <3>1. candidate.pull \in 1 .. Len(pulls)
      <4>1. Earlier(q.seen) /\ q.seen.version > 4
        BY <2>1 DEF RequestOK
      <4>2. q.seen.version \in Nat /\ candidate.version \in Nat
        BY <1>1, CandidateParts DEF Request
      <4>3. candidate.version > 4
        BY <4>1, <4>2 DEF Earlier
      <4> QED BY <1>1, <4>3, CandidateParts DEF CandidateIsTrue
    <3> QED BY <1>3, <2>1, <3>1 DEF RequestOK
  <2>2. CASE q.pc # "landed"
    BY <1>1, <1>2, <1>3, <2>2 DEF RequestOK
  <2> QED BY <2>1, <2>2
<1> QED BY <1>4, <1>5, <1>6

\* A request goes on by itself, or is over.
LEMMA RequestGoesOn ==
  ASSUME DeliveryInv, NEW h \in Handler, NEW q \in Request \cup {Idle},
         q \in Request => RequestOK(q),
         ops' = [ops EXCEPT ![h] = q],
         UNCHANGED <<candidate, receipts, approved, head, github>>,
         policy' \in Mode, spent' \in [faults : Nat, outside : Nat]
  PROVE  DeliveryInv'
<1> USE DEF DeliveryInv, github
<1>1. ops \in [Handler -> Request \cup {Idle}]
  BY DEF DeliveryTypes
<1>2. DeliveryTypes'
  BY <1>1 DEF DeliveryTypes
<1>3. q \in Request => RequestOK(q)'
  BY DEF RequestOK, Earlier
<1>4. \A i \in Handler : \A o \in Request : ops'[i] = o => ops[i] = o \/ RequestOK(o)'
  BY <1>1, <1>3
<1>5. PullsOK' /\ MergedIsReviewed'
  BY DEF PullsOK, MergedIsReviewed
<1>6. Len(pulls) \in Nat
  BY InvParts
<1> QED BY <1>2, <1>4, <1>5, <1>6, WorldGoesOn

\* The candidate moves on, and a receipt shows it.
LEMMA CandidateMovesOn ==
  ASSUME DeliveryInv, NEW h \in Handler, NEW q \in Request, NEW new \in Candidate,
         NEW row \in ReceiptRow,
         UNCHANGED <<approved, policy, head, github, spent>>,
         candidate' = new, receipts' = receipts \cup {row}, ops' = [ops EXCEPT ![h] = q],
         new.version = candidate.version + 1,
         candidate.version > 4 => new.pull = candidate.pull,
         row.shows = new, ReceiptOK(row)', row.step = "all" => row.op = "checkpoint",
         RequestOK(q)',
         head = Commit,
         new.version > 2 => Commit \in approved,
         new.version > 3 /\ new.state # "local_ready" => remote # Nowhere,
         new.version > 4 => new.pull \in 1 .. Len(pulls),
         new.state = "landed" => /\ pulls[new.pull].state = "merged"
                                 /\ pulls[new.pull].head = Commit
  PROVE  DeliveryInv'
<1> USE DEF DeliveryInv, github
<1>1. candidate \in Candidate /\ candidate.version \in 1 .. 6 /\ new.version \in 2 .. 7
  BY InvParts, CandidateParts
<1>2. candidate.state # "landed"
  BY <1>1, CandidateParts
<1>3. \A c \in Candidate : Earlier(c) => Earlier(c)'
  <2> SUFFICES ASSUME NEW c \in Candidate, Earlier(c) PROVE Earlier(c)'
    OBVIOUS
  <2>1. c.version \in Nat /\ c.version <= candidate.version
    BY CandidateParts DEF Earlier
  <2> QED BY <1>1, <2>1 DEF Earlier
<1>4. DeliveryTypes'
  BY DEF DeliveryTypes
<1>5. MergedIsReviewed' /\ PullsOK'
  <2>1. \A p \in 1 .. Len(pulls) : p = candidate.pull => p = new.pull
    <3>1. candidate.pull # 0 => candidate.version > 4
      BY <1>1, CandidateParts
    <3> QED BY <3>1, InvParts
  <2> QED BY <2>1 DEF MergedIsReviewed, PullsOK
<1>6. CandidateIsTrue'
  <2>1. new.state \notin {"verified", "committed"} => new.version > 2 /\ new.commit = Commit
    BY CandidateParts
  <2>2. new.state \in {"branch_pushed", "pr_open", "landing", "landed"} =>
            new.version > 3 /\ new.state # "local_ready"
    BY CandidateParts
  <2>3. new.state \in {"pr_open", "landing", "landed"} => new.version > 4
    BY CandidateParts
  <2>4. \A r \in receipts' : r.step = "all" =>
         /\ r.op = "deliver" => r.shows.state \notin {"verified", "committed", "reviewed"}
         /\ r.op = "land" => r.shows.state = "landed" /\ new.state = "landed"
    BY <1>2 DEF CandidateIsTrue
  <2> QED BY <2>1, <2>2, <2>3, <2>4 DEF CandidateIsTrue
<1>7. \A r \in receipts' : ReceiptOK(r)'
  <2> SUFFICES ASSUME NEW r \in receipts PROVE ReceiptOK(r)'
    OBVIOUS
  <2>1. ReceiptOK(r) /\ r.shows \in Candidate
    BY InvParts DEF ReceiptRow
  <2> QED BY <1>3, <2>1 DEF ReceiptOK
<1>8. \A i \in Handler : \A o \in Request : ops'[i] = o => RequestOK(o)'
  <2> TAKE i \in Handler
  <2> TAKE o \in Request
  <2> HAVE ops'[i] = o
  <2>1. CASE i = h
    BY <2>1 DEF DeliveryTypes
  <2>2. CASE i # h
    <3>1. RequestOK(o)
      BY <2>2 DEF DeliveryTypes
    <3>2. o.seen \in Candidate /\ Earlier(o.seen) /\ Earlier(o.seen)'
      BY <1>3, <3>1 DEF RequestOK, Request
    <3>3. o.seen.version > 4 => new.pull = candidate.pull
      BY <1>1, <3>2, CandidateParts DEF Earlier
    <3>4. o.pc = "remember" => /\ o.op = "deliver" => new.version > 3
                               /\ o.op # "land"
      BY <1>1, <1>2, <3>1 DEF RequestOK
    <3> QED BY <3>1, <3>2, <3>3, <3>4 DEF RequestOK
  <2> QED BY <2>1, <2>2
<1>9. (candidate.version > 2 => Commit \in approved)'
  OBVIOUS
<1> QED BY <1>4, <1>5, <1>6, <1>7, <1>8, <1>9

\* The ways in which a transition can end: with the receipt of an earlier one,
\* with a new candidate, or refused.
Replays(h, step, pc) ==
    \E r \in receipts :
        /\ r.op = ops[h].op /\ r.step = step
        /\ ops' = [ops EXCEPT ![h] = [ops[h] EXCEPT !.pc = pc, !.seen = r.shows]]
Renews(h, step, pc, new) ==
    /\ candidate' = new
    /\ receipts' = receipts \cup {[op |-> ops[h].op, key |-> ops[h].key,
                                   step |-> step, shows |-> new]}
    /\ ops' = [ops EXCEPT ![h] = [ops[h] EXCEPT !.pc = pc, !.seen = new]]

LEMMA MoveOutcomes ==
  ASSUME DeliveryInv, NEW h \in Handler, ops[h] \in Request,
         NEW step, NEW from, NEW next, NEW pc, Move(h, step, from, next, pc)
  PROVE  \/ Replays(h, step, pc) /\ UNCHANGED <<candidate, receipts>>
         \/ /\ candidate.state \in from /\ ops[h].seen = candidate
            /\ Renews(h, step, pc, [next EXCEPT !.version = candidate.version + 1])
         \/ ops' = [ops EXCEPT ![h] = Idle] /\ UNCHANGED <<candidate, receipts>>
<1> DEFINE old == Receipts(ops[h].op, ops[h].key, step)
<1>1. ops \in [Handler -> Request \cup {Idle}] /\ RequestOK(ops[h])
  BY DEF DeliveryInv, DeliveryTypes
<1>2. CASE old # {}
  <2>1. PICK r \in old : r = CHOOSE x \in old : TRUE
    BY <1>2
  <2>2. r \in receipts /\ r.op = ops[h].op /\ r.step = step
    BY <2>1 DEF Receipts
  <2> QED BY <1>1, <1>2, <2>1, <2>2 DEF Move, Replays
<1>3. CASE old = {} /\ Fresh(Seen(h), from)
  <2>1. candidate.state \in from /\ ops[h].seen = candidate
    BY <1>1, <1>3 DEF Fresh, Seen, RequestOK, Earlier
  <2> QED BY <1>1, <1>3, <2>1 DEF Move, Renews
<1>4. CASE old = {} /\ ~Fresh(Seen(h), from)
  BY <1>4 DEF Move, Finish
<1> QED BY <1>2, <1>3, <1>4

\* A request that replays, or is refused, goes on by itself.
LEMMA ReplayKeeps ==
  ASSUME DeliveryInv, NEW h \in Handler, ops[h] \in Request, NEW step, NEW pc \in Stage,
         Replays(h, step, pc), UNCHANGED <<candidate, receipts>>,
         UNCHANGED <<approved, policy, head, github, spent>>,
         \A r \in receipts : \A q \in Request :
            /\ ReceiptOK(r) /\ r.step = step /\ r.op = q.op /\ q.op = ops[h].op
            /\ q.pc = pc /\ q.seen = r.shows /\ q.pull = ops[h].pull
            => RequestOK(q)
  PROVE  DeliveryInv'
<1>1. PICK r \in receipts :
        /\ r.op = ops[h].op /\ r.step = step
        /\ ops' = [ops EXCEPT ![h] = [ops[h] EXCEPT !.pc = pc, !.seen = r.shows]]
  BY DEF Replays
<1> DEFINE q == [ops[h] EXCEPT !.pc = pc, !.seen = r.shows]
<1>2. r.shows \in Candidate /\ ReceiptOK(r)
  BY InvParts DEF ReceiptRow, DeliveryInv
<1>3. q \in Request /\ q.pc = pc /\ q.seen = r.shows /\ q.op = ops[h].op /\ q.pull = ops[h].pull
  BY <1>2 DEF Request
<1>4. ops' = [ops EXCEPT ![h] = q]
  BY <1>1
<1> HIDE DEF q
<1>5. RequestOK(q)
  BY <1>1, <1>2, <1>3
<1>6. policy' \in Mode /\ spent' \in [faults : Nat, outside : Nat]
  BY DEF DeliveryInv, DeliveryTypes
<1> QED BY <1>3, <1>4, <1>5, <1>6, RequestGoesOn

LEMMA RefusalKeeps ==
  ASSUME DeliveryInv, NEW h \in Handler, ops' = [ops EXCEPT ![h] = Idle],
         UNCHANGED <<candidate, receipts, approved, head, github>>,
         policy' \in Mode, spent' \in [faults : Nat, outside : Nat]
  PROVE  DeliveryInv'
<1>1. Idle \notin Request
  BY DEF Idle, Request, Stage
<1> QED BY <1>1, RequestGoesOn

\* The new candidate, the receipt and the request that has seen both.
LEMMA RenewKeeps ==
  ASSUME DeliveryInv, NEW h \in Handler, ops[h] \in Request,
         NEW step \in {"all", "review", "local", "push", "pr", "start", "landed"},
         NEW pc \in Stage, NEW new \in Candidate,
         Renews(h, step, pc, new), UNCHANGED <<approved, policy, head, github, spent>>,
         new.version = candidate.version + 1,
         candidate.version > 4 => new.pull = candidate.pull,
         head = Commit,
         new.version > 2 => Commit \in approved,
         new.version > 3 /\ new.state # "local_ready" => remote # Nowhere,
         new.version > 4 => new.pull \in 1 .. Len(pulls),
         new.state = "landed" => /\ pulls[new.pull].state = "merged"
                                 /\ pulls[new.pull].head = Commit,
         step = "all" => ops[h].op = "checkpoint",
         \A r \in ReceiptRow : r.shows = new /\ r.step = step /\ Earlier(new)' => ReceiptOK(r)',
         \A q \in Request : /\ q.pc = pc /\ q.op = ops[h].op /\ q.seen = new /\ Earlier(new)'
                            => RequestOK(q)'
  PROVE  DeliveryInv'
<1>0. PICK q, row :
        /\ q = [ops[h] EXCEPT !.pc = pc, !.seen = new]
        /\ row = [op |-> ops[h].op, key |-> ops[h].key, step |-> step, shows |-> new]
  OBVIOUS
<1>1. /\ candidate' = new /\ receipts' = receipts \cup {row}
      /\ ops' = [ops EXCEPT ![h] = q]
  BY <1>0 DEF Renews
<1>2. q \in Request /\ q.pc = pc /\ q.op = ops[h].op /\ q.seen = new
  BY <1>0 DEF Request
<1>3. row \in ReceiptRow /\ row.shows = new /\ row.step = step /\ row.op = ops[h].op
  BY <1>0 DEF Request, ReceiptRow
<1>4. Earlier(new)'
  BY <1>1, CandidateParts DEF Earlier
<1>5. RequestOK(q)' /\ ReceiptOK(row)'
  BY <1>2, <1>3, <1>4
<1> QED BY <1>1, <1>2, <1>3, <1>5, CandidateMovesOn

-----------------------------------------------------------------------------
(* The operations.                                                          *)

\* A request that is at a step, and what holds of it there.
LEMMA AtStep ==
  ASSUME DeliveryInv, NEW h \in Handler, NEW pc \in Stage, Doing(h, pc)
  PROVE  /\ ops[h] \in Request /\ ops[h].pc = pc /\ RequestOK(ops[h])
         /\ ops[h].seen \in Candidate
         /\ candidate \in Candidate
         /\ policy \in Mode /\ spent \in [faults : Nat, outside : Nat]
         /\ ops \in [Handler -> Request \cup {Idle}]
<1>1. ops[h] # Idle
  BY DEF Doing, Idle, Stage
<1> QED BY <1>1, InvParts DEF DeliveryInv, DeliveryTypes, Doing, Request

\* The request that a step leaves behind.
Becomes(h, q) == ops' = [ops EXCEPT ![h] = q]

LEMMA Begins ==
  ASSUME DeliveryInv, NEW h \in Handler, NEW op \in Operation, NEW k \in Keys[op],
         NEW pc \in Stage, Begin(h, op, k, pc)
  PROVE  \E q \in Request : /\ Becomes(h, q)
                            /\ q.pc = pc /\ q.op = op /\ q.seen = candidate
<1> DEFINE q == [pc |-> pc, op |-> op, key |-> k, seen |-> candidate,
                 mode |-> "push_disabled", pull |-> candidate.pull]
<1>1. Becomes(h, q)
  BY DEF Begin, Becomes
<1>2. q \in Request
  BY InvParts, CandidateParts DEF Request, Key, Mode
<1> QED BY <1>1, <1>2

LEMMA Updated ==
  ASSUME NEW o \in Request, NEW pc \in Stage, NEW mode \in Mode, NEW pull \in Nat
  PROVE  /\ [o EXCEPT !.pc = pc] \in Request
         /\ [o EXCEPT !.pc = pc].pc = pc
         /\ [o EXCEPT !.pc = pc].op = o.op
         /\ [o EXCEPT !.pc = pc].seen = o.seen
         /\ [o EXCEPT !.pc = pc].pull = o.pull
         /\ [o EXCEPT !.pc = pc, !.mode = mode] \in Request
         /\ [o EXCEPT !.pc = pc, !.mode = mode].pc = pc
         /\ [o EXCEPT !.pc = pc, !.mode = mode].op = o.op
         /\ [o EXCEPT !.pc = pc, !.mode = mode].seen = o.seen
         /\ [o EXCEPT !.pc = pc, !.pull = pull] \in Request
         /\ [o EXCEPT !.pc = pc, !.pull = pull].pc = pc
         /\ [o EXCEPT !.pc = pc, !.pull = pull].op = o.op
         /\ [o EXCEPT !.pc = pc, !.pull = pull].seen = o.seen
         /\ [o EXCEPT !.pc = pc, !.pull = pull].pull = pull
  BY DEF Request

LEMMA Goes ==
  ASSUME DeliveryInv, NEW h \in Handler, ops[h] \in Request, NEW pc \in Stage, Goto(h, pc)
  PROVE  \E q \in Request : /\ Becomes(h, q) /\ q.pc = pc /\ q.op = ops[h].op
                            /\ q.seen = ops[h].seen /\ q.pull = ops[h].pull
<1>1. PICK o \in Request : o = ops[h]
  OBVIOUS
<1>2. ops' = [ops EXCEPT ![h] = [o EXCEPT !.pc = pc]]
  BY <1>1 DEF Goto, DeliveryInv, DeliveryTypes
<1>3. "push_disabled" \in Mode /\ 0 \in Nat
  BY DEF Mode
<1> QED BY <1>1, <1>2, <1>3, Updated DEF Becomes

\* A request that goes on knows what it must.
LEMMA StepKeeps ==
  ASSUME DeliveryInv, NEW h \in Handler, NEW q \in Request, Becomes(h, q), RequestOK(q),
         UNCHANGED <<candidate, receipts, approved, policy, head, github, spent>>
  PROVE  DeliveryInv'
<1>1. policy' \in Mode /\ spent' \in [faults : Nat, outside : Nat]
  BY DEF DeliveryInv, DeliveryTypes
<1> QED BY <1>1, RequestGoesOn DEF Becomes

LEMMA FinishKeeps ==
  ASSUME DeliveryInv, NEW h \in Handler, Finish(h),
         UNCHANGED <<candidate, receipts, approved, policy, head, github, spent>>
  PROVE  DeliveryInv'
<1>1. policy' \in Mode /\ spent' \in [faults : Nat, outside : Nat]
  BY DEF DeliveryInv, DeliveryTypes
<1> QED BY <1>1, RefusalKeeps DEF Finish

LEMMA StartCheckpointKeeps ==
  ASSUME DeliveryInv, NEW h \in Handler, NEW k \in Keys["checkpoint"], StartCheckpoint(h, k)
  PROVE  DeliveryInv'
<1>1. /\ Begin(h, "checkpoint", k, "look") /\ "look" \in Stage /\ "checkpoint" \in Operation
      /\ UNCHANGED <<candidate, receipts, approved, policy, head, github, spent>>
  BY DEF StartCheckpoint, Stage, Operation
<1>2. PICK q \in Request : Becomes(h, q) /\ q.pc = "look" /\ q.op = "checkpoint"
                           /\ q.seen = candidate
  BY <1>1, Begins
<1>3. RequestOK(q)
  BY <1>2, InvParts, CandidateParts DEF RequestOK, Earlier
<1> QED BY <1>1, <1>2, <1>3, StepKeeps

LEMMA StartDeliverKeeps ==
  ASSUME DeliveryInv, NEW h \in Handler, NEW k \in Keys["deliver"], StartDeliver(h, k)
  PROVE  DeliveryInv'
<1>1. PICK pc : pc = IF candidate.state \in {"local_ready", "pr_open"} THEN "remember"
                     ELSE "review"
  OBVIOUS
<1>2. /\ pc = "remember" => candidate.version > 3
      /\ candidate.version \in Nat
  BY <1>1, InvParts, CandidateParts
<1>3. /\ Begin(h, "deliver", k, pc)
      /\ UNCHANGED <<candidate, receipts, approved, policy, head, github, spent>>
      /\ pc \in Stage /\ pc \in {"remember", "review"} /\ "deliver" \in Operation
  BY <1>1 DEF StartDeliver, Stage, Operation
<1>4. PICK q \in Request : Becomes(h, q) /\ q.pc = pc /\ q.op = "deliver" /\ q.seen = candidate
  BY <1>3, Begins
<1>5. RequestOK(q)
  BY <1>2, <1>3, <1>4 DEF RequestOK, Earlier
<1> QED BY <1>3, <1>4, <1>5, StepKeeps

LEMMA StartLandKeeps ==
  ASSUME DeliveryInv, NEW h \in Handler, NEW k \in Keys["land"], StartLand(h, k)
  PROVE  DeliveryInv'
<1>1. /\ "land" \in Operation /\ candidate.version \in Nat
      /\ UNCHANGED <<candidate, receipts, approved, policy, head, github, spent>>
  BY InvParts, CandidateParts DEF Operation, StartLand
<1>2. ASSUME NEW pc \in {"remember", "permit"}, Begin(h, "land", k, pc),
             pc = "remember" => candidate.state = "landed",
             pc = "permit" => candidate.version > 4
      PROVE  DeliveryInv'
  <2>1. pc \in Stage
    BY DEF Stage
  <2>2. PICK q \in Request : Becomes(h, q) /\ q.pc = pc /\ q.op = "land" /\ q.seen = candidate
    BY <1>1, <1>2, <2>1, Begins
  <2>3. RequestOK(q)
    BY <1>1, <1>2, <2>2 DEF RequestOK, Earlier
  <2> QED BY <1>1, <2>2, <2>3, StepKeeps
<1>3. Landable(candidate) => candidate.version > 4
  BY InvParts, CandidateParts DEF Landable
<1> QED BY <1>2, <1>3 DEF StartLand

LEMMA LookAtWorktreeKeeps ==
  ASSUME DeliveryInv, NEW h \in Handler, LookAtWorktree(h)
  PROVE  DeliveryInv'
<1>1. PICK pc : pc = IF head = Commit THEN "committed" ELSE "commit"
  OBVIOUS
<1>2. /\ pc \in Stage /\ "look" \in Stage /\ Doing(h, "look") /\ Goto(h, pc)
      /\ UNCHANGED <<candidate, receipts, approved, policy, head, github, spent>>
  BY <1>1 DEF LookAtWorktree, Stage
<1>3. RequestOK(ops[h]) /\ ops[h].pc = "look" /\ ops[h] \in Request
  BY <1>2, AtStep
<1>4. PICK q \in Request : Becomes(h, q) /\ q.pc = pc /\ q.op = ops[h].op /\ q.seen = ops[h].seen
  BY <1>2, <1>3, Goes
<1>5. RequestOK(q)
  BY <1>1, <1>3, <1>4 DEF RequestOK
<1> QED BY <1>2, <1>4, <1>5, StepKeeps

LEMMA ReadPolicyKeeps ==
  ASSUME DeliveryInv, NEW h \in Handler, ReadPolicy(h)
  PROVE  DeliveryInv'
<1>1. PICK pc : pc = CASE policy # "push_disabled" -> "push"
                       [] Seen(h).state = "branch_pushed" -> "remember"
                       [] OTHER -> "local"
  OBVIOUS
<1>2. /\ "policy" \in Stage /\ Doing(h, "policy")
      /\ ops' = [ops EXCEPT ![h] = [@ EXCEPT !.pc = pc, !.mode = policy]]
      /\ UNCHANGED <<candidate, receipts, approved, policy, head, github, spent>>
  BY <1>1 DEF ReadPolicy, Stage
<1>3. /\ pc \in {"push", "remember", "local"} /\ pc \in Stage
      /\ pc = "remember" => ops[h].seen.state = "branch_pushed"
  BY <1>1 DEF Stage, Seen
<1>4. /\ RequestOK(ops[h]) /\ ops[h].pc = "policy" /\ ops[h].seen \in Candidate
      /\ candidate \in Candidate /\ policy \in Mode /\ ops[h] \in Request
  BY <1>2, AtStep
<1>5. candidate.version \in Nat /\ ops[h].seen.version \in Nat
  BY <1>4, CandidateParts
<1>6. pc = "remember" => ops[h].seen.version > 3
  BY <1>3, <1>4, CandidateParts
<1>7. pc = "remember" => candidate.version > 3
  BY <1>4, <1>5, <1>6 DEF RequestOK, Earlier
<1>8. PICK o \in Request : o = ops[h]
  BY <1>4
<1>9. PICK q \in Request : Becomes(h, q) /\ q.pc = pc /\ q.op = o.op /\ q.seen = o.seen
  <2>1. ops' = [ops EXCEPT ![h] = [o EXCEPT !.pc = pc, !.mode = policy]]
    BY <1>2, <1>8 DEF DeliveryInv, DeliveryTypes
  <2>2. PICK mode \in Mode : mode = policy
    BY <1>4
  <2>3. PICK q : q = [o EXCEPT !.pc = pc, !.mode = mode]
    OBVIOUS
  <2>4. 0 \in Nat
    OBVIOUS
  <2>5. q \in Request /\ q.pc = pc /\ q.op = o.op /\ q.seen = o.seen
    BY <1>3, <1>8, <2>2, <2>3 DEF Request
  <2>6. Becomes(h, q)
    BY <2>1, <2>2, <2>3, Zenon DEF Becomes
  <2> QED BY <2>5, <2>6
<1>10. RequestOK(q)
  BY <1>3, <1>4, <1>7, <1>8, <1>9 DEF RequestOK
<1> QED BY <1>2, <1>9, <1>10, StepKeeps

LEMMA LookForPullKeeps ==
  ASSUME DeliveryInv, NEW h \in Handler, LookForPull(h)
  PROVE  DeliveryInv'
<1>1. /\ "propose" \in Stage /\ Doing(h, "propose")
      /\ UNCHANGED <<candidate, receipts, approved, policy, head, github, spent>>
      /\ {"remember", "create", "opened"} \subseteq Stage
  BY DEF LookForPull, Stage
<1>2. /\ RequestOK(ops[h]) /\ ops[h].pc = "propose" /\ ops[h].seen \in Candidate
      /\ candidate \in Candidate /\ ops[h] \in Request
  BY <1>1, AtStep
<1>3. candidate.version \in Nat /\ ops[h].seen.version \in Nat
  BY <1>2, CandidateParts
<1>4. candidate.version > 3
  BY <1>2, <1>3 DEF RequestOK, Earlier
<1>5. ASSUME NEW pc \in {"remember", "create"}, Goto(h, pc),
             pc = "create" => Seen(h).state = "branch_pushed"
      PROVE  DeliveryInv'
  <2>1. PICK q \in Request : Becomes(h, q) /\ q.pc = pc /\ q.op = ops[h].op
                             /\ q.seen = ops[h].seen
    BY <1>1, <1>2, <1>5, Goes
  <2>2. RequestOK(q)
    BY <1>2, <1>4, <1>5, <2>1 DEF RequestOK, Seen
  <2> QED BY <1>1, <2>1, <2>2, StepKeeps
<1>6. ASSUME NEW p \in 1 .. Len(pulls), Seen(h).state = "branch_pushed",
             ops' = [ops EXCEPT ![h] = [@ EXCEPT !.pc = "opened", !.pull = p]]
      PROVE  DeliveryInv'
  <2>1. p \in Nat /\ "push_disabled" \in Mode
    BY InvParts DEF Mode
  <2>2. PICK o \in Request : o = ops[h]
    BY <1>2
  <2>3. ops' = [ops EXCEPT ![h] = [o EXCEPT !.pc = "opened", !.pull = p]]
    BY <1>6, <2>2 DEF DeliveryInv, DeliveryTypes
  <2>4. PICK q \in Request : Becomes(h, q) /\ q.pc = "opened" /\ q.op = o.op
                             /\ q.seen = o.seen /\ q.pull = p
    <3>1. PICK q : q = [o EXCEPT !.pc = "opened", !.pull = p]
      OBVIOUS
    <3>2. "opened" \in Stage
      BY <1>1
    <3>3. q \in Request /\ q.pc = "opened" /\ q.op = o.op /\ q.seen = o.seen /\ q.pull = p
      BY <2>1, <2>2, <3>1, <3>2 DEF Request
    <3>4. Becomes(h, q)
      BY <2>3, <3>1, Zenon DEF Becomes
    <3> QED BY <3>3, <3>4
  <2>5. RequestOK(q)
    BY <1>2, <1>6, <2>2, <2>4 DEF RequestOK, Seen
  <2> QED BY <1>1, <2>4, <2>5, StepKeeps
<1> QED BY <1>5, <1>6 DEF LookForPull

LEMMA PermitLandingKeeps ==
  ASSUME DeliveryInv, NEW h \in Handler, PermitLanding(h)
  PROVE  DeliveryInv'
<1>1. /\ "permit" \in Stage /\ Doing(h, "permit")
      /\ UNCHANGED <<candidate, receipts, approved, policy, head, github, spent>>
      /\ {"start", "inspect"} \subseteq Stage
  BY DEF PermitLanding, Stage
<1>2. RequestOK(ops[h]) /\ ops[h].pc = "permit" /\ ops[h] \in Request
  BY <1>1, AtStep
<1>3. ASSUME NEW pc \in {"start", "inspect"}, Goto(h, pc) PROVE DeliveryInv'
  <2>1. PICK q \in Request : Becomes(h, q) /\ q.pc = pc /\ q.op = ops[h].op
                             /\ q.seen = ops[h].seen
    BY <1>1, <1>2, <1>3, Goes
  <2>2. RequestOK(q)
    BY <1>2, <2>1 DEF RequestOK
  <2> QED BY <1>1, <2>1, <2>2, StepKeeps
<1> QED BY <1>1, <1>3, FinishKeeps DEF PermitLanding

LEMMA InspectPullKeeps ==
  ASSUME DeliveryInv, NEW h \in Handler, InspectPull(h)
  PROVE  DeliveryInv'
<1>1. /\ "inspect" \in Stage /\ Doing(h, "inspect")
      /\ UNCHANGED <<candidate, receipts, approved, policy, head, github, spent>>
      /\ {"landed", "merge"} \subseteq Stage
  BY DEF InspectPull, Stage
<1>2. /\ RequestOK(ops[h]) /\ ops[h].pc = "inspect" /\ ops[h] \in Request
  BY <1>1, AtStep
<1>3. Pull(h) = candidate.pull
  BY <1>2 DEF RequestOK, Earlier, Pull, Seen
<1>4. ASSUME NEW pc \in {"landed", "merge"}, Goto(h, pc),
             pc = "landed" => Unchanged(Pull(h)) /\ pulls[Pull(h)].state = "merged"
      PROVE  DeliveryInv'
  <2>1. PICK q \in Request : Becomes(h, q) /\ q.pc = pc /\ q.op = ops[h].op
                             /\ q.seen = ops[h].seen
    BY <1>1, <1>2, <1>4, Goes
  <2>2. RequestOK(q)
    BY <1>2, <1>3, <1>4, <2>1 DEF RequestOK, Unchanged
  <2> QED BY <1>1, <2>1, <2>2, StepKeeps
<1> QED BY <1>1, <1>4, FinishKeeps DEF InspectPull


LEMMA CommittedKeeps ==
  ASSUME DeliveryInv, NEW h \in Handler, Committed(h)
  PROVE  DeliveryInv'
<1>1. PICK next : next = [candidate EXCEPT !.state = "committed", !.commit = Commit]
  OBVIOUS
<1>2. /\ Doing(h, "committed") /\ "committed" \in Stage /\ "remember" \in Stage
      /\ UNCHANGED <<approved, policy, head, github, spent>>
      /\ Move(h, "all", {"verified"}, next, "remember")
  BY <1>1 DEF Committed, Stage
<1>3. /\ RequestOK(ops[h]) /\ ops[h].pc = "committed" /\ ops[h] \in Request
      /\ candidate \in Candidate
  BY <1>2, AtStep
<1>4. CASE Replays(h, "all", "remember") /\ UNCHANGED <<candidate, receipts>>
  <2>1. \A r \in receipts : \A q \in Request :
            /\ ReceiptOK(r) /\ r.step = "all" /\ r.op = q.op /\ q.op = ops[h].op
            /\ q.pc = "remember" /\ q.seen = r.shows /\ q.pull = ops[h].pull
            => RequestOK(q)
    <3> SUFFICES ASSUME NEW r \in receipts, NEW q \in Request, ReceiptOK(r),
                        r.step = "all", r.op = q.op, q.op = ops[h].op,
                        q.pc = "remember", q.seen = r.shows
                 PROVE  RequestOK(q)
      OBVIOUS
    <3>1. /\ candidate.version \in Nat /\ r.shows \in Candidate /\ r.shows.version \in Nat
          /\ candidate.version = 7 <=> candidate.state = "landed"
          /\ r.shows.version = 7 <=> r.shows.state = "landed"
          /\ candidate.version \in 1 .. 7
      BY <1>3, InvParts, CandidateParts DEF ReceiptRow
    <3> QED BY <1>3, <3>1 DEF RequestOK, ReceiptOK, Earlier
  <2> QED BY <1>2, <1>3, <1>4, <2>1, ReplayKeeps
<1>5. CASE /\ candidate.state \in {"verified"} /\ ops[h].seen = candidate
           /\ Renews(h, "all", "remember", [next EXCEPT !.version = candidate.version + 1])
  <2>1. PICK new : new = [next EXCEPT !.version = candidate.version + 1]
    OBVIOUS
  <2>2. /\ new \in Candidate /\ new.version = 2 /\ candidate.version = 2 - 1
        /\ new.state = "committed" /\ new.commit = Commit /\ new.pull = candidate.pull
    <3>1. /\ candidate.version = 2 - 1 /\ candidate.pull \in Nat
          /\ candidate.commit = Commit <=> candidate.version > 1
          /\ candidate.pull # 0 <=> candidate.version > 4
      BY <1>2, <1>3, <1>5, CandidateParts DEF Moves
    <3>2. next = [state |-> "committed", version |-> candidate.version,
                  commit |-> Commit, pull |-> candidate.pull]
      BY <1>1, <1>3, <3>1 DEF Candidate
    <3>3. new = [state |-> "committed", version |-> 2, commit |-> Commit, pull |-> candidate.pull]
      BY <2>1, <3>1, <3>2
    <3>4. Moves["committed"] = 2 /\ "committed" \in DOMAIN Moves
      BY DEF Moves
    <3> QED BY <3>1, <3>3, <3>4 DEF Candidate
  <2>3. Renews(h, "all", "remember", new)
    BY <1>5, <2>1
  <2>4. \A r \in ReceiptRow : r.shows = new /\ r.step = "all" /\ Earlier(new)'
            => ReceiptOK(r)'
    BY <2>2 DEF ReceiptOK
  <2>5. \A q \in Request : /\ q.pc = "remember" /\ q.op = ops[h].op /\ q.seen = new
                            /\ Earlier(new)'
                            => RequestOK(q)'
    BY <1>3, <2>2, <2>3 DEF RequestOK, Renews
  <2>6. head = Commit /\ ops[h].op = "checkpoint"
    BY <1>2, <1>3, <1>5, <2>2 DEF RequestOK
  <2> QED BY <1>2, <1>3, <2>2, <2>3, <2>4, <2>5, <2>6, RenewKeeps
<1> QED BY <1>2, <1>3, <1>4, <1>5, MoveOutcomes, FinishKeeps DEF Finish

LEMMA LocalReadyKeeps ==
  ASSUME DeliveryInv, NEW h \in Handler, LocalReady(h)
  PROVE  DeliveryInv'
<1>1. PICK next : next = [candidate EXCEPT !.state = "local_ready"]
  OBVIOUS
<1>2. /\ Doing(h, "local") /\ "local" \in Stage /\ "remember" \in Stage
      /\ UNCHANGED <<approved, policy, head, github, spent>>
      /\ Move(h, "local", {"reviewed"}, next, "remember")
  BY <1>1 DEF LocalReady, Stage
<1>3. /\ RequestOK(ops[h]) /\ ops[h].pc = "local" /\ ops[h] \in Request
      /\ candidate \in Candidate
  BY <1>2, AtStep
<1>4. CASE Replays(h, "local", "remember") /\ UNCHANGED <<candidate, receipts>>
  <2>1. \A r \in receipts : \A q \in Request :
            /\ ReceiptOK(r) /\ r.step = "local" /\ r.op = q.op /\ q.op = ops[h].op
            /\ q.pc = "remember" /\ q.seen = r.shows /\ q.pull = ops[h].pull
            => RequestOK(q)
    <3> SUFFICES ASSUME NEW r \in receipts, NEW q \in Request, ReceiptOK(r),
                        r.step = "local", r.op = q.op, q.op = ops[h].op,
                        q.pc = "remember", q.seen = r.shows
                 PROVE  RequestOK(q)
      OBVIOUS
    <3>1. /\ candidate.version \in Nat /\ r.shows \in Candidate /\ r.shows.version \in Nat
          /\ candidate.version = 7 <=> candidate.state = "landed"
          /\ r.shows.version = 7 <=> r.shows.state = "landed"
          /\ candidate.version \in 1 .. 7
      BY <1>3, InvParts, CandidateParts DEF ReceiptRow
    <3> QED BY <1>3, <3>1 DEF RequestOK, ReceiptOK, Earlier
  <2> QED BY <1>2, <1>3, <1>4, <2>1, ReplayKeeps
<1>5. CASE /\ candidate.state \in {"reviewed"} /\ ops[h].seen = candidate
           /\ Renews(h, "local", "remember", [next EXCEPT !.version = candidate.version + 1])
  <2>1. PICK new : new = [next EXCEPT !.version = candidate.version + 1]
    OBVIOUS
  <2>2. /\ new \in Candidate /\ new.version = 4 /\ candidate.version = 4 - 1
        /\ new.state = "local_ready" /\ new.commit = Commit /\ new.pull = candidate.pull
    <3>1. /\ candidate.version = 4 - 1 /\ candidate.pull \in Nat
          /\ candidate.commit = Commit <=> candidate.version > 1
          /\ candidate.pull # 0 <=> candidate.version > 4
      BY <1>2, <1>3, <1>5, CandidateParts DEF Moves
    <3>2. next = [state |-> "local_ready", version |-> candidate.version,
                  commit |-> Commit, pull |-> candidate.pull]
      BY <1>1, <1>3, <3>1 DEF Candidate
    <3>3. new = [state |-> "local_ready", version |-> 4, commit |-> Commit, pull |-> candidate.pull]
      BY <2>1, <3>1, <3>2
    <3>4. Moves["local_ready"] = 4 /\ "local_ready" \in DOMAIN Moves
      BY DEF Moves
    <3> QED BY <3>1, <3>3, <3>4 DEF Candidate
  <2>3. Renews(h, "local", "remember", new)
    BY <1>5, <2>1
  <2>4. \A r \in ReceiptRow : r.shows = new /\ r.step = "local" /\ Earlier(new)'
            => ReceiptOK(r)'
    BY <2>2 DEF ReceiptOK
  <2>5. \A q \in Request : /\ q.pc = "remember" /\ q.op = ops[h].op /\ q.seen = new
                            /\ Earlier(new)'
                            => RequestOK(q)'
    BY <1>3, <2>2, <2>3 DEF RequestOK, Renews
  <2>6. head = Commit /\ Commit \in approved
    BY <1>2, <1>3, <1>5, <2>2, InvParts, CandidateParts DEF RequestOK, DeliveryInv, CandidateIsTrue
  <2> QED BY <1>2, <1>3, <2>2, <2>3, <2>4, <2>5, <2>6, RenewKeeps
<1> QED BY <1>2, <1>3, <1>4, <1>5, MoveOutcomes, FinishKeeps DEF Finish

LEMMA PushedKeeps ==
  ASSUME DeliveryInv, NEW h \in Handler, Pushed(h)
  PROVE  DeliveryInv'
<1>1. PICK next : next = [candidate EXCEPT !.state = "branch_pushed"]
  OBVIOUS
<1>2. /\ Doing(h, "pushed") /\ "pushed" \in Stage /\ "propose" \in Stage
      /\ UNCHANGED <<approved, policy, head, github, spent>>
      /\ Move(h, "push", {"reviewed"}, next, "propose")
  BY <1>1 DEF Pushed, Stage
<1>3. /\ RequestOK(ops[h]) /\ ops[h].pc = "pushed" /\ ops[h] \in Request
      /\ candidate \in Candidate
  BY <1>2, AtStep
<1>4. CASE Replays(h, "push", "propose") /\ UNCHANGED <<candidate, receipts>>
  <2>1. \A r \in receipts : \A q \in Request :
            /\ ReceiptOK(r) /\ r.step = "push" /\ r.op = q.op /\ q.op = ops[h].op
            /\ q.pc = "propose" /\ q.seen = r.shows /\ q.pull = ops[h].pull
            => RequestOK(q)
    <3> SUFFICES ASSUME NEW r \in receipts, NEW q \in Request, ReceiptOK(r),
                        r.step = "push", r.op = q.op, q.op = ops[h].op,
                        q.pc = "propose", q.seen = r.shows
                 PROVE  RequestOK(q)
      OBVIOUS
    <3>1. /\ candidate.version \in Nat /\ r.shows \in Candidate /\ r.shows.version \in Nat
          /\ candidate.version = 7 <=> candidate.state = "landed"
          /\ r.shows.version = 7 <=> r.shows.state = "landed"
          /\ candidate.version \in 1 .. 7
      BY <1>3, InvParts, CandidateParts DEF ReceiptRow
    <3> QED BY <1>3, <3>1 DEF RequestOK, ReceiptOK, Earlier
  <2> QED BY <1>2, <1>3, <1>4, <2>1, ReplayKeeps
<1>5. CASE /\ candidate.state \in {"reviewed"} /\ ops[h].seen = candidate
           /\ Renews(h, "push", "propose", [next EXCEPT !.version = candidate.version + 1])
  <2>1. PICK new : new = [next EXCEPT !.version = candidate.version + 1]
    OBVIOUS
  <2>2. /\ new \in Candidate /\ new.version = 4 /\ candidate.version = 4 - 1
        /\ new.state = "branch_pushed" /\ new.commit = Commit /\ new.pull = candidate.pull
    <3>1. /\ candidate.version = 4 - 1 /\ candidate.pull \in Nat
          /\ candidate.commit = Commit <=> candidate.version > 1
          /\ candidate.pull # 0 <=> candidate.version > 4
      BY <1>2, <1>3, <1>5, CandidateParts DEF Moves
    <3>2. next = [state |-> "branch_pushed", version |-> candidate.version,
                  commit |-> Commit, pull |-> candidate.pull]
      BY <1>1, <1>3, <3>1 DEF Candidate
    <3>3. new = [state |-> "branch_pushed", version |-> 4, commit |-> Commit, pull |-> candidate.pull]
      BY <2>1, <3>1, <3>2
    <3>4. Moves["branch_pushed"] = 4 /\ "branch_pushed" \in DOMAIN Moves
      BY DEF Moves
    <3> QED BY <3>1, <3>3, <3>4 DEF Candidate
  <2>3. Renews(h, "push", "propose", new)
    BY <1>5, <2>1
  <2>4. \A r \in ReceiptRow : r.shows = new /\ r.step = "push" /\ Earlier(new)'
            => ReceiptOK(r)'
    BY <1>2, <1>3, <2>2 DEF ReceiptOK, RequestOK, github
  <2>5. \A q \in Request : /\ q.pc = "propose" /\ q.op = ops[h].op /\ q.seen = new
                            /\ Earlier(new)'
                            => RequestOK(q)'
    BY <1>3, <2>2, <2>3 DEF RequestOK, Renews
  <2>6. head = Commit /\ Commit \in approved /\ remote # Nowhere
    BY <1>2, <1>3, <1>5, <2>2, InvParts, CandidateParts DEF RequestOK, DeliveryInv, CandidateIsTrue
  <2> QED BY <1>2, <1>3, <2>2, <2>3, <2>4, <2>5, <2>6, RenewKeeps
<1> QED BY <1>2, <1>3, <1>4, <1>5, MoveOutcomes, FinishKeeps DEF Finish

LEMMA OpenedParts ==
  ASSUME NEW c \in Candidate, NEW p \in Nat
  PROVE  [c EXCEPT !.state = "pr_open", !.pull = p] =
            [state |-> "pr_open", version |-> c.version, commit |-> c.commit, pull |-> p]
<1>1. c = [state |-> c.state, version |-> c.version, commit |-> c.commit, pull |-> c.pull]
  BY CandidateParts
<1>2. PICK v, b, l : v = c.version /\ b = c.commit /\ l = c.pull
  OBVIOUS
<1>3. PICK d : d = [c EXCEPT !.state = "pr_open"]
  OBVIOUS
<1>4. d = [state |-> "pr_open", version |-> v, commit |-> b, pull |-> l]
  BY <1>1, <1>2, <1>3
<1>5. [d EXCEPT !.pull = p] = [state |-> "pr_open", version |-> v, commit |-> b, pull |-> p]
  BY <1>4
<1> QED BY <1>2, <1>3, <1>5

LEMMA PullOpenedKeeps ==
  ASSUME DeliveryInv, NEW h \in Handler, PullOpened(h)
  PROVE  DeliveryInv'
<1>1. PICK next : next = [candidate EXCEPT !.state = "pr_open", !.pull = ops[h].pull]
  OBVIOUS
<1>2. /\ Doing(h, "opened") /\ "opened" \in Stage /\ "remember" \in Stage
      /\ UNCHANGED <<approved, policy, head, github, spent>>
      /\ Move(h, "pr", {"branch_pushed"}, next, "remember")
  BY <1>1 DEF PullOpened, Stage
<1>3. /\ RequestOK(ops[h]) /\ ops[h].pc = "opened" /\ ops[h] \in Request
      /\ candidate \in Candidate
  BY <1>2, AtStep
<1>4. CASE Replays(h, "pr", "remember") /\ UNCHANGED <<candidate, receipts>>
  <2>1. \A r \in receipts : \A q \in Request :
            /\ ReceiptOK(r) /\ r.step = "pr" /\ r.op = q.op /\ q.op = ops[h].op
            /\ q.pc = "remember" /\ q.seen = r.shows /\ q.pull = ops[h].pull
            => RequestOK(q)
    <3> SUFFICES ASSUME NEW r \in receipts, NEW q \in Request, ReceiptOK(r),
                        r.step = "pr", r.op = q.op, q.op = ops[h].op,
                        q.pc = "remember", q.seen = r.shows
                 PROVE  RequestOK(q)
      OBVIOUS
    <3>1. /\ candidate.version \in Nat /\ r.shows \in Candidate /\ r.shows.version \in Nat
          /\ candidate.version = 7 <=> candidate.state = "landed"
          /\ r.shows.version = 7 <=> r.shows.state = "landed"
          /\ candidate.version \in 1 .. 7
      BY <1>3, InvParts, CandidateParts DEF ReceiptRow
    <3> QED BY <1>3, <3>1 DEF RequestOK, ReceiptOK, Earlier
  <2> QED BY <1>2, <1>3, <1>4, <2>1, ReplayKeeps
<1>5. CASE /\ candidate.state \in {"branch_pushed"} /\ ops[h].seen = candidate
           /\ Renews(h, "pr", "remember", [next EXCEPT !.version = candidate.version + 1])
  <2>1. PICK new : new = [next EXCEPT !.version = candidate.version + 1]
    OBVIOUS
  <2>2. /\ new \in Candidate /\ new.version = 5 /\ candidate.version = 5 - 1
        /\ new.state = "pr_open" /\ new.commit = Commit /\ new.pull = ops[h].pull
    <3>1. /\ candidate.version = 5 - 1 /\ candidate.pull \in Nat
          /\ candidate.commit = Commit <=> candidate.version > 1
          /\ candidate.pull # 0 <=> candidate.version > 4
          /\ ops[h].pull \in Nat \ {0}
      BY <1>2, <1>3, <1>5, CandidateParts, InvParts DEF Moves, RequestOK
    <3>2. next = [state |-> "pr_open", version |-> candidate.version,
                  commit |-> Commit, pull |-> ops[h].pull]
      <4>1. PICK pull \in Nat : pull = ops[h].pull
        BY <3>1
      <4>2. next = [candidate EXCEPT !.state = "pr_open", !.pull = pull]
        BY <1>1, <4>1
      <4>3. PICK c \in Candidate : c = candidate
        BY <1>3
      <4>4. next = [c EXCEPT !.state = "pr_open", !.pull = pull]
        BY <4>2, <4>3
      <4>5. next = [state |-> "pr_open", version |-> c.version, commit |-> c.commit,
                    pull |-> pull]
        BY <4>4, OpenedParts
      <4>6. candidate.commit = Commit
        BY <3>1
      <4> QED BY <4>1, <4>3, <4>5, <4>6
    <3>3. new = [state |-> "pr_open", version |-> 5, commit |-> Commit, pull |-> ops[h].pull]
      BY <2>1, <3>1, <3>2
    <3>4. Moves["pr_open"] = 5 /\ "pr_open" \in DOMAIN Moves
      BY DEF Moves
    <3>5. new.state = "pr_open" /\ new.version = 5 /\ new.commit = Commit /\ new.pull = ops[h].pull
      BY <3>3
    <3>6. new \in [state : DOMAIN Moves, version : Nat, commit : {Nowhere, Commit}, pull : Nat]
      BY <3>1, <3>3, <3>4
    <3> QED BY <3>1, <3>4, <3>5, <3>6 DEF Candidate
  <2>3. Renews(h, "pr", "remember", new)
    BY <1>5, <2>1
  <2>4. \A r \in ReceiptRow : r.shows = new /\ r.step = "pr" /\ Earlier(new)'
            => ReceiptOK(r)'
    BY <2>2 DEF ReceiptOK
  <2>5. \A q \in Request : /\ q.pc = "remember" /\ q.op = ops[h].op /\ q.seen = new
                            /\ Earlier(new)'
                            => RequestOK(q)'
    BY <1>3, <2>2, <2>3 DEF RequestOK, Renews
  <2>6. head = Commit /\ Commit \in approved /\ remote # Nowhere /\ ops[h].pull \in 1 .. Len(pulls)
    BY <1>2, <1>3, <1>5, <2>2, InvParts, CandidateParts DEF RequestOK, DeliveryInv, CandidateIsTrue
  <2> QED BY <1>2, <1>3, <2>2, <2>3, <2>4, <2>5, <2>6, RenewKeeps
<1> QED BY <1>2, <1>3, <1>4, <1>5, MoveOutcomes, FinishKeeps DEF Finish

LEMMA LandingStartsKeeps ==
  ASSUME DeliveryInv, NEW h \in Handler, LandingStarts(h)
  PROVE  DeliveryInv'
<1>1. PICK next : next = [candidate EXCEPT !.state = "landing"]
  OBVIOUS
<1>2. /\ Doing(h, "start") /\ "start" \in Stage /\ "inspect" \in Stage
      /\ UNCHANGED <<approved, policy, head, github, spent>>
      /\ Move(h, "start", {"pr_open"}, next, "inspect")
  BY <1>1 DEF LandingStarts, Stage
<1>3. /\ RequestOK(ops[h]) /\ ops[h].pc = "start" /\ ops[h] \in Request
      /\ candidate \in Candidate
  BY <1>2, AtStep
<1>4. CASE Replays(h, "start", "inspect") /\ UNCHANGED <<candidate, receipts>>
  <2>1. \A r \in receipts : \A q \in Request :
            /\ ReceiptOK(r) /\ r.step = "start" /\ r.op = q.op /\ q.op = ops[h].op
            /\ q.pc = "inspect" /\ q.seen = r.shows /\ q.pull = ops[h].pull
            => RequestOK(q)
    <3> SUFFICES ASSUME NEW r \in receipts, NEW q \in Request, ReceiptOK(r),
                        r.step = "start", r.op = q.op, q.op = ops[h].op,
                        q.pc = "inspect", q.seen = r.shows
                 PROVE  RequestOK(q)
      OBVIOUS
    <3>1. /\ candidate.version \in Nat /\ r.shows \in Candidate /\ r.shows.version \in Nat
          /\ candidate.version = 7 <=> candidate.state = "landed"
          /\ r.shows.version = 7 <=> r.shows.state = "landed"
          /\ candidate.version \in 1 .. 7
      BY <1>3, InvParts, CandidateParts DEF ReceiptRow
    <3> QED BY <1>3, <3>1 DEF RequestOK, ReceiptOK, Earlier
  <2> QED BY <1>2, <1>3, <1>4, <2>1, ReplayKeeps
<1>5. CASE /\ candidate.state \in {"pr_open"} /\ ops[h].seen = candidate
           /\ Renews(h, "start", "inspect", [next EXCEPT !.version = candidate.version + 1])
  <2>1. PICK new : new = [next EXCEPT !.version = candidate.version + 1]
    OBVIOUS
  <2>2. /\ new \in Candidate /\ new.version = 6 /\ candidate.version = 6 - 1
        /\ new.state = "landing" /\ new.commit = Commit /\ new.pull = candidate.pull
    <3>1. /\ candidate.version = 6 - 1 /\ candidate.pull \in Nat
          /\ candidate.commit = Commit <=> candidate.version > 1
          /\ candidate.pull # 0 <=> candidate.version > 4
      BY <1>2, <1>3, <1>5, CandidateParts DEF Moves
    <3>2. next = [state |-> "landing", version |-> candidate.version,
                  commit |-> Commit, pull |-> candidate.pull]
      BY <1>1, <1>3, <3>1 DEF Candidate
    <3>3. new = [state |-> "landing", version |-> 6, commit |-> Commit, pull |-> candidate.pull]
      BY <2>1, <3>1, <3>2
    <3>4. Moves["landing"] = 6 /\ "landing" \in DOMAIN Moves
      BY DEF Moves
    <3> QED BY <3>1, <3>3, <3>4 DEF Candidate
  <2>3. Renews(h, "start", "inspect", new)
    BY <1>5, <2>1
  <2>4. \A r \in ReceiptRow : r.shows = new /\ r.step = "start" /\ Earlier(new)'
            => ReceiptOK(r)'
    BY <2>2 DEF ReceiptOK
  <2>5. \A q \in Request : /\ q.pc = "inspect" /\ q.op = ops[h].op /\ q.seen = new
                            /\ Earlier(new)'
                            => RequestOK(q)'
    BY <1>3, <2>2, <2>3 DEF RequestOK, Renews
  <2>6. head = Commit /\ Commit \in approved /\ remote # Nowhere /\ candidate.pull \in 1 .. Len(pulls)
    BY <1>2, <1>3, <1>5, <2>2, InvParts, CandidateParts DEF RequestOK, DeliveryInv, CandidateIsTrue
  <2> QED BY <1>2, <1>3, <2>2, <2>3, <2>4, <2>5, <2>6, RenewKeeps
<1> QED BY <1>2, <1>3, <1>4, <1>5, MoveOutcomes, FinishKeeps DEF Finish

LEMMA LandedKeeps ==
  ASSUME DeliveryInv, NEW h \in Handler, Landed(h)
  PROVE  DeliveryInv'
<1>1. PICK next : next = [candidate EXCEPT !.state = "landed"]
  OBVIOUS
<1>2. /\ Doing(h, "landed") /\ "landed" \in Stage /\ "remember" \in Stage
      /\ UNCHANGED <<approved, policy, head, github, spent>>
      /\ Move(h, "landed", {"landing"}, next, "remember")
  BY <1>1 DEF Landed, Stage
<1>3. /\ RequestOK(ops[h]) /\ ops[h].pc = "landed" /\ ops[h] \in Request
      /\ candidate \in Candidate
  BY <1>2, AtStep
<1>4. CASE Replays(h, "landed", "remember") /\ UNCHANGED <<candidate, receipts>>
  <2>1. \A r \in receipts : \A q \in Request :
            /\ ReceiptOK(r) /\ r.step = "landed" /\ r.op = q.op /\ q.op = ops[h].op
            /\ q.pc = "remember" /\ q.seen = r.shows /\ q.pull = ops[h].pull
            => RequestOK(q)
    <3> SUFFICES ASSUME NEW r \in receipts, NEW q \in Request, ReceiptOK(r),
                        r.step = "landed", r.op = q.op, q.op = ops[h].op,
                        q.pc = "remember", q.seen = r.shows
                 PROVE  RequestOK(q)
      OBVIOUS
    <3>1. /\ candidate.version \in Nat /\ r.shows \in Candidate /\ r.shows.version \in Nat
          /\ candidate.version = 7 <=> candidate.state = "landed"
          /\ r.shows.version = 7 <=> r.shows.state = "landed"
          /\ candidate.version \in 1 .. 7
      BY <1>3, InvParts, CandidateParts DEF ReceiptRow
    <3> QED BY <1>3, <3>1 DEF RequestOK, ReceiptOK, Earlier
  <2> QED BY <1>2, <1>3, <1>4, <2>1, ReplayKeeps
<1>5. CASE /\ candidate.state \in {"landing"} /\ ops[h].seen = candidate
           /\ Renews(h, "landed", "remember", [next EXCEPT !.version = candidate.version + 1])
  <2>1. PICK new : new = [next EXCEPT !.version = candidate.version + 1]
    OBVIOUS
  <2>2. /\ new \in Candidate /\ new.version = 7 /\ candidate.version = 7 - 1
        /\ new.state = "landed" /\ new.commit = Commit /\ new.pull = candidate.pull
    <3>1. /\ candidate.version = 7 - 1 /\ candidate.pull \in Nat
          /\ candidate.commit = Commit <=> candidate.version > 1
          /\ candidate.pull # 0 <=> candidate.version > 4
      BY <1>2, <1>3, <1>5, CandidateParts DEF Moves
    <3>2. next = [state |-> "landed", version |-> candidate.version,
                  commit |-> Commit, pull |-> candidate.pull]
      BY <1>1, <1>3, <3>1 DEF Candidate
    <3>3. new = [state |-> "landed", version |-> 7, commit |-> Commit, pull |-> candidate.pull]
      BY <2>1, <3>1, <3>2
    <3>4. Moves["landed"] = 7 /\ "landed" \in DOMAIN Moves
      BY DEF Moves
    <3> QED BY <3>1, <3>3, <3>4 DEF Candidate
  <2>3. Renews(h, "landed", "remember", new)
    BY <1>5, <2>1
  <2>4. \A r \in ReceiptRow : r.shows = new /\ r.step = "landed" /\ Earlier(new)'
            => ReceiptOK(r)'
    BY <2>2 DEF ReceiptOK
  <2>5. \A q \in Request : /\ q.pc = "remember" /\ q.op = ops[h].op /\ q.seen = new
                            /\ Earlier(new)'
                            => RequestOK(q)'
    BY <1>3, <2>2, <2>3 DEF RequestOK, Renews
  <2>6. /\ head = Commit /\ Commit \in approved /\ remote # Nowhere
        /\ candidate.pull \in 1 .. Len(pulls)
        /\ pulls[candidate.pull].state = "merged" /\ pulls[candidate.pull].head = Commit
    BY <1>2, <1>3, <1>5, <2>2, InvParts, CandidateParts DEF RequestOK, DeliveryInv, CandidateIsTrue
  <2> QED BY <1>2, <1>3, <2>2, <2>3, <2>4, <2>5, <2>6, RenewKeeps
<1> QED BY <1>2, <1>3, <1>4, <1>5, MoveOutcomes, FinishKeeps DEF Finish

LEMMA CheckReviewKeeps ==
  ASSUME DeliveryInv, NEW h \in Handler, CheckReview(h)
  PROVE  DeliveryInv'
<1>1. PICK next : next = [candidate EXCEPT !.state = "reviewed"]
  OBVIOUS
<1>2. /\ Doing(h, "review") /\ "review" \in Stage /\ "policy" \in Stage
      /\ UNCHANGED <<approved, policy, head, github, spent>>
      /\ \/ Finish(h) /\ UNCHANGED <<candidate, receipts>>
         \/ /\ Reviewed(Seen(h).commit) /\ Seen(h).state = "committed"
            /\ Move(h, "review", {"committed"}, next, "policy")
         \/ /\ Seen(h).state # "committed" /\ Reviewed(Seen(h).commit)
            /\ Goto(h, "policy") /\ UNCHANGED <<candidate, receipts>>
  BY <1>1 DEF CheckReview, Stage
<1>3. /\ RequestOK(ops[h]) /\ ops[h].pc = "review" /\ ops[h] \in Request
      /\ candidate \in Candidate /\ ops[h].seen \in Candidate
  BY <1>2, AtStep
<1>4. CASE Replays(h, "review", "policy") /\ UNCHANGED <<candidate, receipts>>
  <2>1. \A r \in receipts : \A q \in Request :
            /\ ReceiptOK(r) /\ r.step = "review" /\ r.op = q.op /\ q.op = ops[h].op
            /\ q.pc = "policy" /\ q.seen = r.shows /\ q.pull = ops[h].pull
            => RequestOK(q)
    <3> SUFFICES ASSUME NEW r \in receipts, NEW q \in Request, ReceiptOK(r),
                        r.step = "review", r.op = q.op, q.op = ops[h].op,
                        q.pc = "policy", q.seen = r.shows
                 PROVE  RequestOK(q)
      OBVIOUS
    <3> QED BY <1>3 DEF RequestOK, ReceiptOK
  <2> QED BY <1>2, <1>3, <1>4, <2>1, ReplayKeeps
<1>5. CASE /\ candidate.state \in {"committed"} /\ ops[h].seen = candidate
           /\ Reviewed(Seen(h).commit)
           /\ Renews(h, "review", "policy", [next EXCEPT !.version = candidate.version + 1])
  <2>1. PICK new : new = [next EXCEPT !.version = candidate.version + 1]
    OBVIOUS
  <2>2. /\ new \in Candidate /\ new.version = 3 /\ candidate.version = 3 - 1
        /\ new.state = "reviewed" /\ new.commit = Commit /\ new.pull = candidate.pull
        /\ candidate.commit = Commit
    <3>1. /\ candidate.version = 3 - 1 /\ candidate.pull \in Nat
          /\ candidate.commit = Commit <=> candidate.version > 1
          /\ candidate.pull # 0 <=> candidate.version > 4
      BY <1>3, <1>5, CandidateParts DEF Moves
    <3>2. next = [state |-> "reviewed", version |-> candidate.version,
                  commit |-> Commit, pull |-> candidate.pull]
      BY <1>1, <1>3, <3>1 DEF Candidate
    <3>3. new = [state |-> "reviewed", version |-> 3, commit |-> Commit, pull |-> candidate.pull]
      BY <2>1, <3>1, <3>2
    <3>4. Moves["reviewed"] = 3 /\ "reviewed" \in DOMAIN Moves
      BY DEF Moves
    <3> QED BY <3>1, <3>3, <3>4 DEF Candidate
  <2>3. Renews(h, "review", "policy", new)
    BY <1>5, <2>1
  <2>4. \A r \in ReceiptRow : r.shows = new /\ r.step = "review" /\ Earlier(new)'
            => ReceiptOK(r)'
    BY <2>2 DEF ReceiptOK
  <2>5. \A q \in Request : /\ q.pc = "policy" /\ q.op = ops[h].op /\ q.seen = new
                            /\ Earlier(new)'
                            => RequestOK(q)'
    BY <1>3, <2>2, <2>3 DEF RequestOK, Renews
  <2>6. head = Commit /\ Commit \in approved
    BY <1>3, <1>5, <2>2 DEF DeliveryInv, CandidateIsTrue, Reviewed, Seen
  <2> QED BY <1>2, <1>3, <2>2, <2>3, <2>4, <2>5, <2>6, RenewKeeps
<1>6. CASE /\ Seen(h).state # "committed" /\ Reviewed(Seen(h).commit)
           /\ Goto(h, "policy") /\ UNCHANGED <<candidate, receipts>>
  <2>1. ops[h].seen.version > 2
    <3>1. ops[h].seen.commit = Commit
      BY <1>3, <1>6 DEF Reviewed, Seen, DeliveryInv, DeliveryTypes
    <3> QED BY <1>3, <1>6, <3>1, CandidateParts DEF Seen, Moves
  <2>2. PICK q \in Request : Becomes(h, q) /\ q.pc = "policy" /\ q.op = ops[h].op
                             /\ q.seen = ops[h].seen
    BY <1>2, <1>3, <1>6, Goes
  <2>3. RequestOK(q)
    BY <1>3, <2>1, <2>2 DEF RequestOK
  <2> QED BY <1>2, <1>6, <2>2, <2>3, StepKeeps
<1> QED BY <1>2, <1>3, <1>4, <1>5, <1>6, MoveOutcomes, FinishKeeps DEF Finish

\* The receipt of a whole request.
LEMMA RememberKeeps ==
  ASSUME DeliveryInv, NEW h \in Handler, Remember(h)
  PROVE  DeliveryInv'
<1> USE DEF DeliveryInv
<1>1. PICK row : row = [op |-> ops[h].op, key |-> ops[h].key, step |-> "all",
                        shows |-> candidate]
  OBVIOUS
<1>2. /\ Doing(h, "remember") /\ "remember" \in Stage /\ Finish(h)
      /\ UNCHANGED <<candidate, approved, policy, head, github, spent>>
      /\ receipts' = receipts \/ receipts' = receipts \cup {row}
  BY <1>1 DEF Remember, Stage
<1>3. /\ RequestOK(ops[h]) /\ ops[h].pc = "remember" /\ ops[h] \in Request
      /\ candidate \in Candidate
  BY <1>2, AtStep
<1>4. /\ row \in ReceiptRow /\ row.op = ops[h].op /\ row.step = "all" /\ row.shows = candidate
  BY <1>1, <1>3 DEF ReceiptRow, Request
<1>5. candidate.version > 3 => candidate.state \notin {"verified", "committed", "reviewed"}
  BY <1>3, CandidateParts
<1>6. Idle \notin Request
  BY DEF Idle, Request, Stage
<1>7. DeliveryTypes'
  BY <1>2, <1>4 DEF DeliveryTypes, Finish, github
<1>8. CandidateIsTrue'
  <2>1. /\ row.op = "deliver" => row.shows.state \notin {"verified", "committed", "reviewed"}
        /\ row.op = "land" => row.shows.state = "landed" /\ candidate.state = "landed"
    BY <1>3, <1>4, <1>5 DEF RequestOK
  <2> QED BY <1>2, <2>1 DEF CandidateIsTrue, github
<1>9. \A r \in receipts' : ReceiptOK(r)'
  <2> SUFFICES ASSUME NEW r \in receipts \cup {row} PROVE ReceiptOK(r)'
    BY <1>2
  <2>1. candidate.version \in Nat
    BY <1>3, CandidateParts
  <2>2. ReceiptOK(r)
    BY <1>4, <2>1 DEF ReceiptOK, Earlier
  <2> QED BY <1>2, <2>2 DEF ReceiptOK, Earlier, github
<1>10. \A i \in Handler : \A q \in Request : ops'[i] = q => RequestOK(q)'
  <2> SUFFICES ASSUME NEW i \in Handler, NEW q \in Request, ops'[i] = q PROVE RequestOK(q)'
    OBVIOUS
  <2>1. RequestOK(q)
    BY <1>2, <1>6 DEF Finish, DeliveryTypes
  <2> QED BY <1>2, <2>1 DEF RequestOK, Earlier, github
<1>11. MergedIsReviewed' /\ PullsOK' /\ (candidate.version > 2 => Commit \in approved)'
  BY <1>2 DEF MergedIsReviewed, PullsOK, github
<1> QED BY <1>7, <1>8, <1>9, <1>10, <1>11

-----------------------------------------------------------------------------
(* Git and GitHub.                                                          *)

\* The types after a step of the world.
LEMMA TypesStay ==
  ASSUME DeliveryInv, UNCHANGED <<candidate, receipts>>,
         ops' \in [Handler -> Request \cup {Idle}],
         head' \in {Baseline, Commit}, remote' \in {Nowhere, Commit, "other"},
         approved' \in SUBSET {Commit}, policy' \in Mode, pulls' \in Seq(PullRow),
         spent' \in [faults : Nat, outside : Nat]
  PROVE  DeliveryTypes'
  BY DEF DeliveryInv, DeliveryTypes

\* A request that goes on, or is over, in a world that goes on.
LEMMA HandlerGoesOn ==
  ASSUME DeliveryInv, NEW h \in Handler, NEW q \in Request \cup {Idle},
         ops' = [ops EXCEPT ![h] = q], q \in Request => RequestOK(q)'
  PROVE  /\ ops' \in [Handler -> Request \cup {Idle}]
         /\ \A i \in Handler : \A o \in Request : ops'[i] = o => ops[i] = o \/ RequestOK(o)'
  BY DEF DeliveryInv, DeliveryTypes

LEMMA CreateCommitKeeps ==
  ASSUME DeliveryInv, NEW h \in Handler, CreateCommit(h)
  PROVE  DeliveryInv'
<1>1. /\ Doing(h, "commit") /\ "commit" \in Stage /\ "committed" \in Stage
      /\ UNCHANGED <<candidate, receipts, approved, policy, github, spent>>
      /\ \/ head' = Commit /\ Goto(h, "committed")
         \/ Finish(h) /\ UNCHANGED head
  BY DEF CreateCommit, Stage
<1>2. /\ RequestOK(ops[h]) /\ ops[h].pc = "commit" /\ ops[h] \in Request
      /\ policy \in Mode /\ spent \in [faults : Nat, outside : Nat]
  BY <1>1, AtStep
<1>3. CASE head' = Commit /\ Goto(h, "committed")
  <2>1. PICK q \in Request : Becomes(h, q) /\ q.pc = "committed" /\ q.op = ops[h].op
                             /\ q.seen = ops[h].seen
    BY <1>1, <1>2, <1>3, Goes
  <2>2. RequestOK(q)'
    BY <1>1, <1>2, <1>3, <2>1 DEF RequestOK, Earlier
  <2>3. /\ ops' \in [Handler -> Request \cup {Idle}]
        /\ \A i \in Handler : \A o \in Request : ops'[i] = o => ops[i] = o \/ RequestOK(o)'
    BY <2>1, <2>2, HandlerGoesOn DEF Becomes
  <2>4. UNCHANGED <<remote, pulls>>
    BY <1>1 DEF github
  <2>5. DeliveryTypes'
    BY <1>1, <1>2, <1>3, <2>3, <2>4, TypesStay DEF DeliveryInv, DeliveryTypes
  <2>6. PullsOK' /\ MergedIsReviewed' /\ Len(pulls) \in Nat
    BY <1>1, <2>4, InvParts DEF DeliveryInv, PullsOK, MergedIsReviewed
  <2> QED BY <1>1, <1>3, <2>3, <2>4, <2>5, <2>6, WorldGoesOn
<1>4. CASE Finish(h) /\ UNCHANGED head
  BY <1>1, <1>4, FinishKeeps
<1> QED BY <1>1, <1>3, <1>4

LEMMA PushBranchKeeps ==
  ASSUME DeliveryInv, NEW h \in Handler, PushBranch(h)
  PROVE  DeliveryInv'
<1>1. /\ Doing(h, "push") /\ "push" \in Stage /\ {"propose", "pushed"} \subseteq Stage
      /\ UNCHANGED <<candidate, receipts, approved, policy, head, pulls, spent>>
      /\ \/ Seen(h).state # "reviewed" /\ Goto(h, "propose") /\ UNCHANGED remote
         \/ remote' = Commit /\ Goto(h, "pushed")
         \/ Finish(h) /\ UNCHANGED remote
  BY DEF PushBranch, Stage
<1>2. /\ RequestOK(ops[h]) /\ ops[h].pc = "push" /\ ops[h] \in Request
      /\ ops[h].seen \in Candidate
  BY <1>1, AtStep
<1>3. CASE Seen(h).state # "reviewed" /\ Goto(h, "propose") /\ UNCHANGED remote
  <2>1. ops[h].seen.version > 3
    BY <1>2, <1>3, CandidateParts DEF RequestOK, Seen, Moves
  <2>2. PICK q \in Request : Becomes(h, q) /\ q.pc = "propose" /\ q.op = ops[h].op
                             /\ q.seen = ops[h].seen
    BY <1>1, <1>2, <1>3, Goes
  <2>3. RequestOK(q)
    BY <1>2, <2>1, <2>2 DEF RequestOK
  <2> QED BY <1>1, <1>3, <2>2, <2>3, StepKeeps DEF github
<1>4. CASE remote' = Commit /\ Goto(h, "pushed")
  <2>1. PICK q \in Request : Becomes(h, q) /\ q.pc = "pushed" /\ q.op = ops[h].op
                             /\ q.seen = ops[h].seen
    BY <1>1, <1>2, <1>4, Goes
  <2>2. Commit # Nowhere
    BY DEF Commit, Nowhere
  <2>3. RequestOK(q)'
    BY <1>1, <1>2, <1>4, <2>1, <2>2 DEF RequestOK, Earlier
  <2>4. /\ ops' \in [Handler -> Request \cup {Idle}]
        /\ \A i \in Handler : \A o \in Request : ops'[i] = o => ops[i] = o \/ RequestOK(o)'
    BY <2>1, <2>3, HandlerGoesOn DEF Becomes
  <2>5. DeliveryTypes'
    BY <1>1, <1>4, <2>4, TypesStay DEF DeliveryInv, DeliveryTypes
  <2>6. PullsOK' /\ MergedIsReviewed' /\ Len(pulls) \in Nat
    BY <1>1, InvParts DEF DeliveryInv, PullsOK, MergedIsReviewed
  <2> QED BY <1>1, <1>4, <2>2, <2>4, <2>5, <2>6, WorldGoesOn
<1>5. CASE Finish(h) /\ UNCHANGED remote
  BY <1>1, <1>5, FinishKeeps DEF github
<1> QED BY <1>1, <1>3, <1>4, <1>5

LEMMA CreatePullKeeps ==
  ASSUME DeliveryInv, NEW h \in Handler, CreatePull(h)
  PROVE  DeliveryInv'
<1>1. PICK row : row = [state |-> "open", head |-> remote, by |-> "nobody"]
  OBVIOUS
<1>2. /\ Doing(h, "create") /\ {"create", "opened"} \subseteq Stage
      /\ UNCHANGED <<candidate, receipts, approved, policy, head, remote, spent>>
      /\ \/ Finish(h) /\ UNCHANGED pulls
         \/ /\ pulls' = Append(pulls, row)
            /\ \/ ops' = [ops EXCEPT ![h] = [@ EXCEPT !.pc = "opened", !.pull = Len(pulls')]]
               \/ Finish(h)
  BY <1>1 DEF CreatePull, Stage
<1>3. /\ RequestOK(ops[h]) /\ ops[h].pc = "create" /\ ops[h] \in Request
      /\ ops[h].seen \in Candidate /\ candidate \in Candidate
      /\ ops \in [Handler -> Request \cup {Idle}]
  BY <1>2, AtStep
<1>4. CASE pulls' = Append(pulls, row)
  <2>1. remote \in {Commit, "other"}
    <3>1. ops[h].seen.version > 3 /\ ops[h].seen.state = "branch_pushed"
      BY <1>3 DEF RequestOK
    <3>2. candidate.version > 3 /\ candidate.state # "local_ready"
      <4>1. ops[h].seen.version \in Nat /\ candidate.version \in Nat
            /\ ops[h].seen.version = 4
        BY <1>3, <3>1, CandidateParts DEF Moves
      <4>2. candidate.version = 4 => candidate.state = "branch_pushed"
        BY <1>3, <3>1, <4>1 DEF RequestOK, Earlier
      <4>3. candidate.state = "local_ready" => candidate.version = 4
        BY <1>3, CandidateParts DEF Moves
      <4> QED BY <1>3, <3>1, <4>1, <4>2, <4>3 DEF RequestOK, Earlier
    <3>3. candidate.state \in {"branch_pushed", "pr_open", "landing", "landed"}
      BY <1>3, <3>2, CandidateParts DEF Moves
    <3> QED BY <3>3 DEF DeliveryInv, CandidateIsTrue, DeliveryTypes
  <2>2. row \in PullRow /\ row.by # "harness" /\ row.state = "open"
    BY <1>1, <2>1 DEF PullRow
  <2>3. /\ Len(pulls) \in Nat /\ pulls' \in Seq(PullRow) /\ Len(pulls') = Len(pulls) + 1
        /\ \A p \in 1 .. Len(pulls) : pulls'[p] = pulls[p]
        /\ pulls'[Len(pulls) + 1] = row
    BY <1>4, <2>2, InvParts, AppendProperties
  <2>4. \A p \in 1 .. Len(pulls') : p \in 1 .. Len(pulls) \/ p = Len(pulls) + 1
    BY <2>3
  <2>5. PullsOK' /\ MergedIsReviewed'
    BY <1>2, <2>2, <2>3, <2>4 DEF DeliveryInv, PullsOK, MergedIsReviewed
  <2>6. /\ ops' \in [Handler -> Request \cup {Idle}]
        /\ \A i \in Handler : \A o \in Request : ops'[i] = o => ops[i] = o \/ RequestOK(o)'
    <3>1. CASE Finish(h)
      <4>1. Idle \notin Request
        BY DEF Idle, Request, Stage
      <4> QED BY <3>1, <4>1, HandlerGoesOn DEF Finish
    <3>2. CASE ops' = [ops EXCEPT ![h] = [@ EXCEPT !.pc = "opened", !.pull = Len(pulls')]]
      <4>1. PICK o \in Request : o = ops[h]
        BY <1>3
      <4>2. PICK n \in Nat : n = Len(pulls')
        BY <2>3
      <4>3. PICK q : q = [o EXCEPT !.pc = "opened", !.pull = n]
        OBVIOUS
      <4>4. q \in Request /\ q.pc = "opened" /\ q.op = o.op /\ q.seen = o.seen /\ q.pull = n
        BY <1>2, <4>1, <4>2, <4>3 DEF Request
      <4>5. ops' = [ops EXCEPT ![h] = q]
        BY <1>3, <3>2, <4>1, <4>2, <4>3
      <4>6. n \in 1 .. Len(pulls')
        BY <2>3, <4>2
      <4>7. RequestOK(q)'
        BY <1>2, <1>3, <4>1, <4>4, <4>6 DEF RequestOK, Earlier
      <4> QED BY <4>4, <4>5, <4>7, HandlerGoesOn
    <3> QED BY <1>2, <1>4, <2>3, <3>1, <3>2
  <2>7. DeliveryTypes'
    BY <1>2, <2>3, <2>6, TypesStay DEF DeliveryInv, DeliveryTypes
  <2> QED BY <1>2, <2>3, <2>5, <2>6, <2>7, WorldGoesOn
<1>5. CASE Finish(h) /\ UNCHANGED pulls
  BY <1>2, <1>5, FinishKeeps DEF github
<1> QED BY <1>2, <1>4, <1>5

LEMMA PullEnds ==
  ASSUME NEW p \in PullRow, NEW s \in {"merged", "closed"}, NEW who \in {"human", "harness"}
  PROVE  /\ [p EXCEPT !.state = s, !.by = who] \in PullRow
         /\ [p EXCEPT !.state = s, !.by = who].state = s
         /\ [p EXCEPT !.state = s, !.by = who].by = who
         /\ [p EXCEPT !.state = s, !.by = who].head = p.head
  BY DEF PullRow

LEMMA MergePullKeeps ==
  ASSUME DeliveryInv, NEW h \in Handler, MergePull(h)
  PROVE  DeliveryInv'
<1>1. PICK n : n = Pull(h)
  OBVIOUS
<1>2. /\ Doing(h, "merge") /\ {"merge", "landed"} \subseteq Stage
      /\ UNCHANGED <<candidate, receipts, approved, policy, head, remote, spent>>
      /\ \/ /\ pulls[n].state = "open" /\ pulls[n].head = Commit /\ Goto(h, "landed")
            /\ pulls' = [pulls EXCEPT ![n] = [@ EXCEPT !.state = "merged", !.by = "harness"]]
         \/ Finish(h) /\ UNCHANGED pulls
  BY <1>1 DEF MergePull, Stage, Open, Unchanged
<1>3. /\ RequestOK(ops[h]) /\ ops[h].pc = "merge" /\ ops[h] \in Request
      /\ ops[h].seen \in Candidate /\ candidate \in Candidate
      /\ policy \in Mode /\ spent \in [faults : Nat, outside : Nat]
  BY <1>2, AtStep
<1>4. CASE /\ pulls[n].state = "open" /\ pulls[n].head = Commit /\ Goto(h, "landed")
           /\ pulls' = [pulls EXCEPT ![n] = [@ EXCEPT !.state = "merged", !.by = "harness"]]
  <2>1. candidate.version > 4 /\ n = candidate.pull
    <3>1. ops[h].seen.version \in Nat /\ candidate.version \in Nat
      BY <1>3, CandidateParts
    <3> QED BY <1>1, <1>3, <3>1 DEF RequestOK, Earlier, Pull, Seen
  <2>2. n \in 1 .. Len(pulls) /\ Commit \in approved
    <3>1. candidate.state \in {"pr_open", "landing", "landed"} /\ candidate.version > 2
      BY <1>3, <2>1, CandidateParts
    <3> QED BY <2>1, <3>1 DEF DeliveryInv, CandidateIsTrue
  <2>3. /\ pulls \in Seq(PullRow) /\ Len(pulls) \in Nat /\ pulls[n] \in PullRow
        /\ DOMAIN pulls = 1 .. Len(pulls)
    BY <2>2, InvParts
  <2>4. PICK row \in PullRow :
          /\ row = [pulls[n] EXCEPT !.state = "merged", !.by = "harness"]
          /\ row.state = "merged" /\ row.by = "harness" /\ row.head = Commit
    <3>1. PICK p \in PullRow : p = pulls[n]
      BY <2>3
    <3>2. PICK row : row = [p EXCEPT !.state = "merged", !.by = "harness"]
      OBVIOUS
    <3>3. row \in PullRow /\ row.state = "merged" /\ row.by = "harness" /\ row.head = p.head
      BY <3>2, PullEnds
    <3> QED BY <1>4, <3>1, <3>2, <3>3
  <2>5. /\ pulls' \in Seq(PullRow) /\ Len(pulls') = Len(pulls)
        /\ \A p \in 1 .. Len(pulls) : pulls'[p] = IF p = n THEN row ELSE pulls[p]
    <3>1. pulls' = [pulls EXCEPT ![n] = row]
      BY <1>4, <2>2, <2>3, <2>4
    <3> QED BY <2>2, <2>3, <2>4, <3>1, ExceptSeq, LenProperties
  <2>6. PullsOK'
    BY <2>4, <2>5 DEF DeliveryInv, PullsOK
  <2>7. MergedIsReviewed'
    <3>1. \A p \in 1 .. Len(pulls) : pulls[p].by = "harness" => p = n
      BY <2>1 DEF DeliveryInv, MergedIsReviewed
    <3>2. \A p \in 1 .. Len(pulls') : pulls'[p].by = "harness" => p = n
      BY <2>5, <3>1
    <3>3. pulls'[n].head = Commit /\ candidate'.pull = n /\ Commit \in approved'
      BY <1>2, <2>1, <2>2, <2>4, <2>5
    <3> QED BY <3>2, <3>3 DEF MergedIsReviewed
  <2>8. PICK q \in Request : Becomes(h, q) /\ q.pc = "landed" /\ q.op = ops[h].op
                             /\ q.seen = ops[h].seen
    BY <1>2, <1>3, <1>4, Goes
  <2>9. RequestOK(q)'
    BY <1>2, <1>3, <2>1, <2>2, <2>4, <2>5, <2>8 DEF RequestOK, Earlier
  <2>10. /\ ops' \in [Handler -> Request \cup {Idle}]
         /\ \A i \in Handler : \A o \in Request : ops'[i] = o => ops[i] = o \/ RequestOK(o)'
    BY <2>8, <2>9, HandlerGoesOn DEF Becomes
  <2>11. DeliveryTypes'
    BY <1>2, <2>5, <2>10, TypesStay DEF DeliveryInv, DeliveryTypes
  <2>12. \A p \in 1 .. Len(pulls) : pulls[p].state = "merged" =>
            pulls'[p].state = "merged" /\ pulls'[p].head = pulls[p].head
    BY <1>4, <2>5
  <2> QED BY <1>2, <2>3, <2>5, <2>6, <2>7, <2>10, <2>11, <2>12, WorldGoesOn
<1>5. CASE Finish(h) /\ UNCHANGED pulls
  BY <1>2, <1>5, FinishKeeps DEF github
<1> QED BY <1>2, <1>4, <1>5

\* The reviewer, the administrator and people at GitHub.
LEMMA OthersKeep ==
  ASSUME DeliveryInv, Approve \/ RevisePolicy \/ PushByOther \/ PullEndedByOther
  PROVE  DeliveryInv'
<1>1. /\ ops \in [Handler -> Request \cup {Idle}] /\ head \in {Baseline, Commit}
      /\ remote \in {Nowhere, Commit, "other"} /\ approved \in SUBSET {Commit}
      /\ policy \in Mode /\ pulls \in Seq(PullRow) /\ Len(pulls) \in Nat
      /\ spent \in [faults : Nat, outside : Nat] /\ candidate \in Candidate
      /\ \A p \in 1 .. Len(pulls) : pulls[p] \in PullRow
      /\ DOMAIN pulls = 1 .. Len(pulls)
  BY InvParts DEF DeliveryInv, DeliveryTypes
<1>2. Outside => spent' \in [faults : Nat, outside : Nat]
  BY <1>1 DEF Outside
<1>3. CASE Approve
  <2>1. /\ UNCHANGED <<candidate, receipts, policy, head, remote, pulls, ops, spent>>
        /\ approved' = approved \cup {candidate.commit} /\ candidate.commit # Nowhere
    BY <1>3 DEF Approve, github
  <2>2. approved' \in SUBSET {Commit}
    BY <1>1, <2>1, CandidateParts
  <2>3. DeliveryTypes'
    BY <1>1, <2>1, <2>2, TypesStay
  <2>4. PullsOK' /\ MergedIsReviewed'
    BY <2>1 DEF DeliveryInv, PullsOK, MergedIsReviewed
  <2> QED BY <1>1, <2>1, <2>3, <2>4, WorldGoesOn
<1>4. CASE RevisePolicy
  <2>1. /\ UNCHANGED <<candidate, receipts, approved, head, remote, pulls, ops>>
        /\ policy' \in Mode
    BY <1>4 DEF RevisePolicy, github
  <2>2. DeliveryTypes'
    BY <1>1, <1>2, <1>4, <2>1, TypesStay DEF RevisePolicy
  <2>3. PullsOK' /\ MergedIsReviewed'
    BY <2>1 DEF DeliveryInv, PullsOK, MergedIsReviewed
  <2> QED BY <1>1, <2>1, <2>2, <2>3, WorldGoesOn
<1>5. CASE PushByOther
  <2>1. /\ UNCHANGED <<candidate, receipts, approved, policy, head, ops>>
        /\ remote' = "other"
        /\ pulls' = [p \in 1 .. Len(pulls) |->
                      IF Open(p) THEN [pulls[p] EXCEPT !.head = "other"] ELSE pulls[p]]
    BY <1>5 DEF PushByOther
  <2>2. /\ pulls' \in Seq(PullRow) /\ Len(pulls') = Len(pulls)
        /\ \A p \in 1 .. Len(pulls) :
             /\ pulls'[p].state = pulls[p].state /\ pulls'[p].by = pulls[p].by
             /\ pulls[p].state = "merged" => pulls'[p] = pulls[p]
    <3>1. \A p \in 1 .. Len(pulls) :
            /\ pulls'[p] \in PullRow
            /\ pulls'[p].state = pulls[p].state /\ pulls'[p].by = pulls[p].by
            /\ pulls[p].state = "merged" => pulls'[p] = pulls[p]
      <4> SUFFICES ASSUME NEW p \in 1 .. Len(pulls)
                   PROVE  /\ pulls'[p] \in PullRow
                          /\ pulls'[p].state = pulls[p].state /\ pulls'[p].by = pulls[p].by
                          /\ pulls[p].state = "merged" => pulls'[p] = pulls[p]
        OBVIOUS
      <4>1. CASE Open(p)
        <5>1. pulls'[p] = [pulls[p] EXCEPT !.head = "other"] /\ pulls[p].state = "open"
          BY <2>1, <4>1 DEF Open
        <5> QED BY <1>1, <5>1 DEF PullRow
      <4>2. CASE ~Open(p)
        BY <1>1, <2>1, <4>2
      <4> QED BY <4>1, <4>2
    <3>2. pulls' \in [1 .. Len(pulls) -> PullRow]
      BY <2>1, <3>1
    <3> QED BY <1>1, <3>1, <3>2, SeqDef, LenProperties
  <2>3. PullsOK'
    BY <2>2 DEF DeliveryInv, PullsOK
  <2>4. MergedIsReviewed'
    <3>1. \A p \in 1 .. Len(pulls) : pulls'[p].by = "harness" =>
             pulls[p].by = "harness" /\ pulls'[p] = pulls[p]
      BY <2>2 DEF DeliveryInv, PullsOK
    <3>2. \A p \in 1 .. Len(pulls) : pulls[p].by = "harness" =>
             p = candidate.pull /\ pulls[p].head \in approved
      BY DEF DeliveryInv, MergedIsReviewed
    <3>3. Len(pulls') = Len(pulls) /\ approved' = approved /\ candidate' = candidate
      BY <2>1, <2>2
    <3>4. \A p \in 1 .. Len(pulls') : pulls'[p].by = "harness" =>
             p = candidate'.pull /\ pulls'[p].head \in approved'
      BY <3>1, <3>2, <3>3
    <3> QED BY <3>4 DEF MergedIsReviewed
  <2>5. DeliveryTypes'
    BY <1>1, <1>2, <1>5, <2>1, <2>2, TypesStay DEF PushByOther
  <2>6. "other" # Nowhere
    BY DEF Nowhere
  <2>7. /\ Len(pulls) <= Len(pulls')
        /\ \A p \in 1 .. Len(pulls) : pulls[p].state = "merged" =>
              pulls'[p].state = "merged" /\ pulls'[p].head = pulls[p].head
    BY <1>1, <2>2
  <2>8. \A h \in Handler : \A q \in Request : ops'[h] = q => ops[h] = q \/ RequestOK(q)'
    BY <2>1
  <2> QED BY <2>1, <2>3, <2>4, <2>5, <2>6, <2>7, <2>8, WorldGoesOn
<1>6. CASE PullEndedByOther
  <2>1. PICK n \in 1 .. Len(pulls), state \in {"merged", "closed"} :
          /\ Open(n)
          /\ pulls' = [pulls EXCEPT ![n] = [@ EXCEPT !.state = state, !.by = "human"]]
    BY <1>6 DEF PullEndedByOther
  <2>2. UNCHANGED <<candidate, receipts, approved, policy, head, remote, ops>> /\ Outside
    BY <1>6 DEF PullEndedByOther
  <2>3. PICK row \in PullRow :
          /\ row = [pulls[n] EXCEPT !.state = state, !.by = "human"]
          /\ row.by = "human"
    <3>1. PICK p \in PullRow : p = pulls[n]
      BY <1>1
    <3>2. PICK row : row = [p EXCEPT !.state = state, !.by = "human"]
      OBVIOUS
    <3>3. row \in PullRow /\ row.by = "human"
      BY <3>2, PullEnds
    <3> QED BY <3>1, <3>2, <3>3
  <2>4. /\ pulls' \in Seq(PullRow) /\ Len(pulls') = Len(pulls)
        /\ \A p \in 1 .. Len(pulls) : pulls'[p] = IF p = n THEN row ELSE pulls[p]
    <3>1. pulls' = [pulls EXCEPT ![n] = row]
      BY <1>1, <2>1, <2>3
    <3> QED BY <1>1, <2>1, <2>3, <3>1, ExceptSeq, LenProperties
  <2>5. pulls[n].state = "open"
    BY <2>1 DEF Open
  <2>6. PullsOK' /\ MergedIsReviewed'
    BY <2>2, <2>3, <2>4, <2>5 DEF DeliveryInv, PullsOK, MergedIsReviewed
  <2>7. DeliveryTypes'
    BY <1>1, <1>2, <2>2, <2>4, TypesStay
  <2>8. \A p \in 1 .. Len(pulls) : pulls[p].state = "merged" =>
            pulls'[p].state = "merged" /\ pulls'[p].head = pulls[p].head
    BY <2>4, <2>5
  <2> QED BY <1>1, <2>2, <2>4, <2>6, <2>7, <2>8, WorldGoesOn
<1> QED BY <1>3, <1>4, <1>5, <1>6

LEMMA FaultKeeps ==
  ASSUME DeliveryInv, NEW h \in Handler, Fault(h)
  PROVE  DeliveryInv'
<1>1. /\ ops' = [ops EXCEPT ![h] = Idle] /\ spent' = [spent EXCEPT !.faults = @ + 1]
      /\ UNCHANGED <<candidate, receipts, approved, policy, head, github>>
  BY DEF Fault, Finish
<1>2. policy' \in Mode /\ spent' \in [faults : Nat, outside : Nat]
  BY <1>1 DEF DeliveryInv, DeliveryTypes
<1> QED BY <1>1, <1>2, RefusalKeeps

LEMMA StepsKeep ==
  ASSUME DeliveryInv, [Next]_vars
  PROVE  DeliveryInv'
<1>1. CASE \E h \in Handler : Step(h) \/ Fault(h)
  BY <1>1, LookAtWorktreeKeeps, CreateCommitKeeps, CommittedKeeps, CheckReviewKeeps,
     ReadPolicyKeeps, LocalReadyKeeps, PushBranchKeeps, PushedKeeps, LookForPullKeeps,
     CreatePullKeeps, PullOpenedKeeps, PermitLandingKeeps, LandingStartsKeeps,
     InspectPullKeeps, MergePullKeeps, LandedKeeps, RememberKeeps, FaultKeeps DEF Step
<1>2. CASE \E h \in Handler : \E k \in Keys["checkpoint"] : StartCheckpoint(h, k)
  BY <1>2, StartCheckpointKeeps
<1>3. CASE \E h \in Handler : \E k \in Keys["deliver"] : StartDeliver(h, k)
  BY <1>3, StartDeliverKeeps
<1>4. CASE \E h \in Handler : \E k \in Keys["land"] : StartLand(h, k)
  BY <1>4, StartLandKeeps
<1>5. CASE UNCHANGED vars
  <2>1. /\ UNCHANGED <<candidate, receipts, approved, policy, head, remote, pulls, ops, spent>>
        /\ Len(pulls) \in Nat
    BY <1>5, InvParts DEF vars, github
  <2>2. DeliveryTypes' /\ PullsOK' /\ MergedIsReviewed'
    BY <2>1 DEF DeliveryInv, DeliveryTypes, PullsOK, MergedIsReviewed
  <2> QED BY <2>1, <2>2, WorldGoesOn
<1> QED BY <1>1, <1>2, <1>3, <1>4, <1>5, OthersKeep DEF Next

LEMMA InitHolds == Init => DeliveryInv
<1> SUFFICES ASSUME Init PROVE DeliveryInv
  OBVIOUS
<1> USE DEF Init
<1>1. candidate \in Candidate /\ candidate.version = 1 /\ candidate.state = "verified"
  BY DEF Candidate, Moves, Nowhere, Commit
<1>2. /\ Len(pulls) = 0 /\ pulls \in Seq(PullRow) /\ receipts = {}
      /\ \A h \in Handler : ops[h] = Idle
  OBVIOUS
<1>3. Idle \notin Request
  BY DEF Idle, Request, Stage
<1>4. DeliveryTypes
  BY <1>1, <1>2 DEF DeliveryTypes
<1> QED BY <1>1, <1>2, <1>3, <1>4
     DEF DeliveryInv, MergedIsReviewed, CandidateIsTrue, PullsOK, Nowhere, Commit

LEMMA DeliveryInvariant == Spec => []DeliveryInv
<1> QED BY InitHolds, StepsKeep, PTL DEF Spec

\* What the harness merges is the recorded pull request at the reviewed commit,
\* and nothing else and never twice (DeliveryOrchestrator.land, mergePullRequest).
THEOREM MergedIsAlwaysReviewed == Spec => []MergedIsReviewed
<1>1. DeliveryInv => MergedIsReviewed
  BY DEF DeliveryInv
<1> QED BY <1>1, DeliveryInvariant, PTL

\* The candidate never says more than Git and GitHub have, whatever crashes
\* between an effect and its record (DeliveryOrchestrator, transition).
THEOREM CandidateIsAlwaysTrue == Spec => []CandidateIsTrue
<1>1. DeliveryInv => CandidateIsTrue
  BY DEF DeliveryInv
<1> QED BY <1>1, DeliveryInvariant, PTL

=============================================================================
