---------------------------- MODULE ReleaseProofs ----------------------------
(***************************************************************************)
(* Theorems about ReleaseCenter, for any number of requests, commands,     *)
(* gates and attempts, and for every length of the observation.            *)
(***************************************************************************)
EXTENDS ReleaseCenter, FiniteSetTheorems, TLAPS

-----------------------------------------------------------------------------
(* The tables.                                                             *)
Attempts == 1 .. MaxAttempts

\* What finalize looks at, as it would be now.
Observed == [row |-> canary, windows |-> windows, events |-> events, verified |-> verified,
             at |-> now]

CanaryTyped ==
    /\ canary.status \in {"draft", "observing", "stopped", "passed"}
    /\ canary.attempt \in Attempts /\ canary.started \in Time /\ canary.version \in Nat \ {0}
    /\ windows \in [Attempts -> Seq(Window)] /\ events \subseteq Event

\* Attempts that were not begun have observed nothing.
Unobserved ==
    \A a \in Attempts :
        a > canary.attempt \/ canary.status = "draft"
            => windows[a] = <<>> /\ EventsOf(events, a) = {}

\* The windows of the attempt leave no gap.
Contiguous ==
    LET ws == windows[canary.attempt]
    IN  /\ ws # <<>> => ws[1].from = canary.started
        /\ \A i \in 2 .. Len(ws) : ws[i].from = ws[i - 1].to

\* What goes wrong stops the attempt.
Alarm ==
    \/ \E i \in 1 .. Len(windows[canary.attempt]) : ~windows[canary.attempt][i].healthy
    \/ \E e \in EventsOf(events, canary.attempt) : e.severe
Stopped == Alarm => canary.status = "stopped"

Passed ==
    canary.status = "passed" =>
        /\ Reportable(Observed)
        /\ canary.report = [windows |-> windows[canary.attempt],
                            events |-> EventsOf(events, canary.attempt)]
CanaryGood == CanaryTyped /\ Unobserved /\ Contiguous /\ Stopped /\ Passed

\* A release carries what it was created from, evaluated for and signed as.
ReleaseGood ==
    /\ release = [status |-> release.status, digest |-> release.digest,
                  version |-> release.version, report |-> release.report]
    /\ release.status \in {"none", "draft", "awaiting_signatures", "approved"}
    /\ release.version \in Nat /\ (release.status = "none" => release.version = 0)
    /\ gates \in GateTable
    /\ release.status # "none" => canary.status = "passed" /\ release.report = canary.report
    /\ release.status \in {"awaiting_signatures", "approved"} =>
         Closed(gates) = Gate /\ release.digest = DigestOf(release.report, gates)
    /\ release.status = "approved" => signature = release.digest

ReceiptsGood ==
    /\ receipts \subseteq Key
    /\ Cardinality(receipts) = canary.version - 1 + release.version
ClockGood == now \in Time /\ verified \subseteq Time
-----------------------------------------------------------------------------
(* The requests.  What a request has read, it read when the row was at      *)
(* least as new as its client had seen it; so if the row still has the      *)
(* version the client saw when it commits, everything the request read is   *)
(* what the tables hold.                                                    *)
AskGood(r) ==
    /\ r.cmd \in Command /\ r.key \in Key
    /\ r.expected \in Nat /\ r.expected <= RowOf(r.cmd).version
    /\ r.cmd.op = "restart" /\ canary.version = r.expected => canary.attempt < MaxAttempts
RowGood(r) ==
    /\ r.row.version \in Nat
    /\ r.expected <= r.row.version /\ r.row.version <= RowOf(r.cmd).version
    /\ r.row.version = RowOf(r.cmd).version => r.row = RowOf(r.cmd)

\* The next aggregate, computed from the Canary there is, with a clock and
\* verifications that may be older.
CanaryBase(v, at) ==
    [row |-> canary, windows |-> windows, events |-> events, verified |-> v, at |-> at]
CanaryNext(cmd, next) ==
    \E v \in SUBSET verified, at \in 0 .. now :
        /\ CanaryAccepts(cmd, CanaryBase(v, at))
        /\ next = [row |-> NewCanary(cmd, CanaryBase(v, at)),
                   windows |-> NewWindows(cmd, CanaryBase(v, at)),
                   events |-> NewEvents(cmd, CanaryBase(v, at))]
ReleaseBase == [row |-> release, gates |-> gates, signature |-> signature, canary |-> canary]
ReleaseNext(cmd, next) ==
    ReleaseAccepts(cmd, ReleaseBase) /\ next = [row |-> NewRelease(cmd, ReleaseBase)]
NextGood(r) ==
    Current(r) => IF OnCanary(r.cmd) THEN CanaryNext(r.cmd, r.next) ELSE ReleaseNext(r.cmd, r.next)

RequestGood(r) ==
    /\ r.pc \in {"idle", "asked", "row", "ready"}
    /\ r.pc # "idle" => AskGood(r)
    /\ r.pc = "row" => RowGood(r)
    /\ r.pc = "ready" => NextGood(r)
RequestsGood == DOMAIN handlers = Handler /\ \A h \in Handler : RequestGood(handlers[h])

ReleaseInv == CanaryGood /\ ReleaseGood /\ ReceiptsGood /\ ClockGood /\ RequestsGood
-----------------------------------------------------------------------------
(* What every step does: versions count the changes of an aggregate, and a  *)
(* passed Canary is final.                                                  *)
CanaryMoves ==
    /\ canary'.version \in Nat /\ canary.version <= canary'.version
    /\ canary'.version = canary.version => UNCHANGED canaryTables
    /\ canary.status = "passed" => UNCHANGED canaryTables
ReleaseMoves ==
    /\ release'.version \in Nat /\ release.version <= release'.version
    /\ release'.version = release.version => UNCHANGED releaseTables
    /\ release'.status = "none" => release.status = "none"
ClockMoves == now' \in Time /\ now <= now' /\ verified \subseteq verified' /\ verified' \subseteq Time
Moves == CanaryMoves /\ ReleaseMoves /\ ClockMoves

LEMMA CommandFields ==
    ASSUME NEW cmd \in Command
    PROVE  /\ cmd.op \in CanaryOps \cup {"create", "gate", "evaluate", "sign"}
           /\ cmd.op = "window" => cmd.from \in Time /\ cmd.to \in Time /\ cmd.healthy \in BOOLEAN
           /\ cmd.op = "event" =>
                cmd.id \in EventId /\ cmd.kind \in {"alert", "other"} /\ cmd.severe \in BOOLEAN
           /\ cmd.op = "gate" => cmd.gate \in Gate /\ cmd.evidence \in Evidence
BY DEF Command, CanaryOps

LEMMA Versions ==
    ASSUME ReleaseInv
    PROVE  /\ canary.version \in Nat \ {0} /\ release.version \in Nat
           /\ now \in Nat /\ now \in Time
           /\ \A cmd : RowOf(cmd).version \in Nat
BY ReleaseAssumption
DEF ReleaseInv, CanaryGood, CanaryTyped, ReleaseGood, ClockGood, Time, RowOf

LEMMA AskKept ==
    ASSUME ReleaseInv, Moves, NEW r, AskGood(r)
    PROVE  AskGood(r)'
<1>1. r.expected \in Nat /\ r.expected <= RowOf(r.cmd).version
  BY DEF AskGood
<1>2. CASE OnCanary(r.cmd)
  <2>1. r.expected <= canary.version
    BY <1>1, <1>2 DEF RowOf
  <2>2. r.expected <= canary'.version
    BY <1>1, <2>1, Versions DEF Moves, CanaryMoves
  <2>3. canary'.version = r.expected => canary' = canary
    BY <1>1, <2>1, Versions DEF Moves, CanaryMoves, canaryTables
  <2> QED
    BY <1>2, <2>2, <2>3 DEF AskGood, RowOf, OnCanary
<1>3. CASE ~OnCanary(r.cmd)
  <2>1. r.expected <= release.version
    BY <1>1, <1>3 DEF RowOf
  <2>2. r.expected <= release'.version
    BY <1>1, <2>1, Versions DEF Moves, ReleaseMoves
  <2>3. r.cmd.op # "restart"
    BY <1>3 DEF OnCanary, CanaryOps
  <2> QED
    BY <1>3, <2>2, <2>3 DEF AskGood, RowOf, OnCanary
<1> QED
  BY <1>2, <1>3

LEMMA RowKept ==
    ASSUME ReleaseInv, Moves, NEW r, AskGood(r), RowGood(r)
    PROVE  RowGood(r)'
<1>1. /\ r.expected \in Nat /\ r.row.version \in Nat
      /\ r.expected <= r.row.version /\ r.row.version <= RowOf(r.cmd).version
      /\ r.row.version = RowOf(r.cmd).version => r.row = RowOf(r.cmd)
  BY DEF AskGood, RowGood
<1>2. CASE OnCanary(r.cmd)
  <2>1. r.row.version <= canary'.version
    BY <1>1, <1>2, Versions DEF Moves, CanaryMoves, RowOf
  <2>2. r.row.version = canary'.version => r.row = canary'
    BY <1>1, <1>2, Versions DEF Moves, CanaryMoves, RowOf, canaryTables
  <2> QED
    BY <1>1, <1>2, <2>1, <2>2 DEF RowGood, RowOf, OnCanary
<1>3. CASE ~OnCanary(r.cmd)
  <2>1. r.row.version <= release'.version
    BY <1>1, <1>3, Versions DEF Moves, ReleaseMoves, RowOf
  <2>2. r.row.version = release'.version => r.row = release'
    BY <1>1, <1>3, Versions DEF Moves, ReleaseMoves, RowOf, releaseTables
  <2> QED
    BY <1>1, <1>3, <2>1, <2>2 DEF RowGood, RowOf, OnCanary
<1> QED
  BY <1>2, <1>3

LEMMA NextKept ==
    ASSUME ReleaseInv, Moves, NEW r, AskGood(r), NextGood(r)
    PROVE  NextGood(r)'
<1>1. r.expected \in Nat /\ r.expected <= RowOf(r.cmd).version
  BY DEF AskGood
<1> SUFFICES ASSUME Current(r)'
             PROVE  IF OnCanary(r.cmd) THEN CanaryNext(r.cmd, r.next)'
                                       ELSE ReleaseNext(r.cmd, r.next)'
  BY DEF NextGood, OnCanary
<1>2. CASE OnCanary(r.cmd)
  <2>1. canary'.version = r.expected
    BY <1>2 DEF Current, RowOf, OnCanary, CanaryOps
  <2>2. canary.version = r.expected
    BY <1>1, <1>2, <2>1, Versions DEF Moves, CanaryMoves, RowOf
  <2>3. canary' = canary /\ windows' = windows /\ events' = events
    BY <2>1, <2>2 DEF Moves, CanaryMoves, canaryTables
  <2>4. CanaryNext(r.cmd, r.next)
    BY <1>2, <2>2 DEF NextGood, Current, RowOf, OnCanary, CanaryOps
  <2>5. PICK v \in SUBSET verified, at \in 0 .. now :
          /\ CanaryAccepts(r.cmd, CanaryBase(v, at))
          /\ r.next = [row |-> NewCanary(r.cmd, CanaryBase(v, at)),
                       windows |-> NewWindows(r.cmd, CanaryBase(v, at)),
                       events |-> NewEvents(r.cmd, CanaryBase(v, at))]
    BY <2>4 DEF CanaryNext
  <2>6. v \in SUBSET verified' /\ at \in 0 .. now'
    BY Versions, ReleaseAssumption DEF Moves, ClockMoves, Time
  <2>7. CanaryBase(v, at)' = CanaryBase(v, at)
    BY <2>3 DEF CanaryBase
  <2>8. CanaryNext(r.cmd, r.next)'
    BY <2>5, <2>6, <2>7 DEF CanaryNext
  <2> QED
    BY <1>2, <2>8
<1>3. CASE ~OnCanary(r.cmd) /\ r.cmd.op = "create"
  <2>1. release.status = "none"
    BY <1>3 DEF Current, Moves, ReleaseMoves
  <2>2. ReleaseNext(r.cmd, r.next)
    BY <1>3, <2>1 DEF NextGood, Current
  <2>3. canary.status = "passed"
    BY <1>3, <2>2 DEF ReleaseNext, ReleaseAccepts, ReleaseBase
  <2>4. canary' = canary
    BY <2>3 DEF Moves, CanaryMoves, canaryTables
  <2> QED
    BY <1>3, <2>2, <2>3, <2>4 DEF ReleaseNext, ReleaseAccepts, ReleaseBase, NewRelease
<1>4. CASE ~OnCanary(r.cmd) /\ r.cmd.op # "create"
  <2>1. release'.version = r.expected
    BY <1>4 DEF Current, RowOf, OnCanary
  <2>2. release.version = r.expected
    BY <1>1, <1>4, <2>1, Versions DEF Moves, ReleaseMoves, RowOf
  <2>3. release' = release /\ gates' = gates /\ signature' = signature
    BY <2>1, <2>2 DEF Moves, ReleaseMoves, releaseTables
  <2>4. ReleaseNext(r.cmd, r.next)
    BY <1>4, <2>2 DEF NextGood, Current, RowOf
  <2> QED
    BY <1>4, <2>3, <2>4 DEF ReleaseNext, ReleaseAccepts, ReleaseBase, NewRelease
<1> QED
  BY <1>2, <1>3, <1>4

LEMMA RequestKept ==
    ASSUME ReleaseInv, Moves, NEW r, RequestGood(r)
    PROVE  RequestGood(r)'
BY AskKept, RowKept, NextKept DEF RequestGood

LEMMA RequestsKept ==
    ASSUME ReleaseInv, Moves, NEW h \in Handler, NEW new, RequestGood(new)',
           handlers' = [handlers EXCEPT ![h] = new]
    PROVE  RequestsGood'
<1>1. DOMAIN handlers' = Handler
  BY DEF ReleaseInv, RequestsGood
<1>2. ASSUME NEW g \in Handler
      PROVE  RequestGood(handlers[g])'
  <2>1. PICK r : r = handlers'[g]
    OBVIOUS
  <2>2. r = new \/ r = handlers[g]
    BY <2>1 DEF ReleaseInv, RequestsGood
  <2>3. RequestGood(r)'
    <3>1. CASE r = new
      BY <3>1
    <3>2. CASE r = handlers[g]
      <4>1. RequestGood(r)
        BY <3>2 DEF ReleaseInv, RequestsGood
      <4> QED
        BY <4>1, RequestKept
    <3> QED
      BY <2>2, <3>1, <3>2
  <2> QED
    BY <2>1, <2>3 DEF RequestGood
<1> QED
  BY <1>1, <1>2 DEF RequestsGood

LEMMA RequestsStill ==
    ASSUME ReleaseInv, Moves, UNCHANGED handlers
    PROVE  RequestsGood'
<1>1. ASSUME NEW g \in Handler
      PROVE  RequestGood(handlers[g])'
  <2>1. PICK r : r = handlers[g]
    OBVIOUS
  <2>2. RequestGood(r)
    BY <2>1 DEF ReleaseInv, RequestsGood
  <2>3. RequestGood(r)'
    BY <2>2, RequestKept
  <2> QED
    BY <2>1, <2>3 DEF RequestGood
<1> QED
  BY <1>1 DEF ReleaseInv, RequestsGood
-----------------------------------------------------------------------------
(* The tables a step leaves alone.                                          *)
LEMMA CanaryStill ==
    ASSUME ReleaseInv, UNCHANGED canaryTables, verified \subseteq verified'
    PROVE  CanaryGood'
<1>1. canary' = canary /\ windows' = windows /\ events' = events
  BY DEF canaryTables
<1>2. CanaryTyped' /\ Unobserved' /\ Contiguous' /\ Stopped'
  BY <1>1
  DEF ReleaseInv, CanaryGood, CanaryTyped, Unobserved, Contiguous, Stopped, Alarm, EventsOf
<1>3. Passed'
  <2> SUFFICES ASSUME canary.status = "passed"
               PROVE  Reportable(Observed)'
    BY <1>1 DEF ReleaseInv, CanaryGood, Passed, EventsOf
  <2>1. Reportable(Observed)
    BY DEF ReleaseInv, CanaryGood, Passed
  <2> QED
    BY <1>1, <2>1 DEF Reportable, Observed, OfAttempt, EventsOf, End
<1> QED
  BY <1>2, <1>3 DEF CanaryGood

LEMMA ReleaseStill ==
    ASSUME ReleaseInv, CanaryMoves, UNCHANGED releaseTables
    PROVE  ReleaseGood'
<1>1. release' = release /\ gates' = gates /\ signature' = signature
  BY DEF releaseTables
<1>2. canary.status = "passed" => canary' = canary
  BY DEF CanaryMoves, canaryTables
<1> QED
  BY <1>1, <1>2 DEF ReleaseInv, ReleaseGood, Closed, DigestOf, GateTable

LEMMA CanaryQuiet ==
    ASSUME ReleaseInv, UNCHANGED canaryTables
    PROVE  CanaryMoves
BY Versions DEF CanaryMoves, canaryTables

LEMMA ReleaseQuiet ==
    ASSUME ReleaseInv, UNCHANGED releaseTables
    PROVE  ReleaseMoves
BY Versions DEF ReleaseMoves, releaseTables

LEMMA ClockQuiet ==
    ASSUME ReleaseInv, UNCHANGED <<now, verified>>
    PROVE  ClockMoves
BY Versions DEF ClockMoves, ReleaseInv, ClockGood

\* A step of the clock, or of nobody.
LEMMA TimeStep ==
    ASSUME ReleaseInv, ClockMoves, UNCHANGED <<canaryTables, releaseTables, handlers, receipts>>
    PROVE  ReleaseInv'
<1>1. Moves
  BY CanaryQuiet, ReleaseQuiet DEF Moves
<1>2. CanaryGood' /\ ReleaseGood' /\ RequestsGood'
  BY <1>1, CanaryStill, ReleaseStill, RequestsStill DEF Moves, ClockMoves
<1>3. ReceiptsGood'
  BY DEF ReleaseInv, ReceiptsGood, canaryTables, releaseTables
<1>4. ClockGood'
  BY DEF ClockMoves, ClockGood
<1> QED
  BY <1>2, <1>3, <1>4 DEF ReleaseInv

\* A step in which a request reads or is answered.
LEMMA QuietStep ==
    ASSUME ReleaseInv, UNCHANGED <<now, canaryTables, verified, releaseTables, receipts>>,
           NEW h \in Handler, NEW new, RequestGood(new), handlers' = [handlers EXCEPT ![h] = new]
    PROVE  ReleaseInv'
<1>1. Moves
  BY CanaryQuiet, ReleaseQuiet, ClockQuiet DEF Moves
<1>2. RequestGood(new)'
  BY <1>1, RequestKept
<1>3. CanaryGood' /\ ReleaseGood' /\ RequestsGood'
  BY <1>1, <1>2, CanaryStill, ReleaseStill, RequestsKept DEF Moves
<1>4. ReceiptsGood' /\ ClockGood'
  BY DEF ReleaseInv, ReceiptsGood, ClockGood, canaryTables, releaseTables
<1> QED
  BY <1>3, <1>4 DEF ReleaseInv

LEMMA AnswerQuiet ==
    ASSUME ReleaseInv, UNCHANGED <<now, canaryTables, verified, releaseTables, receipts>>,
           NEW h \in Handler, Answer(h)
    PROVE  ReleaseInv'
BY QuietStep DEF Answer, RequestGood
-----------------------------------------------------------------------------
LEMMA SendKeeps ==
    ASSUME ReleaseInv, NEW h \in Handler, Send(h)
    PROVE  ReleaseInv'
<1>1. PICK cmd \in Command, key \in Key :
        /\ cmd.op = "restart" => canary.attempt < MaxAttempts
        /\ handlers' = [handlers EXCEPT ![h] =
             [pc |-> "asked", cmd |-> cmd, expected |-> RowOf(cmd).version, key |-> key]]
        /\ UNCHANGED <<now, canaryTables, verified, releaseTables, receipts>>
  BY DEF Send, KeyOf
<1>2. PICK new : new = [pc |-> "asked", cmd |-> cmd, expected |-> RowOf(cmd).version, key |-> key]
  OBVIOUS
<1>3. RequestGood(new)
  BY <1>1, <1>2, Versions DEF RequestGood, AskGood
<1> QED
  BY <1>1, <1>2, <1>3, QuietStep

LEMMA RedeliverKeeps ==
    ASSUME ReleaseInv, NEW h \in Handler, Redeliver(h)
    PROVE  ReleaseInv'
<1>1. PICK g \in Handler :
        /\ handlers[g].pc # "idle"
        /\ handlers' = [handlers EXCEPT ![h] =
             [pc |-> "asked", cmd |-> handlers[g].cmd, expected |-> handlers[g].expected,
              key |-> handlers[g].key]]
        /\ UNCHANGED <<now, canaryTables, verified, releaseTables, receipts>>
  BY DEF Redeliver
<1>2. PICK new : new = [pc |-> "asked", cmd |-> handlers[g].cmd,
                        expected |-> handlers[g].expected, key |-> handlers[g].key]
  OBVIOUS
<1>3. AskGood(handlers[g])
  BY <1>1 DEF ReleaseInv, RequestsGood, RequestGood
<1>4. RequestGood(new)
  BY <1>2, <1>3 DEF RequestGood, AskGood
<1> QED
  BY <1>1, <1>2, <1>4, QuietStep

LEMMA OpenKeeps ==
    ASSUME ReleaseInv, NEW h \in Handler, Open(h)
    PROVE  ReleaseInv'
<1>1. UNCHANGED <<now, canaryTables, verified, releaseTables, receipts>> /\ handlers[h].pc = "asked"
  BY DEF Open
<1>2. CASE handlers[h].key \in receipts
  BY <1>1, <1>2, AnswerQuiet DEF Open
<1>3. CASE handlers[h].key \notin receipts
  <2>1. PICK r : r = handlers[h]
    OBVIOUS
  <2>2. AskGood(r) /\ DOMAIN handlers = Handler
    BY <1>1, <2>1 DEF ReleaseInv, RequestsGood, RequestGood
  <2>3. PICK new : new = [pc |-> "row", cmd |-> r.cmd, expected |-> r.expected, key |-> r.key,
                          row |-> RowOf(r.cmd)]
    OBVIOUS
  <2>4. handlers' = [handlers EXCEPT ![h] = new]
    BY <1>3, <2>1, <2>2, <2>3 DEF Open
  <2>5. AskGood(new)
    BY <2>2, <2>3 DEF AskGood
  <2>6. RowGood(new)
    BY <2>2, <2>3, Versions DEF AskGood, RowGood
  <2>7. RequestGood(new)
    BY <2>3, <2>5, <2>6 DEF RequestGood
  <2> QED
    BY <1>1, <2>4, <2>7, QuietStep
<1> QED
  BY <1>2, <1>3

LEMMA LoadChildrenKeeps ==
    ASSUME ReleaseInv, NEW h \in Handler, LoadChildren(h)
    PROVE  ReleaseInv'
<1>1. /\ UNCHANGED <<now, canaryTables, verified, releaseTables, receipts>>
      /\ handlers[h].pc = "row"
  BY DEF LoadChildren
<1>2. PICK r : r = handlers[h]
  OBVIOUS
<1>3. AskGood(r) /\ RowGood(r)
  BY <1>1, <1>2 DEF ReleaseInv, RequestsGood, RequestGood
<1>4. PICK base : base = Base(r.cmd, r.row)
  OBVIOUS
<1>5. CASE ~Accepts(r.cmd, base)
  BY <1>1, <1>2, <1>4, <1>5, AnswerQuiet DEF LoadChildren
<1>6. CASE Accepts(r.cmd, base)
  <2>1. PICK next : next = IF OnCanary(r.cmd)
                           THEN [row |-> NewCanary(r.cmd, base),
                                 windows |-> NewWindows(r.cmd, base),
                                 events |-> NewEvents(r.cmd, base)]
                           ELSE [row |-> NewRelease(r.cmd, base)]
    OBVIOUS
  <2>2. PICK new : new = [pc |-> "ready", cmd |-> r.cmd, expected |-> r.expected, key |-> r.key,
                          next |-> next]
    OBVIOUS
  <2>3. handlers' = [handlers EXCEPT ![h] = new]
    BY <1>2, <1>4, <1>6, <2>1, <2>2 DEF LoadChildren
  <2>4. AskGood(new)
    BY <1>3, <2>2 DEF AskGood
  <2>5. NextGood(new)
    <3> SUFFICES ASSUME Current(new)
                 PROVE  IF OnCanary(r.cmd) THEN CanaryNext(r.cmd, next) ELSE ReleaseNext(r.cmd, next)
      BY <2>2 DEF NextGood
    <3>1. CASE OnCanary(r.cmd)
      <4>1. canary.version = r.expected
        BY <2>2, <3>1 DEF Current, RowOf, OnCanary, CanaryOps
      <4>2. r.row = canary
        BY <1>3, <3>1, <4>1, Versions DEF AskGood, RowGood, RowOf
      <4>3. base = CanaryBase(verified, now)
        BY <1>4, <3>1, <4>2 DEF Base, CanaryBase
      <4>4. CanaryAccepts(r.cmd, CanaryBase(verified, now))
        BY <1>6, <3>1, <4>3 DEF Accepts
      <4>5. verified \in SUBSET verified /\ now \in 0 .. now
        BY Versions
      <4>6. CanaryNext(r.cmd, next)
        BY <2>1, <3>1, <4>3, <4>4, <4>5 DEF CanaryNext
      <4> QED
        BY <3>1, <4>6
    <3>2. CASE ~OnCanary(r.cmd) /\ r.cmd.op = "create"
      BY <1>4, <1>6, <2>1, <3>2
      DEF Base, Accepts, ReleaseNext, ReleaseAccepts, ReleaseBase, NewRelease
    <3>3. CASE ~OnCanary(r.cmd) /\ r.cmd.op # "create"
      <4>1. release.version = r.expected
        BY <2>2, <3>3 DEF Current, RowOf
      <4>2. r.row = release
        BY <1>3, <3>3, <4>1, Versions DEF AskGood, RowGood, RowOf
      <4>3. base = ReleaseBase
        BY <1>4, <3>3, <4>2 DEF Base, ReleaseBase
      <4> QED
        BY <1>6, <2>1, <3>3, <4>3 DEF Accepts, ReleaseNext
    <3> QED
      BY <3>1, <3>2, <3>3
  <2>6. RequestGood(new)
    BY <2>2, <2>4, <2>5 DEF RequestGood
  <2> QED
    BY <1>1, <2>3, <2>6, QuietStep
<1> QED
  BY <1>5, <1>6
-----------------------------------------------------------------------------
\* One receipt for one version.
LEMMA Counts ==
    ASSUME ReleaseInv, NEW key \in Key, key \notin receipts, receipts' = receipts \cup {key},
           canary'.version \in Nat, release'.version \in Nat,
           canary'.version + release'.version = canary.version + release.version + 1
    PROVE  ReceiptsGood'
<1>1. receipts \subseteq Key /\ Cardinality(receipts) = canary.version - 1 + release.version
  BY DEF ReleaseInv, ReceiptsGood
<1>2. IsFiniteSet(Key)
  BY ReleaseAssumption, FS_Interval DEF Key
<1>3. IsFiniteSet(receipts)
  BY <1>1, <1>2, FS_Subset
<1>4. Cardinality(receipts') = Cardinality(receipts) + 1
  BY <1>3, FS_AddElement
<1>5. receipts' \subseteq Key
  BY <1>1
<1> QED
  BY <1>1, <1>4, <1>5, Versions DEF ReceiptsGood

LEMMA CommitReleaseKeeps ==
    ASSUME ReleaseInv, NEW h \in Handler, CommitRelease(h)
    PROVE  ReleaseInv'
<1>1. PICK r : r = handlers[h]
  OBVIOUS
<1>2. PICK cmd : cmd = r.cmd
  OBVIOUS
<1>3. /\ r.pc = "ready" /\ ~OnCanary(cmd) /\ r.key \notin receipts /\ Current(r)
      /\ release' = r.next.row
      /\ gates' = IF cmd.op = "gate" THEN [gates EXCEPT ![cmd.gate] = cmd.evidence] ELSE gates
      /\ signature' = IF cmd.op = "sign" THEN r.next.row.digest ELSE signature
      /\ receipts' = receipts \cup {r.key}
      /\ Answer(h) /\ UNCHANGED <<now, canaryTables, verified>>
  BY <1>1, <1>2 DEF CommitRelease, Complete
<1>4. AskGood(r) /\ NextGood(r)
  BY <1>1, <1>3 DEF ReleaseInv, RequestsGood, RequestGood
<1>5. ReleaseAccepts(cmd, ReleaseBase) /\ release' = NewRelease(cmd, ReleaseBase)
  BY <1>2, <1>3, <1>4 DEF NextGood, ReleaseNext
<1>6. /\ cmd \in Command /\ r.key \in Key
      /\ cmd.op \in {"create", "gate", "evaluate", "sign"}
      /\ cmd.op = "gate" => cmd.gate \in Gate /\ cmd.evidence \in Evidence
  BY <1>2, <1>3, <1>4, CommandFields DEF AskGood, OnCanary
<1>7. /\ release = [status |-> release.status, digest |-> release.digest,
                    version |-> release.version, report |-> release.report]
      /\ release.version \in Nat /\ gates \in GateTable
      /\ release.status = "none" => release.version = 0
      /\ release.status # "none" => canary.status = "passed" /\ release.report = canary.report
      /\ release.status \in {"awaiting_signatures", "approved"} =>
           Closed(gates) = Gate /\ release.digest = DigestOf(release.report, gates)
  BY DEF ReleaseInv, ReleaseGood
<1>8. canary' = canary
  BY <1>3 DEF canaryTables
<1>9. ReleaseGood' /\ release'.version = release.version + 1 /\ release'.status # "none"
  <2>1. CASE cmd.op = "create"
    <3>1. release.status = "none" /\ canary.status = "passed"
      BY <1>2, <1>3, <1>5, <2>1 DEF Current, ReleaseAccepts, ReleaseBase
    <3>2. release' = [status |-> "draft", digest |-> None, version |-> 1,
                      report |-> canary.report]
      BY <1>5, <2>1 DEF NewRelease, ReleaseBase
    <3>3. gates' = gates
      BY <1>3, <2>1
    <3> QED
      BY <1>7, <1>8, <3>1, <3>2, <3>3 DEF ReleaseGood, GateTable
  <2>2. CASE cmd.op = "gate"
    <3>1. release.status = "draft"
      BY <1>5, <2>2 DEF ReleaseAccepts, ReleaseBase
    <3>2. release' = [status |-> "draft", digest |-> release.digest,
                      version |-> release.version + 1, report |-> release.report]
      BY <1>5, <1>7, <2>2 DEF NewRelease, ReleaseBase
    <3>3. gates' \in GateTable
      BY <1>3, <1>6, <1>7, <2>2 DEF GateTable
    <3> QED
      BY <1>7, <1>8, <3>1, <3>2, <3>3 DEF ReleaseGood, GateTable
  <2>3. CASE cmd.op = "evaluate"
    <3>1. release.status = "draft" /\ Closed(gates) = Gate
      BY <1>5, <2>3 DEF ReleaseAccepts, ReleaseBase
    <3>2. release' = [status |-> "awaiting_signatures",
                      digest |-> DigestOf(release.report, gates),
                      version |-> release.version + 1, report |-> release.report]
      BY <1>5, <1>7, <2>3 DEF NewRelease, ReleaseBase
    <3>3. gates' = gates
      BY <1>3, <2>3
    <3> QED
      BY <1>7, <1>8, <3>1, <3>2, <3>3 DEF ReleaseGood, GateTable, Closed, DigestOf
  <2>4. CASE cmd.op = "sign"
    <3>1. release.status = "awaiting_signatures"
      BY <1>5, <2>4 DEF ReleaseAccepts, ReleaseBase
    <3>2. release' = [status |-> "approved", digest |-> release.digest,
                      version |-> release.version + 1, report |-> release.report]
      BY <1>5, <1>7, <2>4 DEF NewRelease, ReleaseBase
    <3>3. gates' = gates /\ signature' = release'.digest
      BY <1>3, <2>4
    <3> QED
      BY <1>7, <1>8, <3>1, <3>2, <3>3 DEF ReleaseGood, GateTable, Closed, DigestOf
  <2> QED
    BY <1>6, <2>1, <2>2, <2>3, <2>4
<1>10. Moves
  BY <1>3, <1>7, <1>9, CanaryQuiet, ClockQuiet DEF Moves, ReleaseMoves
<1>11. ReceiptsGood'
  BY <1>3, <1>6, <1>7, <1>8, <1>9, Versions, Counts
<1>12. RequestsGood'
  BY <1>3, <1>10, RequestsKept DEF Answer, RequestGood
<1>13. CanaryGood' /\ ClockGood'
  BY <1>3, CanaryStill DEF ReleaseInv, ClockGood
<1> QED
  BY <1>9, <1>11, <1>12, <1>13 DEF ReleaseInv
-----------------------------------------------------------------------------
(* A command on the Canary, applied to the Canary there is.                 *)
CanaryEffect(cmd, c) ==
    /\ CanaryAccepts(cmd, c)
    /\ cmd.op = "restart" => canary.attempt < MaxAttempts
    /\ canary' = NewCanary(cmd, c)
    /\ windows' = [windows EXCEPT ![canary'.attempt] = @ \o NewWindows(cmd, c)]
    /\ events' = {IF Resolves(cmd, canary', e) THEN [e EXCEPT !.resolved = TRUE] ELSE e :
                    e \in events} \cup NewEvents(cmd, c)

\* The new row.
LEMMA CanaryRow ==
    ASSUME ReleaseInv, NEW cmd \in Command, NEW v \in SUBSET verified, NEW at \in 0 .. now,
           CanaryEffect(cmd, CanaryBase(v, at))
    PROVE  /\ canary'.status \in {"observing", "stopped", "passed"}
           /\ canary'.attempt \in Attempts /\ canary'.started \in Time
           /\ canary'.version = canary.version + 1
           /\ canary'.attempt = IF cmd.op = "restart" THEN canary.attempt + 1 ELSE canary.attempt
           /\ canary'.started = IF cmd.op \in {"approve", "restart"} THEN at ELSE canary.started
           /\ canary'.status = IF cmd.op = "finalize" THEN "passed"
                               ELSE IF Stops(cmd) THEN "stopped" ELSE "observing"
           /\ cmd.op = "finalize" =>
                canary'.report = [windows |-> windows[canary.attempt],
                                  events |-> EventsOf(events, canary.attempt)]
<1>1. canary' = NewCanary(cmd, CanaryBase(v, at))
  BY DEF CanaryEffect
<1>2. /\ canary'.version = canary.version + 1
      /\ canary'.attempt = IF cmd.op = "restart" THEN canary.attempt + 1 ELSE canary.attempt
      /\ canary'.started = IF cmd.op \in {"approve", "restart"} THEN at ELSE canary.started
      /\ canary'.status = IF cmd.op = "finalize" THEN "passed"
                          ELSE IF Stops(cmd) THEN "stopped" ELSE "observing"
      /\ cmd.op = "finalize" =>
           canary'.report = [windows |-> windows[canary.attempt],
                             events |-> EventsOf(events, canary.attempt)]
  BY <1>1 DEF NewCanary, CanaryBase, OfAttempt
<1>3. canary.attempt \in Attempts /\ canary.started \in Time
  BY DEF ReleaseInv, CanaryGood, CanaryTyped
<1>4. at \in Time
  BY Versions, ReleaseAssumption DEF Time
<1>5. canary'.attempt \in Attempts
  BY <1>2, <1>3, ReleaseAssumption DEF CanaryEffect, Attempts
<1> QED
  BY <1>2, <1>3, <1>4, <1>5

LEMMA WindowsAsBefore ==
    ASSUME ReleaseInv, NEW cmd \in Command, NEW v \in SUBSET verified, NEW at \in 0 .. now,
           CanaryEffect(cmd, CanaryBase(v, at)), cmd.op # "window"
    PROVE  windows' = windows
<1>1. NewWindows(cmd, CanaryBase(v, at)) = <<>>
  BY DEF NewWindows
<1>2. canary'.attempt \in Attempts /\ windows \in [Attempts -> Seq(Window)]
  BY CanaryRow DEF ReleaseInv, CanaryGood, CanaryTyped
<1>3. windows[canary'.attempt] \o <<>> = windows[canary'.attempt]
  BY <1>2
<1>4. windows' = [windows EXCEPT ![canary'.attempt] = windows[canary'.attempt] \o <<>>]
  BY <1>1, <1>2 DEF CanaryEffect
<1> QED
  BY <1>2, <1>3, <1>4

LEMMA EventsAsBefore ==
    ASSUME ReleaseInv, NEW cmd \in Command, NEW v \in SUBSET verified, NEW at \in 0 .. now,
           CanaryEffect(cmd, CanaryBase(v, at)), cmd.op \notin {"event", "resolve"}
    PROVE  events' = events
<1>1. NewEvents(cmd, CanaryBase(v, at)) = {}
  BY DEF NewEvents
<1>2. \A e \in events : ~Resolves(cmd, canary', e)
  BY DEF Resolves
<1> QED
  BY <1>1, <1>2 DEF CanaryEffect

\* An attempt begins with nothing observed.
LEMMA BeginKeeps ==
    ASSUME ReleaseInv, NEW cmd \in Command, NEW v \in SUBSET verified, NEW at \in 0 .. now,
           CanaryEffect(cmd, CanaryBase(v, at)), cmd.op \in {"approve", "restart"}
    PROVE  CanaryGood'
<1>1. windows' = windows /\ events' = events
  BY WindowsAsBefore, EventsAsBefore
<1>2. /\ canary'.status = "observing" /\ canary'.attempt \in Attempts
      /\ canary'.started \in Time /\ canary'.version \in Nat \ {0}
      /\ canary'.attempt = IF cmd.op = "restart" THEN canary.attempt + 1 ELSE canary.attempt
  BY CanaryRow, Versions DEF Stops
<1>3. canary.attempt \in Attempts /\ (cmd.op = "approve" => canary.status = "draft")
  BY DEF CanaryEffect, CanaryAccepts, CanaryBase, ReleaseInv, CanaryGood, CanaryTyped
<1>4. \A a \in Attempts :
        a > canary'.attempt => windows[a] = <<>> /\ EventsOf(events, a) = {}
  BY <1>2, <1>3, ReleaseAssumption DEF ReleaseInv, CanaryGood, Unobserved, Attempts
<1>5. windows[canary'.attempt] = <<>> /\ EventsOf(events, canary'.attempt) = {}
  BY <1>2, <1>3, ReleaseAssumption DEF ReleaseInv, CanaryGood, Unobserved, Attempts
<1>6. CanaryTyped'
  BY <1>1, <1>2 DEF ReleaseInv, CanaryGood, CanaryTyped
<1>7. Unobserved'
  BY <1>1, <1>2, <1>4 DEF Unobserved, EventsOf
<1>8. Contiguous' /\ Stopped'
  BY <1>1, <1>5 DEF Contiguous, Stopped, Alarm, EventsOf
<1>9. Passed'
  BY <1>2 DEF Passed
<1> QED
  BY <1>6, <1>7, <1>8, <1>9 DEF CanaryGood

\* A window begins where the last one ended.
LEMMA WindowKeeps ==
    ASSUME ReleaseInv, NEW cmd \in Command, NEW v \in SUBSET verified, NEW at \in 0 .. now,
           CanaryEffect(cmd, CanaryBase(v, at)), cmd.op = "window"
    PROVE  CanaryGood'
<1>1. events' = events
  BY EventsAsBefore
<1>2. PICK a : a = canary.attempt
  OBVIOUS
<1>3. PICK ws : ws = windows[a]
  OBVIOUS
<1>4. PICK w : w = [from |-> cmd.from, to |-> cmd.to, healthy |-> cmd.healthy]
  OBVIOUS
<1>5. /\ canary.status = "observing"
      /\ cmd.from = ExpectedStart(CanaryBase(v, at)) /\ cmd.to - cmd.from \in 1 .. Hour
  BY DEF CanaryEffect, CanaryAccepts, WindowFits, CanaryBase
<1>6. /\ a \in Attempts /\ windows \in [Attempts -> Seq(Window)] /\ events \subseteq Event
      /\ canary.started \in Time
  BY <1>2 DEF ReleaseInv, CanaryGood, CanaryTyped
<1>7. ws \in Seq(Window)
  BY <1>3, <1>6
<1>8. w \in Window /\ w.healthy = cmd.healthy
  BY <1>4, <1>5, CommandFields DEF Window
<1>9. w.from = IF ws = <<>> THEN canary.started ELSE ws[Len(ws)].to
  BY <1>2, <1>3, <1>4, <1>5 DEF ExpectedStart, CanaryBase, OfAttempt, End
<1>10. /\ canary'.attempt = a /\ canary'.started = canary.started
       /\ canary'.status = IF cmd.healthy THEN "observing" ELSE "stopped"
       /\ canary'.version \in Nat \ {0}
  BY <1>2, CanaryRow, Versions, CommandFields DEF Stops
<1>11. NewWindows(cmd, CanaryBase(v, at)) = <<w>>
  BY <1>4 DEF NewWindows
<1>12. windows' = [windows EXCEPT ![a] = ws \o <<w>>]
  BY <1>3, <1>6, <1>10, <1>11 DEF CanaryEffect
<1>13. PICK new : new = ws \o <<w>>
  OBVIOUS
<1>14. /\ new \in Seq(Window) /\ Len(new) = Len(ws) + 1 /\ new[Len(ws) + 1] = w
       /\ \A i \in 1 .. Len(ws) : new[i] = ws[i]
       /\ Len(ws) \in Nat
  BY <1>7, <1>8, <1>13
<1>15. windows' \in [Attempts -> Seq(Window)] /\ windows'[a] = new
       /\ \A b \in Attempts : b # a => windows'[b] = windows[b]
  BY <1>6, <1>12, <1>13, <1>14
<1>16. CanaryTyped'
  BY <1>1, <1>6, <1>10, <1>15 DEF CanaryTyped
<1>17. Unobserved'
  <2> SUFFICES ASSUME NEW b \in Attempts, b > a
               PROVE  windows'[b] = <<>> /\ EventsOf(events, b) = {}
    BY <1>1, <1>10 DEF Unobserved, EventsOf
  <2>1. windows[b] = <<>> /\ EventsOf(events, b) = {}
    BY <1>2 DEF ReleaseInv, CanaryGood, Unobserved
  <2>2. b # a
    BY <1>6, ReleaseAssumption DEF Attempts
  <2> QED
    BY <1>15, <2>1, <2>2
<1>18. Contiguous'
  <2>1. /\ ws # <<>> => ws[1].from = canary.started
        /\ \A i \in 2 .. Len(ws) : ws[i].from = ws[i - 1].to
    BY <1>2, <1>3 DEF ReleaseInv, CanaryGood, Contiguous
  <2>2. new[1].from = canary.started
    <3>1. CASE ws = <<>>
      BY <1>9, <1>14, <3>1
    <3>2. CASE ws # <<>>
      BY <1>7, <1>14, <2>1, <3>2
    <3> QED
      BY <3>1, <3>2
  <2>3. ASSUME NEW i \in 2 .. Len(new)
        PROVE  new[i].from = new[i - 1].to
    <3>1. CASE i \in 2 .. Len(ws)
      <4>1. new[i] = ws[i] /\ new[i - 1] = ws[i - 1]
        BY <1>14, <3>1
      <4> QED
        BY <2>1, <3>1, <4>1
    <3>2. CASE i = Len(ws) + 1
      <4>1. ws # <<>> /\ new[i] = w /\ new[i - 1] = ws[Len(ws)]
        BY <1>14, <3>2
      <4> QED
        BY <1>9, <4>1
    <3> QED
      BY <1>14, <3>1, <3>2
  <2> QED
    BY <1>10, <1>15, <2>2, <2>3 DEF Contiguous
<1>19. Stopped'
  <2>1. ~Alarm
    BY <1>5 DEF ReleaseInv, CanaryGood, Stopped
  <2>2. \A i \in 1 .. Len(ws) : ws[i].healthy
    BY <1>2, <1>3, <2>1 DEF Alarm
  <2>3. \A e \in EventsOf(events, a) : ~e.severe
    BY <1>2, <2>1 DEF Alarm
  <2>4. ASSUME cmd.healthy, NEW i \in 1 .. Len(new)
        PROVE  new[i].healthy
    <3>1. CASE i \in 1 .. Len(ws)
      BY <1>14, <2>2, <3>1
    <3>2. CASE i = Len(ws) + 1
      BY <1>8, <1>14, <2>4, <3>2
    <3> QED
      BY <1>14, <3>1, <3>2
  <2> QED
    BY <1>1, <1>10, <1>15, <2>3, <2>4 DEF Stopped, Alarm, EventsOf
<1>20. Passed'
  BY <1>10 DEF Passed
<1> QED
  BY <1>16, <1>17, <1>18, <1>19, <1>20 DEF CanaryGood

\* An event is added, or one is marked as resolved.
LEMMA EventKeeps ==
    ASSUME ReleaseInv, NEW cmd \in Command, NEW v \in SUBSET verified, NEW at \in 0 .. now,
           CanaryEffect(cmd, CanaryBase(v, at)), cmd.op \in {"event", "resolve"}
    PROVE  CanaryGood'
<1>1. windows' = windows
  BY WindowsAsBefore
<1>2. canary.status = "observing"
  BY DEF CanaryEffect, CanaryAccepts, CanaryBase
<1>3. /\ canary.attempt \in Attempts /\ windows \in [Attempts -> Seq(Window)]
      /\ events \subseteq Event /\ canary.started \in Time
  BY DEF ReleaseInv, CanaryGood, CanaryTyped
<1>4. /\ canary'.attempt = canary.attempt /\ canary'.started = canary.started
      /\ canary'.status = IF cmd.op = "event" /\ cmd.severe THEN "stopped" ELSE "observing"
      /\ canary'.version \in Nat \ {0}
  BY CanaryRow, Versions DEF Stops
<1>5. \A e \in NewEvents(cmd, CanaryBase(v, at)) :
        /\ e \in Event /\ e.attempt = canary.attempt /\ cmd.op = "event"
        /\ e.severe = cmd.severe
  <2> TAKE e \in NewEvents(cmd, CanaryBase(v, at))
  <2>1. /\ cmd.op = "event"
        /\ e = [attempt |-> canary.attempt, id |-> cmd.id, kind |-> cmd.kind,
                severe |-> cmd.severe, resolved |-> FALSE]
    BY DEF NewEvents, CanaryBase
  <2>2. /\ cmd.id \in EventId /\ cmd.kind \in {"alert", "other"} /\ cmd.severe \in BOOLEAN
        /\ canary.attempt \in 1 .. MaxAttempts
    BY <1>3, <2>1, CommandFields DEF Attempts
  <2>3. e \in Event
    BY <2>1, <2>2 DEF Event
  <2> QED
    BY <2>1, <2>3
<1>6. ASSUME NEW e \in events'
      PROVE  /\ e \in Event
             /\ \/ e \in NewEvents(cmd, CanaryBase(v, at))
                \/ \E f \in events : e.attempt = f.attempt /\ e.severe = f.severe
  <2>1. CASE e \in NewEvents(cmd, CanaryBase(v, at))
    BY <1>5, <2>1
  <2>2. CASE \E f \in events :
               e = IF Resolves(cmd, canary', f) THEN [f EXCEPT !.resolved = TRUE] ELSE f
    <3>1. PICK f \in events :
            e = IF Resolves(cmd, canary', f) THEN [f EXCEPT !.resolved = TRUE] ELSE f
      BY <2>2
    <3>2. f \in Event
      BY <1>3
    <3>3. CASE e = f
      BY <3>2, <3>3
    <3>4. CASE e = [f EXCEPT !.resolved = TRUE]
      <4>1. e \in Event /\ e.attempt = f.attempt /\ e.severe = f.severe
        BY <3>2, <3>4 DEF Event
      <4> QED
        BY <4>1
    <3> QED
      BY <3>1, <3>3, <3>4
  <2> QED
    BY <2>1, <2>2 DEF CanaryEffect
<1>7. CanaryTyped'
  BY <1>1, <1>3, <1>4, <1>6 DEF CanaryTyped
<1>8. Unobserved'
  <2> SUFFICES ASSUME NEW b \in Attempts, b > canary.attempt
               PROVE  windows[b] = <<>> /\ \A e \in events' : e.attempt # b
    BY <1>1, <1>4 DEF Unobserved, EventsOf
  <2>1. windows[b] = <<>> /\ \A f \in events : f.attempt # b
    BY DEF ReleaseInv, CanaryGood, Unobserved, EventsOf
  <2>2. b # canary.attempt
    BY <1>3, ReleaseAssumption DEF Attempts
  <2> QED
    BY <1>5, <1>6, <2>1, <2>2
<1>9. Contiguous'
  BY <1>1, <1>4 DEF ReleaseInv, CanaryGood, Contiguous
<1>10. Stopped'
  <2> SUFFICES ASSUME canary'.status # "stopped"
               PROVE  ~Alarm'
    BY DEF Stopped
  <2>1. ~Alarm
    BY <1>2 DEF ReleaseInv, CanaryGood, Stopped
  <2>2. ~(cmd.op = "event" /\ cmd.severe)
    BY <1>4
  <2>3. \A e \in events' : e.attempt = canary.attempt => ~e.severe
    BY <1>5, <1>6, <2>1, <2>2 DEF Alarm, EventsOf
  <2>4. \A i \in 1 .. Len(windows[canary.attempt]) : windows[canary.attempt][i].healthy
    BY <2>1 DEF Alarm
  <2> QED
    BY <1>1, <1>4, <2>3, <2>4 DEF Alarm, EventsOf
<1>11. Passed'
  BY <1>4 DEF Passed
<1> QED
  BY <1>7, <1>8, <1>9, <1>10, <1>11 DEF CanaryGood

\* The report is about the windows and events of the tables.
LEMMA FinalizeKeeps ==
    ASSUME ReleaseInv, NEW cmd \in Command, NEW v \in SUBSET verified, NEW at \in 0 .. now,
           CanaryEffect(cmd, CanaryBase(v, at)), cmd.op = "finalize", verified' = verified
    PROVE  CanaryGood'
<1>1. windows' = windows /\ events' = events
  BY WindowsAsBefore, EventsAsBefore
<1>2. canary.status = "observing" /\ Reportable(CanaryBase(v, at))
  BY DEF CanaryEffect, CanaryAccepts, CanaryBase
<1>3. /\ canary'.attempt = canary.attempt /\ canary'.started = canary.started
      /\ canary'.status = "passed" /\ canary'.version \in Nat \ {0}
      /\ canary'.report = [windows |-> windows[canary.attempt],
                           events |-> EventsOf(events, canary.attempt)]
  BY CanaryRow, Versions
<1>4. CanaryTyped' /\ Unobserved' /\ Contiguous'
  BY <1>1, <1>2, <1>3
  DEF ReleaseInv, CanaryGood, CanaryTyped, Unobserved, Contiguous, EventsOf
<1>5. Stopped'
  <2>1. ~Alarm
    BY <1>2 DEF ReleaseInv, CanaryGood, Stopped
  <2> QED
    BY <1>1, <1>3, <2>1 DEF Stopped, Alarm, EventsOf
<1>6. Reportable(Observed)'
  BY <1>1, <1>2, <1>3 DEF Reportable, CanaryBase, Observed, OfAttempt, EventsOf, End
<1>7. Passed'
  BY <1>1, <1>3, <1>6 DEF Passed, EventsOf
<1> QED
  BY <1>4, <1>5, <1>7 DEF CanaryGood

LEMMA CommitCanaryKeeps ==
    ASSUME ReleaseInv, NEW h \in Handler, CommitCanary(h)
    PROVE  ReleaseInv'
<1>1. PICK r : r = handlers[h]
  OBVIOUS
<1>2. PICK cmd : cmd = r.cmd
  OBVIOUS
<1>3. /\ r.pc = "ready" /\ OnCanary(cmd) /\ r.key \notin receipts /\ Current(r)
      /\ canary' = r.next.row
      /\ windows' = [windows EXCEPT ![r.next.row.attempt] = @ \o r.next.windows]
      /\ events' = {IF Resolves(cmd, r.next.row, e) THEN [e EXCEPT !.resolved = TRUE] ELSE e :
                      e \in events} \cup r.next.events
      /\ receipts' = receipts \cup {r.key}
      /\ Answer(h) /\ UNCHANGED <<now, verified, releaseTables>>
  BY <1>1, <1>2 DEF CommitCanary, Complete
<1>4. AskGood(r) /\ NextGood(r)
  BY <1>1, <1>3 DEF ReleaseInv, RequestsGood, RequestGood
<1>5. cmd \in Command /\ r.key \in Key /\ cmd.op \in CanaryOps
  BY <1>2, <1>3, <1>4 DEF AskGood, OnCanary
<1>6. canary.version = r.expected
  BY <1>2, <1>3, <1>5 DEF Current, RowOf, OnCanary, CanaryOps
<1>7. cmd.op = "restart" => canary.attempt < MaxAttempts
  BY <1>2, <1>4, <1>6 DEF AskGood
<1>8. PICK v \in SUBSET verified, at \in 0 .. now :
        /\ CanaryAccepts(cmd, CanaryBase(v, at))
        /\ r.next = [row |-> NewCanary(cmd, CanaryBase(v, at)),
                     windows |-> NewWindows(cmd, CanaryBase(v, at)),
                     events |-> NewEvents(cmd, CanaryBase(v, at))]
  BY <1>2, <1>3, <1>4 DEF NextGood, CanaryNext
<1>9. CanaryEffect(cmd, CanaryBase(v, at))
  BY <1>3, <1>7, <1>8 DEF CanaryEffect
<1>10. CanaryGood'
  BY <1>3, <1>5, <1>9, BeginKeeps, WindowKeeps, EventKeeps, FinalizeKeeps DEF CanaryOps
<1>11. canary'.version = canary.version + 1
  BY <1>5, <1>9, CanaryRow
<1>12. canary.status # "passed"
  BY <1>8 DEF CanaryAccepts, CanaryBase
<1>13. Moves
  BY <1>3, <1>11, <1>12, Versions, ReleaseQuiet, ClockQuiet DEF Moves, CanaryMoves
<1>14. ReceiptsGood'
  <2>1. release' = release
    BY <1>3 DEF releaseTables
  <2> QED
    BY <1>3, <1>5, <1>11, <2>1, Versions, Counts
<1>15. RequestsGood'
  BY <1>3, <1>13, RequestsKept DEF Answer, RequestGood
<1>16. ReleaseGood' /\ ClockGood'
  BY <1>3, <1>13, ReleaseStill DEF Moves, ReleaseInv, ClockGood
<1> QED
  BY <1>10, <1>14, <1>15, <1>16 DEF ReleaseInv
-----------------------------------------------------------------------------
LEMMA ReleaseInvInit ==
    ASSUME Init
    PROVE  ReleaseInv
<1>1. CanaryGood
  <2>1. CanaryTyped
    BY ReleaseAssumption DEF Init, CanaryTyped, Attempts, Time
  <2>2. Unobserved /\ Contiguous /\ Stopped /\ Passed
    BY ReleaseAssumption
    DEF Init, Unobserved, Contiguous, Stopped, Passed, Alarm, EventsOf, Attempts
  <2> QED
    BY <2>1, <2>2 DEF CanaryGood
<1>2. ReleaseGood
  BY DEF Init, ReleaseGood, GateTable
<1>3. ReceiptsGood
  BY FS_EmptySet DEF Init, ReceiptsGood
<1>4. ClockGood
  BY ReleaseAssumption DEF Init, ClockGood, Time
<1>5. RequestsGood
  BY DEF Init, RequestsGood, RequestGood
<1> QED
  BY <1>1, <1>2, <1>3, <1>4, <1>5 DEF ReleaseInv

LEMMA ReleaseInvStep ==
    ASSUME ReleaseInv, [Next]_vars
    PROVE  ReleaseInv'
<1>1. CASE Tick
  <2>1. ClockMoves
    BY <1>1, Versions, ReleaseAssumption DEF Tick, ClockMoves, Time, ReleaseInv, ClockGood
  <2> QED
    BY <1>1, <2>1, TimeStep DEF Tick
<1>2. CASE Verify
  <2>1. ClockMoves
    BY <1>2, Versions DEF Verify, ClockMoves, ReleaseInv, ClockGood
  <2> QED
    BY <1>2, <2>1, TimeStep DEF Verify
<1>3. ASSUME NEW h \in Handler, CommitNothing(h)
      PROVE  ReleaseInv'
  BY <1>3, AnswerQuiet DEF CommitNothing
<1>4. ASSUME NEW h \in Handler, Send(h) \/ Redeliver(h) \/ Open(h) \/ LoadChildren(h)
      PROVE  ReleaseInv'
  BY <1>4, SendKeeps, RedeliverKeeps, OpenKeeps, LoadChildrenKeeps
<1>5. ASSUME NEW h \in Handler, CommitCanary(h) \/ CommitRelease(h)
      PROVE  ReleaseInv'
  BY <1>5, CommitCanaryKeeps, CommitReleaseKeeps
<1>6. CASE UNCHANGED vars
  <2>1. UNCHANGED <<now, verified, handlers, receipts>> /\ UNCHANGED <<canaryTables, releaseTables>>
    BY <1>6 DEF vars, canaryTables, releaseTables
  <2> QED
    BY <2>1, ClockQuiet, TimeStep
<1> QED
  BY <1>1, <1>2, <1>3, <1>4, <1>5, <1>6 DEF Next

THEOREM ReleaseIsSound == Spec => []ReleaseInv
<1>1. Init => ReleaseInv
  BY ReleaseInvInit
<1>2. ReleaseInv /\ [Next]_vars => ReleaseInv'
  BY ReleaseInvStep
<1> QED
  BY <1>1, <1>2, PTL DEF Spec
-----------------------------------------------------------------------------
(* A Canary that passed was observed without a gap for the required time,   *)
(* and what went wrong in an attempt stopped it, whatever commands raced    *)
(* (recordWindow, recordEvent, finalize, commitCanary).                     *)
THEOREM PassedAlwaysMeansObserved == Spec => []PassedMeansObserved
<1>1. ReleaseInv => PassedMeansObserved
  <2> SUFFICES ASSUME ReleaseInv
               PROVE  PassedMeansObserved
    OBVIOUS
  <2>1. TypeOK
    BY DEF TypeOK, ReleaseInv, CanaryGood, CanaryTyped, Attempts, ReleaseGood, ReceiptsGood,
           ClockGood
  <2>2. PICK ws : ws = windows[canary.attempt]
    OBVIOUS
  <2>3. ws \in Seq(Window)
    BY <2>2 DEF ReleaseInv, CanaryGood, CanaryTyped
  <2>4. Contiguous /\ Stopped /\ Passed
    BY DEF ReleaseInv, CanaryGood
  <2>5. ASSUME canary.status = "passed"
        PROVE  /\ Len(ws) >= RequiredHours
               /\ End(ws) - canary.started >= RequiredHours * Hour
               /\ ws[1].from = canary.started
               /\ \A i \in 2 .. Len(ws) : ws[i].from = ws[i - 1].to
               /\ \A i \in 1 .. Len(ws) : ws[i].healthy
               /\ \A e \in EventsOf(events, canary.attempt) :
                    ~e.severe /\ (e.kind = "alert" => e.resolved)
               /\ \E v \in verified : canary.started <= v /\ v <= End(ws)
               /\ canary.report = [windows |-> ws, events |-> EventsOf(events, canary.attempt)]
    <3>1. Reportable(Observed)
      BY <2>4, <2>5 DEF Passed
    <3>2. /\ Len(ws) >= RequiredHours
          /\ End(ws) - canary.started >= RequiredHours * Hour
          /\ \A i \in DOMAIN ws : ws[i].healthy
          /\ \A e \in EventsOf(events, canary.attempt) :
               ~e.severe /\ (e.kind = "alert" => e.resolved)
          /\ \E v \in verified : canary.started <= v /\ v <= End(ws)
      BY <2>2, <3>1 DEF Reportable, Observed, OfAttempt
    <3>3. ws # <<>>
      BY <2>3, <3>2, ReleaseAssumption
    <3>4. ws[1].from = canary.started /\ \A i \in 2 .. Len(ws) : ws[i].from = ws[i - 1].to
      BY <2>2, <2>4, <3>3 DEF Contiguous
    <3>5. canary.report = [windows |-> ws, events |-> EventsOf(events, canary.attempt)]
      BY <2>2, <2>4, <2>5 DEF Passed
    <3> QED
      BY <2>3, <3>2, <3>4, <3>5
  <2>6. (\E i \in 1 .. Len(ws) : ~ws[i].healthy)
          \/ (\E e \in EventsOf(events, canary.attempt) : e.severe)
        => canary.status = "stopped"
    BY <2>2, <2>4 DEF Stopped, Alarm
  <2> QED
    BY <2>1, <2>2, <2>5, <2>6 DEF PassedMeansObserved, OfAttempt
<1> QED
  BY <1>1, ReleaseIsSound, PTL

(* However often a command is delivered, it takes effect once: receipts and *)
(* versions count the same changes (findReplay, commitCanary,               *)
(* commitRelease).                                                          *)
THEOREM CommandsTakeEffectOnce == Spec => []CommandOnce
<1>1. ReleaseInv => CommandOnce
  BY DEF ReleaseInv, ReceiptsGood, CommandOnce
<1> QED
  BY <1>1, ReleaseIsSound, PTL

(* What the owner signed is what was evaluated: an approved release carries *)
(* the report of a passed Canary and the signature over its closed gates    *)
(* (evaluate, sign, commitRelease).                                         *)
THEOREM ApprovedIsAlwaysAttested == Spec => []ApprovedIsAttested
<1>1. ReleaseInv => ApprovedIsAttested
  BY DEF ReleaseInv, ReleaseGood, ApprovedIsAttested
<1> QED
  BY <1>1, ReleaseIsSound, PTL
=============================================================================
