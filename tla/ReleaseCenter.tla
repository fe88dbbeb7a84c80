---------------------------- MODULE ReleaseCenter ----------------------------
(***************************************************************************)
(* The release center: the Canary of a candidate and the Production        *)
(* release that is created from it.  Each HTTP command is a handler that   *)
(* looks for the receipt of its idempotency key, reads the aggregate in    *)
(* two steps (the row, then its windows and events, or gates and           *)
(* signature), computes the next aggregate and commits it in one           *)
(* transaction that compares the row's version with the version the client *)
(* expected.  A client may send a command again, before or after it was    *)
(* answered.                                                               *)
(***************************************************************************)
EXTENDS Integers, Sequences, FiniteSets

CONSTANTS
    Handler,        \* requests served at one time
    Gate,           \* P12_PRODUCTION_GATE_IDS
    Evidence,       \* evidence references of a gate
    EventId,
    None,
    Hour,           \* the longest window
    RequiredHours,  \* P12_CANARY_MINIMUM_HOURS
    MaxTime,        \* bound of the clock
    MaxCanaryCommands,   \* bounds: commands that clients issue
    MaxReleaseCommands,
    MaxAttempts     \* bound: attempts of the Canary

ASSUME ReleaseAssumption ==
    /\ None \notin Evidence
    /\ {Hour, RequiredHours, MaxAttempts} \subseteq Nat \ {0}
    /\ {MaxTime, MaxCanaryCommands, MaxReleaseCommands} \subseteq Nat

VARIABLES
    now,
    canary,     \* the row of release_canaries
    windows,    \* release_canary_windows, by attempt, by sequence
    events,     \* release_canary_events
    verified,   \* times of passed goal verifications
    release,    \* the row of production_releases
    gates,      \* production_gate_checks
    signature,  \* the digest that the owner signed
    handlers,
    receipts    \* completed idempotency keys

vars == <<now, canary, windows, events, verified, release, gates, signature, handlers, receipts>>
canaryTables == <<canary, windows, events>>
releaseTables == <<release, gates, signature>>
-----------------------------------------------------------------------------
Time == 0 .. MaxTime
Key == 1 .. MaxCanaryCommands + MaxReleaseCommands
\* The table checks that a window is not empty and at most an hour long.
Window == {w \in [from : Time, to : Time, healthy : BOOLEAN] : w.to - w.from \in 1 .. Hour}
\* severe: P0 or P1.  "other" stands for a defect, for an intervention, which carries no
\* severity and stops nothing, and for an alert that is recorded as resolved.
Event == [attempt : 1 .. MaxAttempts, id : EventId, kind : {"alert", "other"},
          severe : BOOLEAN, resolved : BOOLEAN]
GateTable == [Gate -> Evidence \cup {None}]
Closed(table) == {g \in Gate : table[g] # None}

Init ==
    /\ now = 0 /\ verified = {}
    /\ canary = [status |-> "draft", attempt |-> 1, started |-> 0, version |-> 1, report |-> None]
    /\ windows = [a \in 1 .. MaxAttempts |-> <<>>] /\ events = {}
    /\ release = [status |-> "none", digest |-> None, version |-> 0, report |-> None]
    /\ gates = [g \in Gate |-> None] /\ signature = None
    /\ handlers = [h \in Handler |-> [pc |-> "idle"]]
    /\ receipts = {}

OfAttempt(table, a) == table[a]
EventsOf(set, a) == {e \in set : e.attempt = a}
End(ws) == ws[Len(ws)].to
-----------------------------------------------------------------------------
(* domain.ts: what a command makes of the aggregate it was given, c (row,   *)
(* windows, events, the clock), and whether it accepts it.                  *)
ExpectedStart(c) ==
    LET ws == OfAttempt(c.windows, c.row.attempt)
    IN  IF ws = <<>> THEN c.row.started ELSE End(ws)

\* validateP12CanaryReport, over the current attempt.
\* Mutant of Reportable: alerts of the observation may be open.
ReportableMutant(c) ==
    LET ws == OfAttempt(c.windows, c.row.attempt)
    IN  /\ Len(ws) >= RequiredHours
        /\ End(ws) - c.row.started >= RequiredHours * Hour
        /\ \A i \in DOMAIN ws : ws[i].healthy
        /\ \A e \in EventsOf(c.events, c.row.attempt) : ~e.severe
        /\ \E v \in c.verified : c.row.started <= v /\ v <= End(ws)
Reportable(c) ==
    LET ws == OfAttempt(c.windows, c.row.attempt)
    IN  /\ Len(ws) >= RequiredHours
        /\ End(ws) - c.row.started >= RequiredHours * Hour
        /\ \A i \in DOMAIN ws : ws[i].healthy
        /\ \A e \in EventsOf(c.events, c.row.attempt) :
             /\ ~e.severe
             /\ e.kind = "alert" => e.resolved
        /\ \E v \in c.verified : c.row.started <= v /\ v <= End(ws)

Stops(cmd) == \/ cmd.op = "window" /\ ~cmd.healthy
              \/ cmd.op = "event" /\ cmd.severe

WindowFits(cmd, c) == /\ cmd.from = ExpectedStart(c)
                      /\ cmd.to - cmd.from \in 1 .. Hour
                      /\ cmd.to <= c.at

CanaryAccepts(cmd, c) ==
    LET observing == c.row.status = "observing"
        here == EventsOf(c.events, c.row.attempt)
    IN  \/ cmd.op = "approve" /\ c.row.status = "draft"
        \/ cmd.op = "restart" /\ c.row.status = "stopped"
        \/ cmd.op = "window" /\ observing /\ WindowFits(cmd, c)
        \/ cmd.op = "event" /\ observing /\ ~\E e \in here : e.id = cmd.id
        \/ cmd.op = "resolve" /\ observing /\ \E e \in here : e.id = cmd.id /\ e.kind = "alert"
        \/ cmd.op = "finalize" /\ observing /\ Reportable(c)

NewWindows(cmd, c) ==
    IF cmd.op = "window"
    THEN <<[from |-> cmd.from, to |-> cmd.to, healthy |-> cmd.healthy]>>
    ELSE <<>>
NewEvents(cmd, c) ==
    IF cmd.op = "event"
    THEN {[attempt |-> c.row.attempt, id |-> cmd.id, kind |-> cmd.kind, severe |-> cmd.severe,
           resolved |-> FALSE]}
    ELSE {}
Resolves(cmd, row, e) == cmd.op = "resolve" /\ e.attempt = row.attempt /\ e.id = cmd.id
NewCanary(cmd, c) ==
    LET begins == cmd.op \in {"approve", "restart"}
    IN  [status |-> IF cmd.op = "finalize" THEN "passed"
                    ELSE IF Stops(cmd) THEN "stopped" ELSE "observing",
         attempt |-> IF cmd.op = "restart" THEN c.row.attempt + 1 ELSE c.row.attempt,
         started |-> IF begins THEN c.at ELSE c.row.started,
         version |-> c.row.version + 1,
         report |-> IF cmd.op = "finalize"
                    THEN [windows |-> OfAttempt(c.windows, c.row.attempt),
                          events |-> EventsOf(c.events, c.row.attempt)]
                    ELSE None]

\* releaseAttestationDigest: the evidence that the signature binds.
DigestOf(report, table) == <<report, table>>

\* Mutant of ReleaseAccepts: a release may be evaluated before its gates are closed.
ReleaseAcceptsMutant(cmd, r) ==
    \/ cmd.op = "create" /\ r.canary.status = "passed"
    \/ cmd.op \in {"gate", "evaluate"} /\ r.row.status = "draft"
    \/ cmd.op = "sign" /\ r.row.status = "awaiting_signatures"
ReleaseAccepts(cmd, r) ==
    \/ cmd.op = "create" /\ r.canary.status = "passed"
    \/ cmd.op = "gate" /\ r.row.status = "draft"
    \/ cmd.op = "evaluate" /\ r.row.status = "draft" /\ Closed(r.gates) = Gate
    \/ /\ cmd.op = "sign" /\ r.row.status = "awaiting_signatures" /\ r.signature = None
       /\ DigestOf(r.row.report, r.gates) = r.row.digest
NewRelease(cmd, r) ==
    IF cmd.op = "create"
    THEN [status |-> "draft", digest |-> None, version |-> 1, report |-> r.canary.report]
    ELSE [r.row EXCEPT
            !.version = @ + 1,
            !.status = IF cmd.op = "gate" THEN "draft"
                       ELSE IF cmd.op = "evaluate" THEN "awaiting_signatures" ELSE "approved",
            !.digest = IF cmd.op = "evaluate" THEN DigestOf(r.row.report, r.gates) ELSE @]
-----------------------------------------------------------------------------
(* Clients.                                                                 *)
CanaryOps == {"approve", "restart", "window", "event", "resolve", "finalize"}
Command ==
    {[op |-> o] : o \in {"approve", "restart", "finalize", "create", "evaluate", "sign"}}
    \cup {[op |-> "window", from |-> t, to |-> u, healthy |-> b] : t, u \in Time, b \in BOOLEAN}
    \cup {[op |-> "event", id |-> e, kind |-> k, severe |-> s] :
             e \in EventId, k \in {"alert", "other"}, s \in BOOLEAN}
    \cup {[op |-> "resolve", id |-> e] : e \in EventId}
    \cup {[op |-> "gate", gate |-> g, evidence |-> e] : g \in Gate, e \in Evidence}
OnCanary(cmd) == cmd.op \in CanaryOps
RowOf(cmd) == IF OnCanary(cmd) THEN canary ELSE release
Base(cmd, row) ==
    IF OnCanary(cmd)
    THEN [row |-> row, windows |-> windows, events |-> events, verified |-> verified, at |-> now]
    ELSE [row |-> row, gates |-> gates, signature |-> signature, canary |-> canary]
Accepts(cmd, base) == IF OnCanary(cmd) THEN CanaryAccepts(cmd, base) ELSE ReleaseAccepts(cmd, base)
KeyOf(cmd) == {k \in Key : (k <= MaxCanaryCommands) = OnCanary(cmd)}
Free(h) == handlers[h].pc = "idle"
Issued == receipts \cup {handlers[h].key : h \in {g \in Handler : handlers[g].pc # "idle"}}

\* A client acts on the newest aggregate when it sends: the commit refuses what is
\* sent for an older version, and the domain what it does not accept even now.
Send(h) ==
    /\ Free(h)
    /\ \E cmd \in Command :
        /\ Accepts(cmd, Base(cmd, RowOf(cmd)))
        /\ cmd.op = "restart" => canary.attempt < MaxAttempts
        /\ \E key \in KeyOf(cmd) \ Issued :
             /\ \A k \in KeyOf(cmd) : k < key => k \in Issued
             /\ handlers' = [handlers EXCEPT ![h] =
                  [pc |-> "asked", cmd |-> cmd, expected |-> RowOf(cmd).version, key |-> key]]
        /\ UNCHANGED <<now, canaryTables, verified, releaseTables, receipts>>

\* A command is delivered again with its key.  The copy may wait, as asked, until
\* the original was answered.
Redeliver(h) ==
    /\ Free(h)
    /\ \E g \in Handler :
        /\ handlers[g].pc # "idle"
        /\ handlers' = [handlers EXCEPT ![h] =
             [pc |-> "asked", cmd |-> handlers[g].cmd, expected |-> handlers[g].expected,
              key |-> handlers[g].key]]
        /\ UNCHANGED <<now, canaryTables, verified, releaseTables, receipts>>
-----------------------------------------------------------------------------
(* The service.                                                             *)
\* With the new version, the receipt, or an error.
Answer(h) == handlers' = [handlers EXCEPT ![h] = [pc |-> "idle"]]
\* The key, the outbox row and the aggregate are committed together.
Complete(h) == receipts' = receipts \cup {handlers[h].key}

\* findReplay, then the row.  A receipt that appears between the two is met by the
\* claim of the commit.
Open(h) ==
    /\ handlers[h].pc = "asked"
    /\ IF handlers[h].key \in receipts THEN Answer(h)
       ELSE handlers' = [handlers EXCEPT ![h] =
              [pc |-> "row", cmd |-> @.cmd, expected |-> @.expected, key |-> @.key,
               row |-> RowOf(@.cmd)]]
    /\ UNCHANGED <<now, canaryTables, verified, releaseTables, receipts>>

\* The windows and events, or the gates and signature, of the row read before; for
\* create the Canary; and the clock of the domain function.
LoadChildren(h) ==
    LET r == handlers[h]
        base == Base(r.cmd, r.row)
    IN  /\ r.pc = "row"
        /\ IF Accepts(r.cmd, base)
           THEN handlers' = [handlers EXCEPT ![h] =
                  [pc |-> "ready", cmd |-> r.cmd, expected |-> r.expected, key |-> r.key,
                   next |-> IF OnCanary(r.cmd)
                            THEN [row |-> NewCanary(r.cmd, base), windows |-> NewWindows(r.cmd, base),
                                  events |-> NewEvents(r.cmd, base)]
                            ELSE [row |-> NewRelease(r.cmd, base)]]]
           ELSE Answer(h)
        /\ UNCHANGED <<now, canaryTables, verified, releaseTables, receipts>>

\* The row still has the version that the client expected, and no unique index
\* refuses the new rows.
\* Mutant of Current: the version is not compared.
CurrentMutant(r) ==
    /\ r.cmd.op = "create" => release.status = "none"
    /\ r.cmd.op = "event" => ~\E e \in EventsOf(events, r.next.row.attempt) : e.id = r.cmd.id
    /\ r.cmd.op = "sign" => signature = None
Current(r) ==
    IF r.cmd.op = "create" THEN release.status = "none" ELSE RowOf(r.cmd).version = r.expected

CommitCanary(h) ==
    LET r == handlers[h]
    IN  /\ r.pc = "ready" /\ OnCanary(r.cmd) /\ r.key \notin receipts /\ Current(r)
        /\ canary' = r.next.row
        /\ windows' = [windows EXCEPT ![r.next.row.attempt] = @ \o r.next.windows]
        /\ events' = {IF Resolves(r.cmd, r.next.row, e) THEN [e EXCEPT !.resolved = TRUE] ELSE e :
                        e \in events} \cup r.next.events
        /\ Complete(h)
        /\ Answer(h)
        /\ UNCHANGED <<now, verified, releaseTables>>

CommitRelease(h) ==
    LET r == handlers[h]
    IN  /\ r.pc = "ready" /\ ~OnCanary(r.cmd) /\ r.key \notin receipts /\ Current(r)
        /\ release' = r.next.row
        /\ gates' = IF r.cmd.op = "gate" THEN [gates EXCEPT ![r.cmd.gate] = r.cmd.evidence]
                    ELSE gates
        /\ signature' = IF r.cmd.op = "sign" THEN r.next.row.digest ELSE signature
        /\ Complete(h)
        /\ Answer(h)
        /\ UNCHANGED <<now, canaryTables, verified>>

\* The key was completed meanwhile (the receipt is replayed) or the version changed
\* (the transaction is rolled back).
CommitNothing(h) ==
    /\ handlers[h].pc = "ready"
    /\ handlers[h].key \in receipts \/ ~Current(handlers[h])
    /\ Answer(h)
    /\ UNCHANGED <<now, canaryTables, verified, releaseTables, receipts>>
-----------------------------------------------------------------------------
Tick == now < MaxTime /\ now' = now + 1
        /\ UNCHANGED <<canaryTables, verified, releaseTables, handlers, receipts>>

\* A goal verification with the verdict passed.
Verify == verified = {} /\ verified' = verified \cup {now}
          /\ UNCHANGED <<now, canaryTables, releaseTables, handlers, receipts>>

Next ==
    \/ Tick \/ Verify
    \/ \E h \in Handler :
         \/ Send(h) \/ Redeliver(h) \/ Open(h) \/ LoadChildren(h)
         \/ CommitCanary(h) \/ CommitRelease(h) \/ CommitNothing(h)

Spec == Init /\ [][Next]_vars
-----------------------------------------------------------------------------
(* The tables and rows hold values their columns allow.                     *)
TypeOK ==
    /\ now \in Time /\ verified \subseteq Time /\ receipts \subseteq Key
    /\ canary.status \in {"draft", "observing", "stopped", "passed"}
    /\ canary.attempt \in 1 .. MaxAttempts /\ canary.started \in Time
    /\ windows \in [1 .. MaxAttempts -> Seq(Window)]
    /\ events \subseteq Event
    /\ release.status \in {"none", "draft", "awaiting_signatures", "approved"}
    /\ gates \in GateTable

(* A passed Canary was observed: the windows of its attempt, as they are in *)
(* the table, run without a gap from its start, all healthy, for at least   *)
(* the required time; no event of the attempt is severe, no alert is open;  *)
(* a passed verification lies inside; and the report is what the tables say. *)
(* And an attempt with an unhealthy window or a severe event is stopped,    *)
(* whatever commands raced with it: only a new attempt observes again.      *)
PassedMeansObserved ==
    LET ws == OfAttempt(windows, canary.attempt)
        es == EventsOf(events, canary.attempt)
    IN  /\ TypeOK
        /\ canary.status = "passed" =>
            /\ Len(ws) >= RequiredHours /\ End(ws) - canary.started >= RequiredHours * Hour
            /\ ws[1].from = canary.started
            /\ \A i \in 2 .. Len(ws) : ws[i].from = ws[i - 1].to
            /\ \A i \in 1 .. Len(ws) : ws[i].healthy
            /\ \A e \in es : ~e.severe /\ (e.kind = "alert" => e.resolved)
            /\ \E v \in verified : canary.started <= v /\ v <= End(ws)
            /\ canary.report = [windows |-> ws, events |-> es]
        /\ (\E i \in 1 .. Len(ws) : ~ws[i].healthy) \/ (\E e \in es : e.severe)
            => canary.status = "stopped"

(* A command takes effect once however often it is delivered: every receipt *)
(* stands for one version of the two aggregates, and the reverse.           *)
CommandOnce == Cardinality(receipts) = canary.version - 1 + release.version

(* An approved release carries the report of its Canary, all gates closed,  *)
(* and the owner's signature over exactly the gates that are in the table.  *)
ApprovedIsAttested ==
    release.status = "approved" =>
        /\ canary.status = "passed" /\ release.report = canary.report
        /\ Closed(gates) = Gate
        /\ signature = DigestOf(release.report, gates)
=============================================================================
