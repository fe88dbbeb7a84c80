----------------------------- MODULE EventInbox -----------------------------
(***************************************************************************)
(* The journal of one AutoDev run and the P7 event inbox that consumes it. *)
(* Writers of the run number their events and append lines to events.jsonl *)
(* (append_event of run_store.py); scheduler processes reconcile the job,  *)
(* re-read the file from its first line in every loop and ingest each line.*)
(* ingest looks for the event first, without a lock; the rest runs under   *)
(* FOR UPDATE OF job, run: one step where it writes a row and commits, one *)
(* step per turn of the drain loop otherwise, on a copy until the COMMIT.  *)
(***************************************************************************)
EXTENDS Integers, Sequences, FiniteSets

CONSTANTS
    Poller,       \* scheduler processes
    Writer,       \* processes that append events to the run
    None,         \* no transaction holds the lock
    Persistence,  \* "file" or "database", where the run numbers its events
    Target,       \* what an event asks of the Run (targetStatus), "none" for null
    MaxEvents,    \* bound: events of the run
    MaxLost,      \* bound: lines the database projection fails to append
    MaxCrashes,   \* bound: process crashes
    MaxFound      \* bound: times a lapsed lease, a stop or the deadline is found

Ending == {"succeeded", "failed", "cancelled"}
JobOver == Ending \cup {"blocked"}
Sequence == 1..MaxEvents

ASSUME InboxAssumption ==
    /\ None \notin Poller
    /\ Persistence \in {"file", "database"}
    /\ Target \subseteq Ending \cup {"running", "none"}
    /\ {MaxEvents, MaxLost, MaxCrashes, MaxFound} \subseteq Nat

VARIABLES
    events,   \* what each numbered event asks of the Run; event i has sequence i
    lines,    \* events.jsonl: the sequence number on each line
    writing,  \* the event a writer has numbered but not appended yet, 0 for none
    job,      \* the scheduler_jobs row: state, reconciliation_required, last_event_sequence
    run,      \* status column of the Run
    outbox,   \* the published statuses of the Run, in order
    inbox,    \* processing_status of the external_event_inbox row of each sequence
    tx,       \* the open transaction of the drain loop, with what it has not committed
    procs,    \* local state of each scheduler process
    spent     \* bounded events used so far

vars == <<events, lines, writing, job, run, outbox, inbox, tx, procs, spent>>
journal == <<events, lines, writing>>
store == <<job, run, outbox, inbox>>
-----------------------------------------------------------------------------
JobRow == [state : {"starting", "running"} \cup JobOver, recon : BOOLEAN,
           last : 0..MaxEvents]
RunStatus == {"queued", "running"} \cup Ending
RowStatus == {"absent", "pending", "gap", "applied", "terminal_ignored"}
PC == {"down", "tick", "reconcile", "settle", "list", "read", "look", "ingest", "drain"}
Locals == [pc : PC, upto : Nat, next : Nat \ {0}]
Context == [owner : Poller \cup {None}, run : RunStatus, last : 0..MaxEvents,
            rows : [Sequence -> RowStatus], out : Seq(RunStatus)]

Resting(pc) == [pc |-> pc, upto |-> 0, next |-> 1]
NoTx == [owner |-> None, run |-> "queued", last |-> 0,
         rows |-> [e \in Sequence |-> "absent"], out |-> <<>>]

\* The job has just been launched and markExternalStartIssued has set the flag;
\* a process may have looked for flagged jobs before and be about to poll.
Init ==
    /\ events = <<>> /\ lines = <<>>
    /\ writing = [w \in Writer |-> 0]
    /\ job = [state |-> "starting", recon |-> TRUE, last |-> 0]
    /\ run = "queued" /\ outbox = <<>>
    /\ inbox = [e \in Sequence |-> "absent"]
    /\ tx = NoTx
    /\ procs \in [Poller -> {Resting("tick"), Resting("list")}]
    /\ spent = [lost |-> 0, crashes |-> 0, found |-> 0]

At(p, pc) == procs[p].pc = pc
Goto(p, pc) == procs' = [procs EXCEPT ![p].pc = pc]
Unlocked == tx.owner = None
LiveJob == job.state \notin JobOver
-----------------------------------------------------------------------------
(* The writers.  A file run counts the lines under the file's lock; a       *)
(* database run numbers in its database and appends the line afterwards,    *)
(* best effort.                                                             *)
AppendToFile ==
    /\ Persistence = "file" /\ Len(events) < MaxEvents
    /\ \E t \in Target : events' = Append(events, t)
    /\ lines' = Append(lines, Len(lines) + 1)
    /\ UNCHANGED <<writing, store, tx, procs, spent>>

NumberEvent(w) ==
    /\ Persistence = "database" /\ Len(events) < MaxEvents /\ writing[w] = 0
    /\ \E t \in Target : events' = Append(events, t)
    /\ writing' = [writing EXCEPT ![w] = Len(events) + 1]
    /\ UNCHANGED <<lines, store, tx, procs, spent>>

ProjectEvent(w) ==
    /\ writing[w] # 0
    /\ lines' = Append(lines, writing[w])
    /\ writing' = [writing EXCEPT ![w] = 0]
    /\ UNCHANGED <<events, store, tx, procs, spent>>

ProjectionFails(w) ==
    /\ writing[w] # 0 /\ spent.lost < MaxLost
    /\ writing' = [writing EXCEPT ![w] = 0]
    /\ spent' = [spent EXCEPT !.lost = @ + 1]
    /\ UNCHANGED <<events, lines, store, tx, procs>>
-----------------------------------------------------------------------------
(* The supervisor's part of a loop: the job is reconciled when it is        *)
(* flagged, its lease has lapsed (which flags it), or a stop or its deadline *)
(* is found.  A row the drain loop holds is skipped (SKIP LOCKED).           *)
Die(p) ==
    /\ procs' = [procs EXCEPT ![p] = Resting("down")]
    /\ tx' = IF tx.owner = p THEN NoTx ELSE tx

ListForReconciliation(p) ==
    /\ At(p, "tick")
    /\ \/ /\ Unlocked /\ LiveJob /\ job.recon
          /\ Goto(p, "reconcile") /\ UNCHANGED <<job, spent>>
       \/ /\ Unlocked /\ LiveJob /\ spent.found < MaxFound
          /\ \/ Goto(p, "settle") /\ UNCHANGED job
             \/ Goto(p, "reconcile") /\ job' = [job EXCEPT !.recon = TRUE]
          /\ spent' = [spent EXCEPT !.found = @ + 1]
       \/ /\ Unlocked /\ LiveJob => ~job.recon
          /\ Goto(p, "list") /\ UNCHANGED <<job, spent>>
    /\ UNCHANGED <<journal, run, outbox, inbox, tx>>

\* commitExternalState, markStopped and markTimedOut guard on the job's state,
\* updateRunAndOutbox on the Run's.
Record(state) ==
    /\ job' = [job EXCEPT !.state = state, !.recon = FALSE]
    /\ IF state = "blocked" \/ run \in Ending \/ run = state
       THEN UNCHANGED <<run, outbox>>
       ELSE run' = state /\ outbox' = Append(outbox, state)

Settles(p, state) ==
    /\ Unlocked
    /\ IF LiveJob
       THEN Record(state) /\ Goto(p, "list") /\ UNCHANGED <<inbox, tx>>
       ELSE Die(p) /\ UNCHANGED store
    /\ UNCHANGED <<journal, spent>>

\* The inspection answers for the run directory, which the journal may not match.
Reconcile(p) ==
    /\ At(p, "reconcile")
    /\ \E state \in JobOver \cup {"running"} : Settles(p, state)

StopOrTimeOut(p) ==
    /\ At(p, "settle")
    /\ \E state \in {"cancelled", "failed"} : Settles(p, state)
-----------------------------------------------------------------------------
(* AutoDevEventPoller.poll: the whole file, from its first line, every time. *)
ListExternalRuns(p) ==
    /\ At(p, "list")
    /\ Goto(p, IF LiveJob THEN "read" ELSE "tick")
    /\ UNCHANGED <<journal, store, tx, spent>>

\* Mutant of ReadJournal: only the newest line is read.
ReadJournalMutant(p) ==
    /\ At(p, "read")
    /\ procs' = [procs EXCEPT ![p] = [pc |-> "look", upto |-> Len(lines),
                   next |-> IF lines = <<>> THEN 1 ELSE Len(lines)]]
    /\ UNCHANGED <<journal, store, tx, spent>>
ReadJournal(p) ==
    /\ At(p, "read")
    /\ procs' = [procs EXCEPT ![p] = [pc |-> "look", upto |-> Len(lines), next |-> 1]]
    /\ UNCHANGED <<journal, store, tx, spent>>

PollDone(p) ==
    /\ At(p, "look") /\ procs[p].next > procs[p].upto
    /\ procs' = [procs EXCEPT ![p] = Resting("tick")]
    /\ UNCHANGED <<journal, store, tx, spent>>

Line(p) == lines[procs[p].next]
NextLine(p) == procs' = [procs EXCEPT ![p].pc = "look", ![p].next = @ + 1]

\* The first query of ingest sees committed rows, and takes no lock.
Look(p) ==
    /\ At(p, "look") /\ procs[p].next <= procs[p].upto
    /\ IF inbox[Line(p)] # "absent" THEN NextLine(p) ELSE Goto(p, "ingest")
    /\ UNCHANGED <<journal, store, tx, spent>>

Reached(e) == e = job.last + 1

\* Another process stored the event after Look: the unique index refuses it,
\* and the digest read back is that of the same line.
IngestReplay(p) ==
    /\ At(p, "ingest") /\ Unlocked
    /\ inbox[Line(p)] # "absent"
    /\ NextLine(p)
    /\ UNCHANGED <<journal, store, tx, spent>>

\* An event beyond the next one is parked.  (One behind it would be ignored:
\* DrainedInOrder says that its row is there already.)
IngestOutOfOrder(p) ==
    LET e == Line(p)
    IN  /\ At(p, "ingest") /\ Unlocked
        /\ inbox[e] = "absent" /\ ~Reached(e)
        /\ inbox' = [inbox EXCEPT ![e] =
                       IF e > job.last THEN "gap" ELSE "terminal_ignored"]
        /\ job' = [job EXCEPT !.recon = @ \/ e > job.last]
        /\ NextLine(p)
        /\ UNCHANGED <<journal, run, outbox, tx, spent>>

IngestNext(p) ==
    LET e == Line(p)
    IN  /\ At(p, "ingest") /\ Unlocked
        /\ inbox[e] = "absent" /\ Reached(e)
        /\ tx' = [owner |-> p, run |-> run, last |-> job.last,
                  rows |-> [inbox EXCEPT ![e] = "pending"], out |-> <<>>]
        /\ Goto(p, "drain")
        /\ UNCHANGED <<journal, store, spent>>

\* One turn of the drain loop: the next stored event, unless none is there.
Parked(rows, e) == e \in Sequence /\ rows[e] \in {"pending", "gap"}
\* Mutant of Turned: the Run is not started before it ends.
TurnedMutant(old, target) ==
    IF target \in {"none", old} THEN <<>> ELSE <<target>>
Turned(old, target) ==
    IF target \in {"none", old} THEN <<>>
    ELSE IF old = "queued" /\ target # "running" THEN <<"running", target>>
    ELSE <<target>>

RunOver(status) == status \in Ending

DrainTurn(p) ==
    LET e == tx.last + 1
        moves == Turned(tx.run, events[e])
    IN  /\ tx.owner = p /\ Parked(tx.rows, e)
        /\ IF RunOver(tx.run)
           THEN tx' = [tx EXCEPT !.last = e, !.rows[e] = "terminal_ignored"]
           ELSE tx' = [tx EXCEPT !.last = e, !.rows[e] = "applied",
                         !.run = IF moves = <<>> THEN @ ELSE events[e],
                         !.out = @ \o moves]
        /\ UNCHANGED <<journal, store, procs, spent>>

\* Mutant of Drained: one event at a time.
DrainedMutant(p) == tx.owner = p /\ tx.last > job.last
Drained(p) == tx.owner = p /\ ~Parked(tx.rows, tx.last + 1)

\* Mutant of GapsRemain: the flag is cleared with every event that applies.
GapsRemainMutant(rows, last) == FALSE
GapsRemain(rows, last) == \E e \in Sequence : e > last /\ rows[e] = "gap"

CommitIngest(p) ==
    /\ Drained(p)
    /\ inbox' = tx.rows
    /\ run' = tx.run
    /\ outbox' = outbox \o tx.out
    /\ job' = [state |-> IF tx.run = "queued" THEN "running" ELSE tx.run,
               recon |-> GapsRemain(tx.rows, tx.last), last |-> tx.last]
    /\ tx' = NoTx
    /\ NextLine(p)
    /\ UNCHANGED <<journal, spent>>
-----------------------------------------------------------------------------
Crash(p) ==
    /\ ~At(p, "down") /\ spent.crashes < MaxCrashes
    /\ Die(p)
    /\ spent' = [spent EXCEPT !.crashes = @ + 1]
    /\ UNCHANGED <<journal, store>>

Restart(p) ==
    /\ At(p, "down")
    /\ Goto(p, "tick")
    /\ UNCHANGED <<journal, store, tx, spent>>

Step(p) ==
    \/ ListForReconciliation(p) \/ Reconcile(p) \/ StopOrTimeOut(p)
    \/ ListExternalRuns(p) \/ ReadJournal(p) \/ Look(p) \/ PollDone(p)
    \/ IngestReplay(p) \/ IngestOutOfOrder(p) \/ IngestNext(p)
    \/ DrainTurn(p) \/ CommitIngest(p)

WriterStep(w) == NumberEvent(w) \/ ProjectEvent(w) \/ ProjectionFails(w)

Next ==
    \/ AppendToFile
    \/ \E w \in Writer : WriterStep(w)
    \/ \E p \in Poller : Step(p) \/ Crash(p) \/ Restart(p)

Spec == Init /\ [][Next]_vars
-----------------------------------------------------------------------------
(* Safety.                                                                  *)

\* Every column and local stays in its domain.
TypeOK ==
    /\ events \in Seq(Target) /\ Len(events) <= MaxEvents
    /\ lines \in Seq(1..Len(events))
    /\ writing \in [Writer -> 0..Len(events)]
    /\ job \in JobRow /\ run \in RunStatus /\ outbox \in Seq(RunStatus)
    /\ inbox \in [Sequence -> RowStatus]
    /\ tx \in Context
    /\ procs \in [Poller -> Locals]
    /\ spent \in [lost : 0..MaxLost, crashes : 0..MaxCrashes, found : 0..MaxFound]

\* The inbox is always the events up to last_event_sequence, each processed,
\* then a hole, then parked events only: however lines are ordered, lost or
\* ingested twice, and whoever drains, nothing within reach stays parked and
\* no sequence is counted that was not stored.
DrainedInOrder ==
    /\ \A e \in 1 .. job.last : inbox[e] \in {"applied", "terminal_ignored"}
    /\ \A e \in job.last + 1 .. MaxEvents : inbox[e] \in {"absent", "gap"}
    /\ job.last < MaxEvents => inbox[job.last + 1] = "absent"

\* The lines of a file run are in sequence and read from the first, so that no
\* event of it is ever parked, however the processes that read it interleave.
FileNeverParks ==
    Persistence = "file" => \A e \in Sequence : inbox[e] # "gap"

\* Only a reconciliation may clear the flag while an event is still parked: a
\* drain that stops at a second hole keeps it.
FlagKeptForGaps ==
    [][job.recon /\ ~job'.recon /\ (\E e \in Sequence : inbox'[e] = "gap")
         => \E p \in Poller : At(p, "reconcile") \/ At(p, "settle")]_vars

\* The Run and its published events are those of a reader who takes the
\* events in order, once: the two writers of a Run never mix up the order.
Reader == INSTANCE JournalReader WITH position <- job.last, status <- run,
                                      published <- outbox
ReadsInOrder == Reader!Spec
-----------------------------------------------------------------------------
(* Liveness.  A scheduler process keeps looping, is restarted when it dies,  *)
(* and a writer that has numbered an event goes on to append it or fails.    *)
Fairness ==
    /\ \A p \in Poller : WF_vars(Step(p)) /\ WF_vars(Restart(p))
    /\ \A w \in Writer : WF_vars(ProjectEvent(w) \/ ProjectionFails(w))
LiveSpec == Spec /\ Fairness

InFile(e) == \E k \in 1 .. Len(lines) : lines[k] = e

\* Unless a line is lost for good, an event that is in the journal will be
\* processed, whatever the order of the lines and whichever process dies, or
\* the job is over.
JournalDrains ==
    \A e \in Sequence :
      InFile(e) ~> (e <= job.last \/ ~LiveJob \/ spent.lost > 0)
=============================================================================
