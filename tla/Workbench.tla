----------------------------- MODULE Workbench -----------------------------
(***************************************************************************)
(* The workbench: what a browser shows of the goals, issues, runs and jobs  *)
(* of the projects it may see, and the commands it sends about them.        *)
(*                                                                         *)
(* A projector reads the rows of a project in separate queries and writes   *)
(* one snapshot of the project with a revision of its own.  The server      *)
(* adds the revisions of the visible projects and announces each advance    *)
(* over an event stream; the browser answers an announcement by fetching    *)
(* the whole page again.  A command names the version of the task the user  *)
(* saw: the sum of the versions of the rows behind it, which are those of   *)
(* the newest revision of the issue and of its latest attempt.              *)
(***************************************************************************)
EXTENDS Integers, Sequences, FiniteSets, Folds, Functions

CONSTANTS
    Project,   \* the projects the browser may see, one task each
    Affordable \* bound: how many commits and commands of each project, replays,
               \* failures and losses one behaviour may have together

ASSUME WorkbenchAssumption ==
    Affordable \subseteq [changes : [Project -> Nat], commands : [Project -> Nat],
                          replays : Nat, failures : Nat, lost : Nat]

Row == {"issue", "run", "job"}
Projector == {"loop", "replay"}

VARIABLES
    tables,    \* the rows behind the task of a project
    history,   \* what the query of a row gave from one commit to the next
    stored,    \* the snapshot of a project and its checkpoint
    jobs,      \* what each projector has read
    page,      \* what the browser shows
    stream,    \* the event stream and the revision it has announced
    fetches,   \* the browser's requests for the page, and their answers
    refresh,   \* refreshPromise, and the handlers that wait for it
    receipts,  \* task_action_receipts
    used       \* bounds used up

database == <<tables, history, stored>>
browser == <<page, stream, fetches, refresh>>
workbench == <<tables, history, stored, jobs, page, stream, fetches, refresh,
               receipts, used>>

Nothing == [r \in Row |-> 0]
Idle == [cursor |-> Nothing, rows |-> <<>>]
Working(a, p) == jobs[a][p].cursor # Nothing
-----------------------------------------------------------------------------
(* The tables.  A row is known by the revision of the issue or by the        *)
(* attempt it is of; runs and jobs are those of the revisions of the issue,  *)
(* in order.                                                                *)
RowOf(of, version) == [of |-> of, version |-> version]
NoRow == RowOf(0, 0)

\* The jobs of an issue: the newest one, and that of an earlier attempt which
\* the query orders before it, if there is one: it was tried more often, or as
\* often and has the greater id, and ids are random.
NoJob == [new |-> NoRow, before |-> NoRow]
Leading(j) == IF j.before = NoRow THEN j.new ELSE j.before

\* At first: an issue whose first job was stopped after its claim, and which
\* has been blocked and released since.
Start == [issues |-> <<RowOf(1, 4)>>, runs |-> <<RowOf(1, 2)>>,
          jobs |-> <<[NoJob EXCEPT !.new = RowOf(1, 3)]>>]

\* The queries: for each revision of the issue its row, and that of its newest
\* Run; its job is the one that leads by tries and id.
Query(t, row) ==
    CASE row = "issue" -> t.issues
      [] row = "run" -> t.runs
      [] row = "job" -> [n \in DOMAIN t.jobs |-> Leading(t.jobs[n])]

\* The task made of the rows that three queries gave, each at its time: the
\* newest revision of the issue, and the Run and the job found for it.
Task(p, rows) ==
    LET answer == [r \in Row |-> history[p][r][rows[r]]]
        revision == Len(answer["issue"])
    IN  [r \in Row |-> IF revision <= Len(answer[r]) THEN answer[r][revision] ELSE NoRow]

\* The version of the composite task.
\* Mutant of Version: the job does not count.
VersionMutant(task) == task["issue"].version + task["run"].version
Version(task) == task["issue"].version + task["run"].version + task["job"].version

\* The revision of the page: every visible project counts.
\* Mutant of VisibleRevision: the newest project alone counts.
VisibleRevisionMutant(snapshots) ==
    LET revisions == {snapshots[p].revision : p \in Project}
    IN  CHOOSE r \in revisions : \A q \in revisions : r >= q
VisibleRevision(snapshots) ==
    FoldFunction(+, 0, [p \in Project |-> snapshots[p].revision])

\* readPage: one repeatable-read transaction over all visible projects.
ReadPage(snapshots) ==
    [revision |-> VisibleRevision(snapshots),
     rows |-> [p \in Project |-> snapshots[p].rows]]

First == [r \in Row |-> 1]

WorkbenchInit ==
    /\ tables = [p \in Project |-> Start]
    /\ history = [p \in Project |-> [r \in Row |-> <<Query(Start, r)>>]]
    /\ stored = [p \in Project |-> [revision |-> 1, cursor |-> First, rows |-> First]]
    /\ jobs = [a \in Projector |-> [p \in Project |-> Idle]]
    /\ page = ReadPage(stored)
    /\ stream = [up |-> TRUE, last |-> page.revision]
    /\ fetches = {}
    /\ refresh = [promise |-> 0, waiting |-> {}]
    /\ receipts = {}
    /\ used = [changes |-> [p \in Project |-> 0], commands |-> [p \in Project |-> 0],
               replays |-> 0, failures |-> 0, lost |-> 0]

Spend(what) == used' = [used EXCEPT ![what] = @ + 1] /\ used' \in Affordable
SpendOn(what, p) == used' = [used EXCEPT ![what][p] = @ + 1] /\ used' \in Affordable
-----------------------------------------------------------------------------
(* The transactions that write the rows, whatever the rows' status.  Left    *)
(* out: heartbeats, a row none of the queries look at, a write to the job of *)
(* an earlier attempt, and a transaction that commits after one with a later *)
(* time stamp.                                                              *)
Commit(p, t) ==
    /\ SpendOn("changes", p)
    /\ tables' = [tables EXCEPT ![p] = t]
    /\ history' = [history EXCEPT ![p] = [r \in Row |->
            IF Query(t, r) = Query(tables[p], r) THEN @[r] ELSE Append(@[r], Query(t, r))]]
    /\ UNCHANGED <<stored, jobs, browser, receipts>>

\* A transition of the issue.
WriteIssue(p) ==
    LET t == tables[p]
    IN  Commit(p, [t EXCEPT !.issues[Len(t.issues)].version = @ + 1])

\* The scheduler or the inbox writes the job of the latest attempt, alone or
\* with its Run.  A start that failed is tried again, and the new job may lead
\* from then on (handleStartFailure).
WriteJob(p) ==
    LET t == tables[p]
        n == Len(t.issues)
        written == [t EXCEPT !.jobs[n].new.version = @ + 1]
    IN  /\ t.runs[n].of > 0
        /\ \/ Commit(p, written)
           \/ Commit(p, [written EXCEPT !.runs[n].version = @ + 1])
           \/ Commit(p, [written EXCEPT !.jobs[n].before = NoRow])

\* admit: the next attempt is a Run and a job of version 1; that job may come
\* after the job of an earlier attempt in the order of the query.
Admit(p) ==
    LET t == tables[p]
        n == Len(t.issues)
        attempt == t.runs[n].of + 1
    IN  \E before \in {NoRow, Leading(t.jobs[n])} :
          Commit(p, [issues |-> [t.issues EXCEPT ![n].version = @ + 1],
                     runs |-> [t.runs EXCEPT ![n] = RowOf(attempt, 1)],
                     jobs |-> [t.jobs EXCEPT ![n] =
                                 [new |-> RowOf(attempt, 1), before |-> before]]])

\* A new revision of the issue is a row of its own, without a Run or a job.
Revise(p) ==
    LET t == tables[p]
    IN  Commit(p, [issues |-> Append(t.issues, RowOf(Len(t.issues) + 1, 1)),
                   runs |-> Append(t.runs, NoRow), jobs |-> Append(t.jobs, NoJob)])

Change(p) == WriteIssue(p) \/ WriteJob(p) \/ Admit(p) \/ Revise(p)

\* The newest of what the queries look at.
LatestTrigger(p) == [r \in Row |-> Len(history[p][r])]
LastCursor(p) == stored[p].cursor
-----------------------------------------------------------------------------
(* The projector: state and trigger, then the facts, then the publication.  *)
(* The loop skips a project whose trigger it has; a replay never does.      *)
StartJob(a, p) ==
    /\ ~Working(a, p)
    /\ IF a = "loop" THEN LastCursor(p) # LatestTrigger(p) /\ UNCHANGED used
                     ELSE Spend("replays")
    /\ jobs' = [jobs EXCEPT ![a][p] = [cursor |-> LatestTrigger(p), rows |-> <<>>]]
    /\ UNCHANGED <<database, browser, receipts>>

\* loadFacts runs its queries side by side, each with a view of its own.
LoadRow(a, p) ==
    /\ Working(a, p)
    /\ \E row \in Row \ DOMAIN jobs[a][p].rows :
         jobs' = [jobs EXCEPT ![a][p].rows =
                    [r \in DOMAIN @ \cup {row} |->
                       IF r = row THEN Len(history[p][r]) ELSE @[r]]]
    /\ UNCHANGED <<database, browser, receipts, used>>

\* Mutant of Checkpoint: the trigger is read again when the snapshot is written.
CheckpointMutant(a, p) == LatestTrigger(p)
Checkpoint(a, p) == jobs[a][p].cursor

\* workbenchSemanticDigest of the snapshot of these rows, against the stored one.
SaysTheSame(p, rows) == Task(p, rows) = Task(p, stored[p].rows)

\* publish: a snapshot that says the same only moves the checkpoint; any other
\* replaces the stored one, also a newer one another projector wrote.
Publish(a, p) ==
    LET rows == jobs[a][p].rows
    IN  /\ DOMAIN rows = Row
        /\ stored' = [stored EXCEPT ![p] =
             [revision |-> IF SaysTheSame(p, rows) THEN @.revision ELSE @.revision + 1,
              cursor |-> Checkpoint(a, p), rows |-> rows]]
        /\ jobs' = [jobs EXCEPT ![a][p] = Idle]
        /\ UNCHANGED <<tables, history, browser, receipts, used>>

\* A query or the transaction fails: the tick ends, the next one starts anew.
JobFails(a, p) ==
    /\ Working(a, p)
    /\ jobs' = [jobs EXCEPT ![a][p] = Idle]
    /\ Spend("failures")
    /\ UNCHANGED <<database, browser, receipts>>
-----------------------------------------------------------------------------
(* The event stream.  A new connection announces from the revision the       *)
(* browser shows; what is on its way when it breaks is lost with it.        *)
Unanswered == [revision |-> 0, rows |-> [p \in Project |-> First]]
Asked(revision) == [for |-> revision, answer |-> Unanswered]

\* handleInvalidation: while a refresh is under way the announcement waits.
Announce ==
    LET revision == VisibleRevision(stored)
    IN  /\ stream.up /\ revision > stream.last
        /\ stream' = [stream EXCEPT !.last = revision]
        /\ IF revision <= page.revision
           THEN UNCHANGED <<fetches, refresh>>
           ELSE IF refresh.promise # 0
           THEN /\ refresh' = [refresh EXCEPT !.waiting = @ \cup
                                 {[revision |-> revision, on |-> refresh.promise]}]
                /\ UNCHANGED fetches
           ELSE /\ fetches' = fetches \cup {Asked(revision)}
                /\ refresh' = [refresh EXCEPT !.promise = revision]
        /\ UNCHANGED <<database, jobs, page, receipts, used>>

ConnectionLost ==
    /\ stream.up
    /\ stream' = [stream EXCEPT !.up = FALSE]
    /\ Spend("lost")
    /\ UNCHANGED <<database, jobs, page, fetches, refresh, receipts>>

\* The timer of scheduleReconnect.
Reconnect ==
    /\ ~stream.up
    /\ stream' = [up |-> TRUE, last |-> page.revision]
    /\ UNCHANGED <<database, jobs, page, fetches, refresh, receipts, used>>

FetchAnswered ==
    /\ \E f \in fetches :
         /\ f.answer = Unanswered
         /\ fetches' = (fetches \ {f}) \cup {[f EXCEPT !.answer = ReadPage(stored)]}
    /\ UNCHANGED <<database, jobs, page, stream, refresh, receipts, used>>

\* The end of a refresh wakes the announcements that waited for it: each that
\* is still ahead of the page starts one of its own, without looking again
\* whether another has begun; the last one is the one later ones wait for.
RefreshEnds(f, revision) ==
    LET woken == {w \in refresh.waiting : w.on = f.for}
        ahead == {w.revision : w \in {v \in woken : v.revision > revision}}
    IN  /\ fetches' = (fetches \ {f}) \cup {Asked(r) : r \in ahead}
        /\ refresh' = [promise |-> CHOOSE r \in ahead \cup {0} : \A q \in ahead : q <= r,
                       waiting |-> refresh.waiting \ woken]

Newer(answer) == answer.revision >= page.revision

FetchApplied ==
    \E f \in fetches :
      /\ f.answer # Unanswered
      /\ page' = IF Newer(f.answer) THEN f.answer ELSE page
      /\ RefreshEnds(f, page'.revision)
      /\ UNCHANGED <<database, jobs, stream, receipts, used>>

FetchFails ==
    /\ Spend("lost")
    /\ \E f \in fetches : RefreshEnds(f, page.revision)
    /\ stream' = [stream EXCEPT !.up = FALSE]
    /\ UNCHANGED <<database, jobs, page, receipts>>
-----------------------------------------------------------------------------
(* Commands.  The page a user acts on may be as old as the stream and the    *)
(* fetches make it; a repeated key answers with its receipt, and changes     *)
(* nothing.                                                                 *)
ReceiptStatus == {"accepted", "failed"}

\* accept holds the row of the task locked from the comparison to the receipt;
\* one receipt that has not failed owns a version of the task.
Shown(p) == Task(p, page.rows[p])
Stored(p) == Task(p, stored[p].rows)
Unchanged(p) == Version(Shown(p)) = Version(Stored(p))
Owned(p) ==
    \E r \in receipts : /\ r.project = p /\ r.status # "failed"
                       /\ Version(r.on) = Version(Stored(p))
NewReceipt(p) ==
    [project |-> p, saw |-> Shown(p), on |-> Stored(p), status |-> "accepted"]

\* submit: what it checks of the row before, accept checks again.
Accept(p) ==
    /\ Unchanged(p) /\ ~Owned(p)
    /\ receipts' = receipts \cup {NewReceipt(p)}
    /\ SpendOn("commands", p)
    /\ UNCHANGED <<database, jobs, browser>>

\* transitionReceipt: as to who owns a version, a running or completed receipt
\* is as good as an accepted one.
TransitionReceipt(r) ==
    /\ r.status = "accepted"
    /\ receipts' = (receipts \ {r}) \cup {[r EXCEPT !.status = "failed"]}
    /\ UNCHANGED <<database, jobs, browser, used>>
-----------------------------------------------------------------------------
ProjectScope(a, p) == StartJob(a, p) \/ LoadRow(a, p) \/ Publish(a, p)

WorkbenchNext ==
    \/ \E p \in Project : Change(p)
    \/ \E a \in Projector, p \in Project : ProjectScope(a, p) \/ JobFails(a, p)
    \/ Announce \/ ConnectionLost \/ Reconnect
    \/ FetchAnswered \/ FetchApplied \/ FetchFails
    \/ \E p \in Project : Accept(p)
    \/ \E r \in receipts : TransitionReceipt(r)

\* The loop of the projector runs for ever, the server polls, and the timer and
\* the requests of the browser come to an end; a replay may hang.
WorkbenchSpec ==
    /\ WorkbenchInit /\ [][WorkbenchNext]_workbench
    /\ \A p \in Project : WF_workbench(ProjectScope("loop", p))
    /\ WF_workbench(Announce) /\ WF_workbench(Reconnect)
    /\ WF_workbench(FetchAnswered) /\ WF_workbench(FetchApplied)
-----------------------------------------------------------------------------
(* A checkpoint never claims more than its snapshot holds: each query behind *)
(* the stored rows saw its tables with every commit up to the trigger it     *)
(* names, whoever publishes, with rows read at different times, and in       *)
(* whatever order (projectScope reads the trigger before the facts, publish  *)
(* writes both).                                                            *)
CursorIsHonest ==
    \A p \in Project, r \in Row : stored[p].rows[r] >= stored[p].cursor[r]

(* A command takes effect on the very rows its user saw, although the        *)
(* version it names is only a sum of counters in rows read at different      *)
(* times: as long as the task is still of the same revision and attempt, and *)
(* no second projector has put an older snapshot back.  Both conditions are  *)
(* needed: the rows of a new attempt start at version 1, so that the sum     *)
(* falls and comes back to a value it had.  Two commands that have not failed *)
(* never own one version of a task (issueTask, accept).                      *)
CommandsFitTheTask ==
    \A r \in receipts :
        /\ used.replays = 0 /\ (\A row \in Row : r.saw[row].of = r.on[row].of)
           => r.saw = r.on
        /\ \A q \in receipts :
             /\ q.project = r.project /\ Version(q.on) = Version(r.on)
             /\ q.status # "failed" /\ r.status # "failed"
             => q = r

(* The browser ends up showing the task as the last commit left it: through  *)
(* lost connections, failed fetches and projections, answers that overtake   *)
(* each other, announcements that come while a refresh is under way, and a   *)
(* replay that puts an older snapshot back (projectScope, the revision       *)
(* feed, WorkbenchRealtimeClient).                                           *)
WorkbenchCatchesUp ==
    <>[](\A p \in Project : Shown(p) = Task(p, LatestTrigger(p)))
=============================================================================
