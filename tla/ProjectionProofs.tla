-------------------------- MODULE ProjectionProofs --------------------------
(***************************************************************************)
(* What is projected from events, for any number of processes, projects,   *)
(* events and changes.                                                     *)
(*                                                                         *)
(* The event inbox: the types, the order of the drain, the flag, the file  *)
(* runs, and that the inbox implements JournalReader.  One invariant       *)
(* carries all of them: it says what an open transaction has read so far,  *)
(* turn by turn.                                                           *)
(*                                                                         *)
(* The workbench: that checkpoints are honest and commands fit the task.   *)
(***************************************************************************)
EXTENDS EventInbox, Workbench, SequenceTheorems, FiniteSetTheorems, TLAPS

Processed == {"applied", "terminal_ignored"}

\* A process reads lines that are in the file, and the lock has one holder.
ReadingOK ==
    /\ \A p \in Poller :
         /\ procs[p].upto <= Len(lines)
         /\ procs[p].pc \in {"ingest", "drain"} => procs[p].next <= procs[p].upto
    /\ tx.owner # None => procs[tx.owner].pc = "drain"

\* Only events that were numbered are stored or counted.
StoredOK ==
    /\ job.last <= Len(events)
    /\ \A e \in Sequence : inbox[e] # "absent" => e <= Len(events)

\* An open transaction has read the events up to tx.last in order; the event
\* that opened it is pending until the first turn.
TxOK ==
    tx.owner # None =>
      /\ job.last <= tx.last /\ tx.last <= Len(events)
      /\ \A e \in Sequence :
           /\ e <= tx.last => tx.rows[e] \in Processed
           /\ e > tx.last => \/ tx.rows[e] \in {"absent", "gap"}
                             \/ tx.rows[e] = "pending" /\ tx.last = job.last
                                                      /\ e = tx.last + 1
           /\ tx.rows[e] # "absent" => e <= Len(events)
           /\ inbox[e] # "absent" => tx.rows[e] # "absent"
      /\ tx.last = job.last => Parked(tx.rows, tx.last + 1)
      /\ Reader!Reads(run, tx.run, job.last, tx.last)
      /\ tx.out = Reader!Story(run, tx.run)

\* A file run: line k is event k, and whoever has passed a line has stored it.
FileOK ==
    Persistence = "file" =>
      /\ \A w \in Writer : writing[w] = 0
      /\ Len(lines) = Len(events)
      /\ \A k \in 1 .. Len(lines) : lines[k] = k
      /\ \A e \in Sequence : inbox[e] # "gap"
      /\ tx.owner # None => \A e \in Sequence : tx.rows[e] # "gap"
      /\ \A p \in Poller, k \in Sequence : k < procs[p].next => inbox[k] # "absent"

IInv == TypeOK /\ ReadingOK /\ StoredOK /\ DrainedInOrder /\ TxOK /\ FileOK

USE InboxAssumption DEF InboxAssumption
-----------------------------------------------------------------------------
\* A file run and a database run alike start with an empty inbox.
LEMMA InitHolds == Init => IInv
<1> SUFFICES ASSUME Init PROVE IInv
  OBVIOUS
<1> USE DEF Init
<1>1. TypeOK
  BY DEF TypeOK, JobRow, RunStatus, RowStatus, Context, NoTx, Locals, PC, Resting,
     Sequence, Ending, JobOver
<1>2. ReadingOK
  BY DEF ReadingOK, NoTx, Resting
<1>3. StoredOK
  BY DEF StoredOK
<1>4. DrainedInOrder
  BY DEF DrainedInOrder, Sequence
<1>5. TxOK
  BY DEF TxOK, NoTx
<1>6. FileOK
  BY DEF FileOK, NoTx, Resting, Sequence
<1> QED BY <1>1, <1>2, <1>3, <1>4, <1>5, <1>6 DEF IInv

\* The parts of the type invariant, for steps that need few of them.
LEMMA TypesOf ==
  ASSUME TypeOK
  PROVE  /\ events \in Seq(Target) /\ Len(events) \in Nat /\ Len(events) <= MaxEvents
         /\ lines \in Seq(1 .. Len(events)) /\ Len(lines) \in Nat
         /\ \A k \in 1 .. Len(lines) : lines[k] \in 1 .. Len(events)
         /\ job \in JobRow /\ job.last \in 0 .. MaxEvents
         /\ run \in RunStatus /\ inbox \in [Sequence -> RowStatus]
         /\ tx \in Context /\ tx.last \in 0 .. MaxEvents
         /\ procs \in [Poller -> Locals]
         /\ \A p \in Poller : procs[p].upto \in Nat /\ procs[p].next \in Nat \ {0}
<1>0. MaxEvents \in Nat
  OBVIOUS
<1>1. events \in Seq(Target) /\ Len(events) \in Nat /\ Len(events) <= MaxEvents
  BY DEF TypeOK
<1>2. /\ lines \in Seq(1 .. Len(events)) /\ Len(lines) \in Nat
      /\ \A k \in 1 .. Len(lines) : lines[k] \in 1 .. Len(events)
  BY DEF TypeOK
<1>3. job \in JobRow /\ job.last \in 0 .. MaxEvents
  BY DEF TypeOK, JobRow
<1>4. run \in RunStatus /\ inbox \in [Sequence -> RowStatus]
  BY DEF TypeOK
<1>5. tx \in Context /\ tx.last \in 0 .. MaxEvents
  BY DEF TypeOK, Context
<1>6. /\ procs \in [Poller -> Locals]
      /\ \A p \in Poller : procs[p].upto \in Nat /\ procs[p].next \in Nat \ {0}
  BY DEF TypeOK, Locals
<1> QED BY <1>1, <1>2, <1>3, <1>4, <1>5, <1>6

\* More events do not change what was read.
LEMMA ReadsStays ==
  ASSUME TypeOK, StoredOK, TxOK, tx.owner # None,
         \A i \in 1 .. Len(events) : events'[i] = events[i],
         UNCHANGED <<run, tx, job>>
  PROVE  Reader!Reads(run, tx.run, job.last, tx.last)'
<1>1. \A i \in job.last + 1 .. tx.last : events'[i] = events[i]
  <2>1. tx.last <= Len(events)
    BY DEF TxOK
  <2>2. job.last \in Nat /\ tx.last \in Nat /\ Len(events) \in Nat
    BY TypesOf
  <2>3. \A i \in job.last + 1 .. tx.last : i \in 1 .. Len(events)
    BY ONLY <2>1, <2>2
  <2> QED BY <2>3
<1>2. Reader!Reads(run, tx.run, job.last, tx.last)
  BY DEF TxOK
<1>3. \A i \in job.last + 1 .. tx.last :
        \A k \in job.last + 1 .. i - 1 : events'[k] = events[k]
  <2>1. \A i \in job.last + 1 .. tx.last :
          \A k \in job.last + 1 .. i - 1 : k \in job.last + 1 .. tx.last
    BY TypesOf
  <2> QED BY <1>1, <2>1
<1>4. run' = run /\ tx'.run = tx.run /\ job'.last = job.last /\ tx'.last = tx.last
  OBVIOUS
<1> DEFINE window == job.last + 1 .. tx.last
<1>5. CASE run \in Ending /\ tx.run = run
  BY <1>4, <1>5 DEF Reader!Reads
<1>6. CASE run \notin Ending /\ \E i \in window : /\ events[i] \in Ending /\ tx.run = events[i]
                           /\ \A k \in job.last + 1 .. i - 1 : events[k] \notin Ending
  <2>1. PICK i \in window :
               /\ events[i] \in Ending /\ tx.run = events[i]
               /\ \A k \in job.last + 1 .. i - 1 : events[k] \notin Ending
    BY <1>6
  <2>2. /\ events'[i] \in Ending /\ tx.run = events'[i]
        /\ \A k \in job.last + 1 .. i - 1 : events'[k] \notin Ending
    BY <1>1, <1>3, <2>1
  <2> QED BY ONLY <1>4, <1>6, <2>2, i \in window DEF Reader!Reads
<1>7. CASE /\ run \notin Ending
           /\ \A i \in window : events[i] \notin Ending
           /\ tx.run = IF \E i \in window : events[i] = "running" THEN "running" ELSE run
  <2>1. /\ \A i \in window : events'[i] \notin Ending
        /\ (\E i \in window : events'[i] = "running")
             <=> \E i \in window : events[i] = "running"
    BY <1>1, <1>7
  <2> QED BY ONLY <1>4, <1>7, <2>1 DEF Reader!Reads
<1> QED BY ONLY <1>2, <1>5, <1>6, <1>7 DEF Reader!Reads

\* The moves of a process.
LEMMA GotoMoves ==
  ASSUME procs \in [Poller -> Locals], NEW p \in Poller, NEW pc \in PC, Goto(p, pc)
  PROVE  /\ procs' \in [Poller -> Locals]
         /\ procs'[p].pc = pc
         /\ \A q \in Poller : q # p => procs'[q] = procs[q]
         /\ \A q \in Poller : /\ procs'[q].upto = procs[q].upto
                              /\ procs'[q].next = procs[q].next
BY DEF Goto, Locals

LEMMA RestMoves ==
  ASSUME procs \in [Poller -> Locals], NEW p \in Poller, NEW pc \in PC,
         procs' = [procs EXCEPT ![p] = Resting(pc)]
  PROVE  /\ procs' \in [Poller -> Locals]
         /\ procs'[p].pc = pc /\ procs'[p].upto = 0 /\ procs'[p].next = 1
         /\ \A q \in Poller : q # p => procs'[q] = procs[q]
BY DEF Resting, Locals

LEMMA NextLineMoves ==
  ASSUME procs \in [Poller -> Locals], NEW p \in Poller, NextLine(p)
  PROVE  /\ procs' \in [Poller -> Locals]
         /\ procs'[p].pc = "look" /\ procs'[p].upto = procs[p].upto
         /\ procs'[p].next = procs[p].next + 1
         /\ \A q \in Poller : q # p => procs'[q] = procs[q]
BY DEF NextLine, Locals, PC

\* A process may go anywhere it holds no line: nothing but its own place moves.
LEMMA QuietMoveKeeps ==
  ASSUME IInv, NEW p \in Poller, p # tx.owner,
         procs' \in [Poller -> Locals],
         \A q \in Poller : q # p => procs'[q] = procs[q],
         procs'[p].upto <= Len(lines), procs'[p].next \in {1, procs[p].next},
         procs'[p].pc \in {"ingest", "drain"} => procs'[p].next <= procs'[p].upto,
         UNCHANGED <<journal, inbox, tx>>
  PROVE  ReadingOK' /\ FileOK'
<1> USE DEF IInv, journal
<1>1. ReadingOK'
  <2>1. tx.owner # None => tx.owner \in Poller
    BY TypesOf DEF Context
  <2> QED BY <2>1 DEF ReadingOK
<1>2. FileOK'
  <2>1. ASSUME Persistence = "file", NEW q \in Poller, NEW k \in Sequence,
               k < procs'[q].next
        PROVE  inbox[k] # "absent"
    <3>1. CASE q # p
      BY <2>1, <3>1 DEF FileOK
    <3>2. CASE q = p
      BY <2>1, <3>2 DEF FileOK, Sequence
    <3> QED BY <3>1, <3>2
  <2> QED BY <2>1 DEF FileOK
<1> QED BY <1>1, <1>2

\* Writers only add events and lines: what was read stays as it was.
LEMMA WritersKeep ==
  ASSUME IInv, AppendToFile \/ \E w \in Writer : WriterStep(w)
  PROVE  IInv'
<1> USE DEF IInv
<1>1. CASE AppendToFile
  <2> USE <1>1 DEF AppendToFile, store
  <2>1. PICK t \in Target : events' = Append(events, t)
    OBVIOUS
  <2>2. /\ Len(events') = Len(events) + 1
        /\ \A i \in 1 .. Len(events) : events'[i] = events[i]
    BY <2>1 DEF TypeOK
  <2>3. Len(lines) = Len(events)
    BY DEF FileOK
  <2>4. /\ Len(lines') = Len(lines) + 1
        /\ \A k \in 1 .. Len(lines) : lines'[k] = lines[k]
        /\ lines'[Len(lines) + 1] = Len(lines) + 1
    BY DEF TypeOK
  <2>5. TypeOK'
    <3>1. events' \in Seq(Target) /\ Len(events') <= MaxEvents
      BY <2>1, <2>2 DEF TypeOK
    <3>2. lines' \in Seq(1 .. Len(events'))
      <4>1. lines \in Seq(1 .. Len(events'))
        BY <2>2 DEF TypeOK
      <4> QED BY <4>1, <2>2, <2>3
    <3> QED BY <3>1, <3>2, <2>2 DEF TypeOK
  <2>6. ReadingOK'
    BY SMTT(30), <2>4 DEF ReadingOK, TypeOK, Locals
  <2>7. StoredOK' /\ DrainedInOrder'
    BY SMTT(30), <2>2 DEF StoredOK, DrainedInOrder, Sequence, TypeOK, JobRow
  <2>8. TxOK'
    <3>1. tx.owner # None => Reader!Reads(run, tx.run, job.last, tx.last)'
      BY <2>2, ReadsStays
    <3>2. UNCHANGED <<run, tx, job, inbox>> /\ Len(events) <= Len(events')
      BY <2>2, TypesOf
    <3>3. tx.owner # None => tx.out = Reader!Story(run, tx.run)'
      BY <3>2 DEF TxOK, Reader!Story
    <3>4. ASSUME tx.owner # None
          PROVE  /\ (job.last <= tx.last /\ tx.last <= Len(events))'
                 /\ \A e \in Sequence : (tx.rows[e] # "absent" => e <= Len(events))'
      <4>1. /\ job.last <= tx.last /\ tx.last <= Len(events)
            /\ \A e \in Sequence : tx.rows[e] # "absent" => e <= Len(events)
        BY <3>4 DEF TxOK
      <4>2. tx.last \in Nat /\ Len(events) \in Nat /\ Len(events') \in Nat /\ Sequence \subseteq Nat
        BY <2>2, <3>4, TypesOf DEF TypeOK, Sequence
      <4>3. tx' = tx /\ job' = job /\ Len(events) <= Len(events')
        BY <3>2
      <4>4. tx.last <= Len(events')
        BY <4>1, <4>2, <4>3
      <4>5. \A e \in Sequence : tx.rows[e] # "absent" => e <= Len(events')
        <5> SUFFICES ASSUME NEW e \in Sequence, tx.rows[e] # "absent" PROVE e <= Len(events')
          OBVIOUS
        <5>1. e \in Nat /\ e <= Len(events)
          BY <4>1, <4>2
        <5> HIDE <1>1
        <5> QED BY <5>1, <4>2, <4>3
      <4> QED BY <4>1, <4>3, <4>4, <4>5
    <3>5. Parked(tx.rows, tx.last + 1)' <=> Parked(tx.rows, tx.last + 1)
      BY <3>2 DEF Parked
    <3> HIDE <1>1
    <3> QED BY <3>1, <3>2, <3>3, <3>4, <3>5 DEF TxOK
  <2>9. FileOK'
    BY <2>2, <2>3, <2>4 DEF FileOK, TypeOK
  <2> QED BY <2>5, <2>6, <2>7, <2>8, <2>9
<1>2. ASSUME NEW w \in Writer, NumberEvent(w)
      PROVE  IInv'
  <2> USE <1>2 DEF NumberEvent, store
  <2>1. PICK t \in Target : events' = Append(events, t)
    OBVIOUS
  <2>2. /\ Len(events') = Len(events) + 1
        /\ \A i \in 1 .. Len(events) : events'[i] = events[i]
    BY <2>1 DEF TypeOK
  <2>5. TypeOK'
    <3>1. events' \in Seq(Target) /\ Len(events') <= MaxEvents
      BY <2>1, <2>2 DEF TypeOK
    <3>2. lines' \in Seq(1 .. Len(events'))
      BY <2>2 DEF TypeOK
    <3>3. writing' \in [Writer -> 0 .. Len(events')]
      BY <2>2 DEF TypeOK
    <3> QED BY <3>1, <3>2, <3>3 DEF TypeOK
  <2>6. ReadingOK'
    BY DEF ReadingOK
  <2>7. StoredOK' /\ DrainedInOrder'
    BY SMTT(30), <2>2 DEF StoredOK, DrainedInOrder, Sequence, TypeOK, JobRow
  <2>8. TxOK'
    <3>1. tx.owner # None => Reader!Reads(run, tx.run, job.last, tx.last)'
      BY <2>2, ReadsStays
    <3>2. UNCHANGED <<run, tx, job, inbox>> /\ Len(events) <= Len(events')
      BY <2>2, TypesOf
    <3>3. tx.owner # None => tx.out = Reader!Story(run, tx.run)'
      BY <3>2 DEF TxOK, Reader!Story
    <3>4. ASSUME tx.owner # None
          PROVE  /\ (job.last <= tx.last /\ tx.last <= Len(events))'
                 /\ \A e \in Sequence : (tx.rows[e] # "absent" => e <= Len(events))'
      <4>1. /\ job.last <= tx.last /\ tx.last <= Len(events)
            /\ \A e \in Sequence : tx.rows[e] # "absent" => e <= Len(events)
        BY <3>4 DEF TxOK
      <4>2. tx.last \in Nat /\ Len(events) \in Nat /\ Len(events') \in Nat /\ Sequence \subseteq Nat
        BY <2>2, <3>4, TypesOf DEF TypeOK, Sequence
      <4>3. tx' = tx /\ job' = job /\ Len(events) <= Len(events')
        BY <3>2
      <4>4. tx.last <= Len(events')
        BY <4>1, <4>2, <4>3
      <4>5. \A e \in Sequence : tx.rows[e] # "absent" => e <= Len(events')
        <5> SUFFICES ASSUME NEW e \in Sequence, tx.rows[e] # "absent" PROVE e <= Len(events')
          OBVIOUS
        <5>1. e \in Nat /\ e <= Len(events)
          BY <4>1, <4>2
        <5> HIDE <1>2
        <5> QED BY <5>1, <4>2, <4>3
      <4> QED BY <4>1, <4>3, <4>4, <4>5
    <3>5. Parked(tx.rows, tx.last + 1)' <=> Parked(tx.rows, tx.last + 1)
      BY <3>2 DEF Parked
    <3> HIDE <1>2
    <3> QED BY <3>1, <3>2, <3>3, <3>4, <3>5 DEF TxOK
  <2>9. FileOK'
    BY DEF FileOK
  <2> QED BY <2>5, <2>6, <2>7, <2>8, <2>9
<1>3. ASSUME NEW w \in Writer, ProjectEvent(w) \/ ProjectionFails(w)
      PROVE  IInv'
  <2> USE <1>3 DEF ProjectEvent, ProjectionFails, store
  <2>1. TypeOK'
    <3>1. writing' \in [Writer -> 0 .. Len(events')]
      BY DEF TypeOK
    <3>2. lines' \in Seq(1 .. Len(events'))
      <4>1. writing[w] \in 1 .. Len(events) /\ lines \in Seq(1 .. Len(events))
        BY DEF TypeOK
      <4>2. lines' = Append(lines, writing[w]) \/ lines' = lines
        OBVIOUS
      <4>3. UNCHANGED events
        OBVIOUS
      <4> QED BY ONLY <4>1, <4>2, <4>3
    <3>3. spent' \in [lost : 0 .. MaxLost, crashes : 0 .. MaxCrashes,
                      found : 0 .. MaxFound]
      BY SMTT(30) DEF TypeOK
    <3> QED BY <3>1, <3>2, <3>3 DEF TypeOK
  <2>2. Len(lines) <= Len(lines')
    BY DEF TypeOK
  <2>3. ReadingOK'
    BY SMTT(30), <2>2 DEF ReadingOK, TypeOK, Locals
  <2>4. StoredOK' /\ DrainedInOrder'
    BY DEF StoredOK, DrainedInOrder
  <2>5. TxOK'
    BY DEF TxOK, Parked, Reader!Reads, Reader!Story
  <2>6. FileOK'
    BY DEF FileOK
  <2> QED BY <2>1, <2>3, <2>4, <2>5, <2>6
<1> QED BY <1>1, <1>2, <1>3 DEF WriterStep

\* Reconciliations wait for the lock, so no transaction sees the Run change.
LEMMA SupervisorsKeep ==
  ASSUME IInv, NEW p \in Poller,
         ListForReconciliation(p) \/ Reconcile(p) \/ StopOrTimeOut(p)
  PROVE  IInv'
<1> USE DEF IInv
<1>1. CASE ListForReconciliation(p)
  <2>1. PICK pc \in {"reconcile", "settle", "list"} : Goto(p, pc)
    BY <1>1 DEF ListForReconciliation
  <2>2. /\ UNCHANGED <<journal, run, outbox, inbox, tx>>
        /\ job' = job \/ (Unlocked /\ job' = [job EXCEPT !.recon = TRUE])
    BY <1>1 DEF ListForReconciliation
  <2>3. spent' = spent \/ (spent.found < MaxFound /\ spent' = [spent EXCEPT !.found = @ + 1])
    BY <1>1 DEF ListForReconciliation
  <2>4. /\ procs' \in [Poller -> Locals] /\ procs'[p].pc = pc
        /\ \A q \in Poller : q # p => procs'[q] = procs[q]
        /\ procs'[p].upto = procs[p].upto /\ procs'[p].next = procs[p].next
    BY <2>1, GotoMoves, TypesOf DEF PC
  <2>5. p # tx.owner
    BY <1>1, TypesOf DEF ListForReconciliation, At, ReadingOK, Context
  <2>6. job' \in JobRow /\ job'.last = job.last
    BY <2>2, TypesOf DEF JobRow
  <2>7. spent' \in [lost : 0 .. MaxLost, crashes : 0 .. MaxCrashes,
                    found : 0 .. MaxFound]
    BY SMTT(30), <2>3 DEF TypeOK
  <2>8. TypeOK'
    BY <2>2, <2>4, <2>6, <2>7 DEF TypeOK, journal
  <2>9. ReadingOK' /\ FileOK'
    BY <2>2, <2>4, <2>5, QuietMoveKeeps, TypesOf DEF ReadingOK
  <2>10. StoredOK' /\ DrainedInOrder' /\ TxOK'
    BY <2>2, <2>6 DEF StoredOK, DrainedInOrder, TxOK, Parked, Reader!Reads,
       Reader!Story, journal
  <2> QED BY <2>8, <2>9, <2>10
<1>2. ASSUME NEW state \in JobOver \cup {"running"}, Settles(p, state)
      PROVE  IInv'
  <2> USE <1>2
  <2>1. /\ Unlocked /\ UNCHANGED <<journal, spent, inbox, tx>>
        /\ Goto(p, "list") \/ procs' = [procs EXCEPT ![p] = Resting("down")]
    BY TypesOf DEF Settles, Die, store, Unlocked, NoTx
  <2>2. \/ UNCHANGED <<job, run, outbox>>
        \/ Record(state)
    BY DEF Settles, store
  <2>3. job' \in JobRow /\ job'.last = job.last
    BY <2>2, TypesOf DEF JobRow, Record
  <2>4. run' \in RunStatus /\ outbox' \in Seq(RunStatus)
    <3>1. run \in RunStatus /\ outbox \in Seq(RunStatus)
      BY DEF TypeOK
    <3>2. CASE Record(state) /\ state # "blocked"
      <4>1. state \in RunStatus
        BY <3>2 DEF RunStatus, JobOver, Ending
      <4> QED BY <3>1, <3>2, <4>1 DEF Record
    <3> QED BY <2>2, <3>1, <3>2 DEF Record
  <2>5. /\ procs' \in [Poller -> Locals]
        /\ procs'[p].pc \notin {"ingest", "drain"}
        /\ procs'[p].upto \in {0, procs[p].upto}
        /\ procs'[p].next \in {1, procs[p].next}
        /\ \A q \in Poller : q # p => procs'[q] = procs[q]
    BY <2>1, GotoMoves, RestMoves, TypesOf DEF PC
  <2>6. TypeOK'
    BY <2>1, <2>3, <2>4, <2>5 DEF TypeOK, journal
  <2>7. ReadingOK' /\ FileOK'
    BY SMTT(30), <2>1, <2>5, QuietMoveKeeps, TypesOf DEF ReadingOK, Unlocked
  <2>8. StoredOK' /\ DrainedInOrder' /\ TxOK'
    BY <2>1, <2>3 DEF StoredOK, DrainedInOrder, TxOK, Unlocked, journal
  <2> QED BY <2>6, <2>7, <2>8
<1> QED BY <1>1, <1>2 DEF Reconcile, StopOrTimeOut, JobOver, Ending

\* A process at a line has a line of the file before it.
LEMMA LineIsAnEvent ==
  ASSUME IInv, NEW p \in Poller, procs[p].next <= procs[p].upto
  PROVE  /\ Line(p) \in 1 .. Len(events) /\ Line(p) \in Sequence
         /\ Persistence = "file" => Line(p) = procs[p].next
<1>1. procs[p].next \in 1 .. Len(lines)
  BY SMTT(30), TypesOf DEF IInv, ReadingOK
<1>2. Line(p) \in 1 .. Len(events)
  BY <1>1, TypesOf DEF IInv, Line
<1> QED BY <1>1, <1>2, TypesOf DEF IInv, FileOK, Line, Sequence

\* Only a stored line is passed.
LEMMA NextLineKeeps ==
  ASSUME IInv, NEW p \in Poller, procs[p].next <= procs[p].upto, NextLine(p),
         Persistence = "file" => inbox'[Line(p)] # "absent",
         \A e \in Sequence : inbox[e] # "absent" => inbox'[e] # "absent",
         tx' = tx \/ tx' = NoTx, p = tx.owner => tx' = NoTx,
         UNCHANGED journal
  PROVE  /\ ReadingOK'
         /\ Persistence = "file" => \A q \in Poller, k \in Sequence :
              k < procs'[q].next => inbox'[k] # "absent"
<1>1. /\ procs'[p].pc = "look" /\ procs'[p].upto = procs[p].upto
      /\ procs'[p].next = procs[p].next + 1
      /\ \A q \in Poller : q # p => procs'[q] = procs[q]
  BY NextLineMoves, TypesOf DEF IInv
<1>2. ReadingOK'
  <2>1. tx.owner # None => tx.owner \in Poller
    BY TypesOf DEF IInv, Context
  <2>2. tx'.owner # None => tx' = tx /\ tx.owner # p
    BY DEF NoTx
  <2> QED BY <1>1, <2>1, <2>2 DEF IInv, ReadingOK, journal
<1>3. ASSUME Persistence = "file", NEW q \in Poller, NEW k \in Sequence,
             k < procs'[q].next
      PROVE  inbox'[k] # "absent"
  <2>1. k < procs[q].next => inbox[k] # "absent"
    BY <1>3 DEF IInv, FileOK
  <2>2. k < procs[q].next \/ (q = p /\ k = procs[p].next)
    BY <1>1, <1>3, TypesOf DEF IInv, Sequence
  <2> QED BY <1>3, <2>1, <2>2, LineIsAnEvent
<1> QED BY <1>2, <1>3

\* Reading changes no row; a crash rolls its transaction back.
LEMMA ReadersKeep ==
  ASSUME IInv, NEW p \in Poller,
         \/ ListExternalRuns(p) \/ ReadJournal(p) \/ PollDone(p) \/ Look(p)
         \/ IngestReplay(p) \/ Crash(p) \/ Restart(p)
  PROVE  IInv'
<1> USE DEF IInv
<1>1. UNCHANGED <<journal, store>> /\ (tx' = tx \/ (tx' = NoTx /\ tx.owner = p))
  BY DEF ListExternalRuns, ReadJournal, PollDone, Look, IngestReplay, Crash, Restart, Die
<1>2. StoredOK' /\ DrainedInOrder' /\ TxOK'
  BY <1>1 DEF StoredOK, DrainedInOrder, TxOK, journal, store, Parked, NoTx,
     Reader!Reads, Reader!Story
<1>3. /\ spent' \in [lost : 0 .. MaxLost, crashes : 0 .. MaxCrashes,
                      found : 0 .. MaxFound]
      /\ tx' \in Context
  <2>1. \/ spent' = spent
        \/ spent.crashes < MaxCrashes /\ spent' = [spent EXCEPT !.crashes = @ + 1]
    BY DEF ListExternalRuns, ReadJournal, PollDone, Look, IngestReplay, Crash, Restart
  <2>2. NoTx \in Context
    BY DEF NoTx, Context, RunStatus, RowStatus
  <2> QED BY SMTT(30), <1>1, <2>1, <2>2 DEF TypeOK
<1>4. CASE ListExternalRuns(p) \/ (Look(p) /\ Goto(p, "ingest")) \/ Restart(p)
  <2>1. PICK pc \in {"read", "tick", "ingest"} : Goto(p, pc)
    BY <1>4 DEF ListExternalRuns, Restart
  <2>2. /\ procs' \in [Poller -> Locals] /\ procs'[p].pc = pc
        /\ \A q \in Poller : q # p => procs'[q] = procs[q]
        /\ procs'[p].upto = procs[p].upto /\ procs'[p].next = procs[p].next
    BY <2>1, GotoMoves, TypesOf DEF PC
  <2>3. pc = "ingest" => procs[p].next <= procs[p].upto
    BY <1>4, <2>2, GotoMoves, TypesOf DEF ListExternalRuns, Look, Restart, PC
  <2>4. p # tx.owner /\ tx' = tx
    BY <1>4, TypesOf DEF ListExternalRuns, Look, Restart, At, ReadingOK, Context
  <2>5. ReadingOK' /\ FileOK'
    BY <1>1, <2>2, <2>3, <2>4, QuietMoveKeeps, TypesOf DEF ReadingOK, store
  <2> QED BY <1>1, <1>2, <1>3, <2>2, <2>5 DEF TypeOK, journal, store
<1>5. CASE PollDone(p) \/ ReadJournal(p)
  <2>1. /\ procs' \in [Poller -> Locals]
        /\ \A q \in Poller : q # p => procs'[q] = procs[q]
        /\ procs'[p].pc \in {"tick", "look"} /\ procs'[p].next = 1
        /\ procs'[p].upto <= Len(lines)
    <3>1. CASE PollDone(p)
      <4>1. procs' = [procs EXCEPT ![p] = Resting("tick")] /\ "tick" \in PC
        BY <3>1 DEF PollDone, PC
      <4>2. procs \in [Poller -> Locals] /\ Len(lines) \in Nat
        BY TypesOf
      <4>3. /\ procs' \in [Poller -> Locals]
            /\ procs'[p].pc = "tick" /\ procs'[p].upto = 0 /\ procs'[p].next = 1
            /\ \A q \in Poller : q # p => procs'[q] = procs[q]
        BY <4>1, <4>2, RestMoves
      <4> QED BY <4>2, <4>3
    <3>2. CASE ReadJournal(p)
      <4> DEFINE place == [pc |-> "look", upto |-> Len(lines), next |-> 1]
      <4>1. place \in Locals
        BY TypesOf DEF Locals, PC
      <4>2. procs' = [procs EXCEPT ![p] = place]
        BY <3>2 DEF ReadJournal
      <4>3. procs \in [Poller -> Locals] /\ Len(lines) \in Nat
        BY TypesOf
      <4> QED BY <4>1, <4>2, <4>3
    <3> QED BY <1>5, <3>1, <3>2
  <2>2. p # tx.owner /\ tx' = tx
    BY <1>5, TypesOf DEF PollDone, ReadJournal, At, ReadingOK, Context
  <2>3. ReadingOK' /\ FileOK'
    BY <1>1, <2>1, <2>2, QuietMoveKeeps DEF store
  <2> QED BY <1>1, <1>2, <1>3, <2>1, <2>3 DEF TypeOK, journal, store
<1>6. CASE (Look(p) /\ NextLine(p)) \/ IngestReplay(p)
  <2>1. /\ procs[p].next <= procs[p].upto /\ NextLine(p)
        /\ p # tx.owner /\ tx' = tx
    BY <1>6, TypesOf DEF Look, IngestReplay, At, ReadingOK, Context
  <2>2. inbox[Line(p)] # "absent"
    <3>1. Goto(p, "ingest") => ~NextLine(p)
      BY GotoMoves, NextLineMoves, TypesOf DEF PC
    <3> QED BY <1>6, <3>1 DEF Look, IngestReplay
  <2>3. /\ ReadingOK'
        /\ Persistence = "file" => \A q \in Poller, k \in Sequence :
             k < procs'[q].next => inbox'[k] # "absent"
    BY <1>1, <2>1, <2>2, NextLineKeeps DEF store
  <2>4. FileOK'
    BY <1>1, <2>1, <2>3 DEF FileOK, journal, store
  <2>5. procs' \in [Poller -> Locals]
    BY <2>1, NextLineMoves, TypesOf
  <2> QED BY <1>1, <1>2, <1>3, <2>3, <2>4, <2>5 DEF TypeOK, journal, store
<1>7. CASE Crash(p)
  <2>1. /\ procs' \in [Poller -> Locals]
        /\ procs'[p].pc = "down" /\ procs'[p].upto = 0 /\ procs'[p].next = 1
        /\ \A q \in Poller : q # p => procs'[q] = procs[q]
    BY <1>7, RestMoves, TypesOf DEF Crash, Die, PC
  <2>2. tx.owner = p => tx'.owner = None
    BY <1>7 DEF Crash, Die, NoTx
  <2>3. ReadingOK'
    <3>1. tx.owner # None => tx.owner \in Poller
      BY TypesOf DEF Context
    <3>2. tx'.owner # None => tx' = tx /\ tx.owner # p
      BY <1>1, <2>2 DEF NoTx
    <3>3. ASSUME NEW q \in Poller
          PROVE  /\ procs'[q].upto <= Len(lines)
                 /\ procs'[q].pc \in {"ingest", "drain"} => procs'[q].next <= procs'[q].upto
      <4>1. CASE q = p
        BY <2>1, <4>1, TypesOf
      <4>2. CASE q # p
        BY <2>1, <4>2 DEF ReadingOK
      <4> QED BY <4>1, <4>2
    <3>4. tx'.owner # None => procs'[tx'.owner].pc = "drain"
      BY <2>1, <3>1, <3>2 DEF ReadingOK
    <3> QED BY <1>1, <3>3, <3>4 DEF ReadingOK, journal
  <2>4. FileOK'
    <3>1. ASSUME Persistence = "file", NEW q \in Poller, NEW k \in Sequence,
                 k < procs'[q].next
          PROVE  inbox[k] # "absent"
      BY <2>1, <3>1 DEF FileOK, Sequence
    <3> QED BY <1>1, <2>2, <3>1 DEF FileOK, journal, store
  <2> QED BY <1>1, <1>2, <1>3, <2>1, <2>3, <2>4 DEF TypeOK, journal, store
<1> QED BY <1>4, <1>5, <1>6, <1>7 DEF Look, IngestReplay

\* A parked event leaves the hole before it; no event comes late, since the
\* rows up to last_event_sequence are all there.
LEMMA OutOfOrderKeeps ==
  ASSUME IInv, NEW p \in Poller, IngestOutOfOrder(p)
  PROVE  IInv'
<1> DEFINE e == Line(p)
<1> USE DEF IInv
<1>1. /\ Unlocked /\ procs[p].pc = "ingest" /\ procs[p].next <= procs[p].upto
      /\ NextLine(p) /\ UNCHANGED <<journal, run, outbox, tx, spent>>
  BY DEF IngestOutOfOrder, ReadingOK, At
<1>2. e \in Sequence /\ e \in 1 .. Len(events)
      /\ (Persistence = "file" => e = procs[p].next)
  BY <1>1, LineIsAnEvent
<1>3. inbox[e] = "absent" /\ e # job.last + 1
  BY DEF IngestOutOfOrder, Reached
<1>4. e > job.last
  <2>1. e \in Nat \ {0} /\ job.last \in Nat
    BY <1>2, TypesOf
  <2>2. e \notin 1 .. job.last
    BY <1>3 DEF DrainedInOrder
  <2> QED BY <2>1, <2>2
<1>5. inbox' = [inbox EXCEPT ![e] = "gap"] /\ job' = [job EXCEPT !.recon = TRUE]
  BY <1>4, TypesOf DEF IngestOutOfOrder, JobRow
<1>6. /\ inbox' \in [Sequence -> RowStatus] /\ inbox'[e] = "gap"
      /\ \A k \in Sequence : k # e => inbox'[k] = inbox[k]
  BY <1>2, <1>5, TypesOf DEF RowStatus
<1>7. job' \in JobRow /\ job'.last = job.last
  BY <1>5, TypesOf DEF JobRow
<1>8. TypeOK'
  <2>1. procs' \in [Poller -> Locals]
    BY <1>1, NextLineMoves, TypesOf
  <2> QED BY <1>1, <1>6, <1>7, <2>1 DEF TypeOK, journal
<1>9. ReadingOK'
  <2>1. p # tx.owner
    BY <1>1 DEF Unlocked
  <2> QED BY <1>1, <1>6, <2>1, NextLineKeeps
<1>10. StoredOK'
  BY <1>1, <1>2, <1>6, <1>7 DEF StoredOK, journal
<1>11. DrainedInOrder'
  <2>1. e \in 1 .. MaxEvents /\ e \notin 1 .. job.last /\ e # job.last + 1
    BY <1>2, <1>3, <1>4, TypesOf DEF Sequence
  <2>2. /\ \A k \in 1 .. job.last : k \in Sequence
        /\ \A k \in job.last + 1 .. MaxEvents : k \in Sequence
        /\ job.last < MaxEvents => job.last + 1 \in Sequence
    BY TypesOf DEF Sequence
  <2> QED BY <1>6, <1>7, <2>1, <2>2 DEF DrainedInOrder
<1>12. TxOK'
  BY <1>1 DEF TxOK, Unlocked
<1>13. Persistence # "file"
  <2> SUFFICES ASSUME Persistence = "file" PROVE FALSE
    OBVIOUS
  <2>1. e = procs[p].next /\ \A k \in Sequence : k < e => inbox[k] # "absent"
    BY <1>2 DEF FileOK
  <2>2. job.last + 1 \in Sequence /\ job.last + 1 < e
    <3>1. e \in 1 .. MaxEvents /\ job.last \in 0 .. MaxEvents
      BY <1>2, TypesOf DEF Sequence
    <3> QED BY <1>3, <1>4, <3>1 DEF Sequence
  <2>3. inbox[job.last + 1] = "absent"
    BY <2>2, TypesOf DEF DrainedInOrder, Sequence
  <2> QED BY <2>1, <2>2, <2>3
<1>14. FileOK'
  BY <1>13 DEF FileOK
<1> QED BY <1>8, <1>9, <1>10, <1>11, <1>12, <1>14

\* The transaction opens with nothing read.
LEMMA NextKeeps ==
  ASSUME IInv, NEW p \in Poller, IngestNext(p)
  PROVE  IInv'
<1> DEFINE e == Line(p)
<1> USE DEF IInv
<1>1. /\ Unlocked /\ procs[p].pc = "ingest" /\ procs[p].next <= procs[p].upto
      /\ Goto(p, "drain") /\ UNCHANGED <<journal, store, spent>>
  BY DEF IngestNext, ReadingOK, At
<1>2. e \in Sequence /\ e \in 1 .. Len(events) /\ e = job.last + 1
  BY <1>1, LineIsAnEvent DEF IngestNext, Reached
<1>3. tx' = [owner |-> p, run |-> run, last |-> job.last,
             rows |-> [inbox EXCEPT ![e] = "pending"], out |-> <<>>]
  BY DEF IngestNext
<1>4. /\ tx'.rows \in [Sequence -> RowStatus] /\ tx'.rows[e] = "pending"
      /\ \A k \in Sequence : k # e => tx'.rows[k] = inbox[k]
  BY <1>2, <1>3, TypesOf DEF RowStatus
<1>5. /\ procs' \in [Poller -> Locals] /\ procs'[p].pc = "drain"
      /\ \A q \in Poller : q # p => procs'[q] = procs[q]
      /\ \A q \in Poller : procs'[q].upto = procs[q].upto
                           /\ procs'[q].next = procs[q].next
  BY <1>1, GotoMoves, TypesOf DEF PC
<1>6. tx' \in Context
  BY <1>3, <1>4, TypesOf DEF Context
<1>7. TypeOK'
  BY <1>1, <1>5, <1>6 DEF TypeOK, journal, store
<1>8. ReadingOK'
  BY <1>1, <1>3, <1>5, TypesOf DEF ReadingOK, journal
<1>9. StoredOK' /\ DrainedInOrder'
  BY <1>1 DEF StoredOK, DrainedInOrder, journal, store
<1>10. TxOK'
  <2>1. \A k \in Sequence :
          /\ k <= job.last => inbox[k] \in Processed
          /\ k > job.last => inbox[k] \in {"absent", "gap"}
    BY TypesOf DEF DrainedInOrder, Processed, Sequence
  <2>2. ASSUME NEW k \in Sequence
        PROVE  /\ k <= job.last => tx'.rows[k] \in Processed
               /\ k > job.last => \/ tx'.rows[k] \in {"absent", "gap"}
                                  \/ tx'.rows[k] = "pending" /\ k = job.last + 1
               /\ tx'.rows[k] # "absent" => k <= Len(events)
               /\ inbox[k] # "absent" => tx'.rows[k] # "absent"
    BY <1>2, <1>4, <2>1, TypesOf DEF StoredOK
  <2>3. Reader!Reads(run, run, job.last, job.last)
    BY TypesOf DEF Reader!Reads
  <2>4. Reader!Story(run, run) = <<>>
    BY DEF Reader!Story
  <2>5. Parked(tx'.rows, job.last + 1)
    BY <1>2, <1>4 DEF Parked
  <2>6. job.last <= Len(events)
    BY DEF StoredOK
  <2>7. Reader!Reads(run, tx.run, job.last, tx.last)'
    BY <1>1, <1>3, <2>3, TypesOf DEF Reader!Reads, store
  <2>8. (tx.out = Reader!Story(run, tx.run))'
    BY <1>1, <1>3, <2>4 DEF Reader!Story, store
  <2>9. UNCHANGED <<events, job, inbox>> /\ tx'.last = job.last
    BY <1>1, <1>3 DEF journal, store
  <2>10. Parked(tx.rows, tx.last + 1)'
    BY <2>5, <2>9 DEF Parked
  <2> QED BY <2>2, <2>6, <2>7, <2>8, <2>9, <2>10, TypesOf DEF TxOK
<1>11. FileOK'
  BY <1>1, <1>4, <1>5 DEF FileOK, journal, store
<1> QED BY <1>7, <1>8, <1>9, <1>10, <1>11

\* What a Run publishes that starts and ends.
LEMMA RunningThen ==
  ASSUME NEW t
  PROVE  <<"running">> \o <<t>> = <<"running", t>>
<1> DEFINE S == {"running", t}
           a == <<"running">>
           b == <<t>>
           c == <<"running", t>>
<1>1. a \in Seq(S) /\ b \in Seq(S) /\ c \in Seq(S)
  OBVIOUS
<1>2. Len(a) = 1 /\ Len(b) = 1 /\ Len(c) = 2
  OBVIOUS
<1>3. a[1] = "running" /\ b[1] = t /\ c[1] = "running" /\ c[2] = t
  OBVIOUS
<1> HIDE DEF a, b, c, S
<1>4. /\ a \o b \in Seq(S) /\ Len(a \o b) = Len(c)
      /\ (a \o b)[1] = "running" /\ (a \o b)[2] = t
  <2>1. \A i \in 1 .. Len(a) + Len(b) : (a \o b)[i] =
              IF i <= Len(a) THEN a[i] ELSE b[i - Len(a)]
    BY <1>1, ConcatProperties
  <2>2. a \o b \in Seq(S) /\ Len(a \o b) = Len(a) + Len(b)
    BY <1>1, ConcatProperties
  <2> QED BY <1>2, <1>3, <2>1, <2>2
<1>5. \A i \in 1 .. Len(a \o b) : (a \o b)[i] = c[i]
  <2>1. \A i \in 1 .. Len(a \o b) : i = 1 \/ i = 2
    BY <1>2, <1>4
  <2> QED BY <1>3, <1>4, <2>1
<1>6. a \o b = c
  BY <1>1, <1>4, <1>5, SeqEqual
<1> QED BY <1>6 DEF a, b, c

\* One turn reads one more event, as JournalReader would.
LEMMA TurnReads ==
  ASSUME IInv, NEW p \in Poller, DrainTurn(p)
  PROVE  /\ tx'.owner = tx.owner /\ tx'.last = tx.last + 1
         /\ tx.last + 1 \in Sequence /\ tx.last + 1 <= Len(events)
         /\ tx'.run \in RunStatus
         /\ Reader!Reads(run, tx'.run, job.last, tx.last + 1)
         /\ tx'.out = Reader!Story(run, tx'.run)
<1> DEFINE e == tx.last + 1
           t == events[e]
<1> USE DEF IInv
<1>1. e \in Sequence /\ tx.rows[e] # "absent" /\ tx.owner # None
  BY DEF DrainTurn, Parked
<1>2. /\ e <= Len(events) /\ job.last <= tx.last
      /\ Reader!Reads(run, tx.run, job.last, tx.last)
      /\ tx.out = Reader!Story(run, tx.run)
  BY <1>1 DEF TxOK
<1>3. t \in Ending \cup {"running", "none"}
  <2>1. e \in 1 .. Len(events)
    BY <1>1, <1>2, TypesOf DEF Sequence
  <2> QED BY <2>1, TypesOf
<1>4. tx.run \in RunStatus /\ run \in RunStatus /\ tx.last \in Nat /\ job.last \in Nat
  BY TypesOf DEF Context
<1>5. /\ job.last + 1 .. e = (job.last + 1 .. tx.last) \cup {e}
      /\ \A i \in job.last + 1 .. tx.last : i \in job.last + 1 .. e
      /\ e \in job.last + 1 .. e /\ e - 1 = tx.last
  BY SMTT(30), <1>2, <1>4
<1>6. CASE RunOver(tx.run)
  <2>1. tx' = [tx EXCEPT !.last = e, !.rows[e] = "terminal_ignored"]
    BY <1>6 DEF DrainTurn
  <2>2. tx'.run = tx.run /\ tx'.out = tx.out /\ tx'.last = e /\ tx'.owner = tx.owner
    BY <2>1, TypesOf DEF Context
  <2>3. \/ run \in Ending /\ tx.run = run
        \/ /\ run \notin Ending
           /\ \E i \in job.last + 1 .. tx.last :
                /\ events[i] \in Ending /\ tx.run = events[i]
                /\ \A k \in job.last + 1 .. i - 1 : events[k] \notin Ending
    BY <1>2, <1>6 DEF Reader!Reads, RunOver, Ending
  <2>4. Reader!Reads(run, tx.run, job.last, e)
    BY <1>5, <2>3 DEF Reader!Reads
  <2> QED BY <1>1, <1>2, <1>4, <2>2, <2>4
<1>7. CASE ~RunOver(tx.run)
  <2> DEFINE moves == Turned(tx.run, t)
             new == IF moves = <<>> THEN tx.run ELSE t
  <2>1. tx' = [tx EXCEPT !.last = e, !.rows[e] = "applied", !.run = new,
                         !.out = @ \o moves]
    BY <1>7 DEF DrainTurn
  <2>2. tx'.run = new /\ tx'.out = tx.out \o moves /\ tx'.last = e /\ tx'.owner = tx.owner
    BY <2>1, TypesOf DEF Context
  <2>3. /\ run \notin Ending
        /\ \A i \in job.last + 1 .. tx.last : events[i] \notin Ending
        /\ tx.run = IF \E i \in job.last + 1 .. tx.last : events[i] = "running"
                    THEN "running" ELSE run
    BY <1>2, <1>7 DEF Reader!Reads, RunOver
  <2>4. /\ run \in {"queued", "running"} /\ tx.run \in {run, "running"}
        /\ tx.run \in {"queued", "running"}
    BY <1>4, <2>3 DEF RunStatus
  <2>5. /\ new = IF t = "none" THEN tx.run ELSE t
        /\ moves = IF t \in {"none", tx.run} THEN <<>>
                   ELSE IF tx.run = "queued" /\ t # "running" THEN <<"running", t>>
                   ELSE <<t>>
    <3>1. CASE t \in {"none", tx.run}
      <4>1. moves = <<>>
        BY <3>1 DEF Turned
      <4> QED BY <2>4, <3>1, <4>1
    <3>2. CASE t \notin {"none", tx.run} /\ tx.run = "queued" /\ t # "running"
      <4>1. moves = <<"running", t>> /\ <<"running", t>> # <<>>
        BY <3>2 DEF Turned
      <4> QED BY <3>2, <4>1
    <3>3. CASE t \notin {"none", tx.run} /\ ~(tx.run = "queued" /\ t # "running")
      <4>1. moves = <<t>> /\ <<t>> # <<>>
        BY <3>3 DEF Turned
      <4> QED BY <3>3, <4>1
    <3> QED BY <3>1, <3>2, <3>3
  <2>6. Reader!Reads(run, new, job.last, e)
    <3>1. CASE t \in Ending
      <4>1. new = t
        BY <2>5, <3>1 DEF Ending
      <4>2. \A k \in job.last + 1 .. e - 1 : events[k] \notin Ending
        BY <1>5, <2>3
      <4> QED BY <1>5, <2>3, <3>1, <4>1, <4>2 DEF Reader!Reads
    <3>2. CASE t = "running"
      <4>1. \A i \in job.last + 1 .. e : events[i] \notin Ending
        BY <1>5, <2>3, <3>2 DEF Ending
      <4> QED BY <1>5, <2>3, <2>5, <3>2, <4>1 DEF Reader!Reads
    <3>3. CASE t = "none"
      <4>1. \A i \in job.last + 1 .. e : events[i] \notin Ending
        BY <1>5, <2>3, <3>3 DEF Ending
      <4>2. (\E i \in job.last + 1 .. e : events[i] = "running")
             <=> \E i \in job.last + 1 .. tx.last : events[i] = "running"
        BY <1>5, <3>3
      <4> QED BY <2>3, <2>5, <3>3, <4>1, <4>2 DEF Reader!Reads
    <3> QED BY <1>3, <3>1, <3>2, <3>3
  <2>7. tx.out \o moves = Reader!Story(run, new)
    <3>1. CASE tx.run = run
      BY <1>2, <1>3, <2>4, <2>5, <3>1 DEF Reader!Story, Ending
    <3>2. CASE tx.run # run
      <4>1. run = "queued" /\ tx.run = "running" /\ tx.out = <<"running">>
        BY <1>2, <2>4, <3>2 DEF Reader!Story
      <4>2. CASE t \in {"none", "running"}
        BY <2>5, <4>1, <4>2 DEF Reader!Story
      <4>3. CASE t \in Ending
        <5>1. new = t /\ moves = <<t>> /\ t # "queued" /\ t # "running"
          BY <2>5, <4>1, <4>3 DEF Ending
        <5>2. Reader!Story(run, new) = <<"running", t>>
          BY <4>1, <5>1 DEF Reader!Story
        <5>3. <<"running">> \o <<t>> = <<"running", t>>
          BY RunningThen, <1>3
        <5> QED BY <4>1, <5>1, <5>2, <5>3
      <4> QED BY <1>3, <4>2, <4>3
    <3> QED BY <3>1, <3>2
  <2>8. new \in RunStatus
    BY <1>3, <1>4, <2>5 DEF RunStatus
  <2> QED BY <1>1, <1>2, <2>2, <2>6, <2>7, <2>8
<1> QED BY <1>6, <1>7

LEMMA TurnKeeps ==
  ASSUME IInv, NEW p \in Poller, DrainTurn(p)
  PROVE  IInv'
<1> DEFINE e == tx.last + 1
<1> USE DEF IInv
<1>1. tx.owner = p /\ tx.owner # None /\ UNCHANGED <<journal, store, procs, spent>>
  BY DEF DrainTurn
<1>2. /\ tx'.owner = p /\ tx'.last = e /\ e \in Sequence /\ e <= Len(events)
      /\ tx'.run \in RunStatus
      /\ Reader!Reads(run, tx'.run, job.last, e)
      /\ tx'.out = Reader!Story(run, tx'.run)
  BY <1>1, TurnReads
<1>3. PICK s \in Processed : tx'.rows = [tx.rows EXCEPT ![e] = s]
  BY TypesOf DEF DrainTurn, Processed, Context
<1>4. tx.rows \in [Sequence -> RowStatus]
  BY TypesOf DEF Context
<1>5. /\ tx'.rows \in [Sequence -> RowStatus] /\ tx'.rows[e] \in Processed
      /\ \A k \in Sequence : k # e => tx'.rows[k] = tx.rows[k]
  BY <1>2, <1>3, <1>4 DEF RowStatus, Processed
<1>6. tx' \in Context
  <2>1. tx'.out \in Seq(RunStatus)
    <3>1. Reader!Story(run, tx'.run) \in Seq(RunStatus)
      <4>1. tx'.run \in RunStatus /\ "running" \in RunStatus
        BY <1>2 DEF RunStatus
      <4>2. /\ <<>> \in Seq(RunStatus) /\ <<tx'.run>> \in Seq(RunStatus)
            /\ <<"running", tx'.run>> \in Seq(RunStatus)
        BY <4>1
      <4> QED BY <4>2 DEF Reader!Story
    <3> QED BY <1>2, <3>1
  <2>2. \E r, o : tx' = [owner |-> tx.owner, run |-> r, last |-> e, rows |-> tx'.rows,
                        out |-> o]
    BY TypesOf DEF DrainTurn, Context
  <2> QED BY <1>1, <1>2, <1>5, <2>1, <2>2 DEF Context, Sequence
<1>7. TypeOK'
  BY <1>1, <1>6 DEF TypeOK, journal, store
<1>8. ReadingOK' /\ StoredOK' /\ DrainedInOrder'
  BY <1>1, <1>2 DEF ReadingOK, StoredOK, DrainedInOrder, journal, store
<1>9. TxOK'
  <2>1. job.last <= tx.last /\ tx.last \in Nat /\ job.last \in Nat
    BY <1>1, TypesOf DEF TxOK
  <2>2. ASSUME NEW k \in Sequence
        PROVE  /\ k <= e => tx'.rows[k] \in Processed
               /\ k > e => tx'.rows[k] \in {"absent", "gap"}
               /\ tx'.rows[k] # "absent" => k <= Len(events)
               /\ inbox[k] # "absent" => tx'.rows[k] # "absent"
    <3>1. CASE k = e
      BY <1>2, <1>5, <3>1 DEF Processed, Sequence
    <3>2. CASE k # e
      <4>1. /\ k <= tx.last => tx.rows[k] \in Processed
            /\ k > tx.last => \/ tx.rows[k] \in {"absent", "gap"}
                              \/ tx.rows[k] = "pending" /\ k = tx.last + 1
            /\ tx.rows[k] # "absent" => k <= Len(events)
            /\ inbox[k] # "absent" => tx.rows[k] # "absent"
        BY <1>1 DEF TxOK
      <4>2. k \in Nat
        BY DEF Sequence
      <4> QED BY <1>5, <2>1, <3>2, <4>1, <4>2
    <3> QED BY <3>1, <3>2
  <2>3. tx'.last # job.last /\ job.last <= tx'.last
    BY <1>2, <2>1
  <2>4. UNCHANGED <<events, job, inbox, run>>
    BY <1>1 DEF journal, store
  <2>5. Reader!Reads(run, tx.run, job.last, tx.last)'
    BY <1>2, <2>4 DEF Reader!Reads
  <2>6. (tx.out = Reader!Story(run, tx.run))'
    BY <1>2, <2>4 DEF Reader!Story
  <2> QED BY <1>2, <2>2, <2>3, <2>4, <2>5, <2>6 DEF TxOK
<1>10. FileOK'
  BY <1>1, <1>5 DEF FileOK, journal, store, Processed
<1> QED BY <1>7, <1>8, <1>9, <1>10

\* The commit stores what was read: the turns stopped at a row that is absent.
LEMMA CommitReads ==
  ASSUME IInv, NEW p \in Poller, CommitIngest(p)
  PROVE  /\ tx.owner = p /\ job.last < tx.last /\ tx.last <= Len(events)
         /\ tx.last \in Sequence
         /\ \A e \in Sequence :
              /\ e <= tx.last => tx.rows[e] \in Processed
              /\ e > tx.last => tx.rows[e] \in {"absent", "gap"}
              /\ e = tx.last + 1 => tx.rows[e] = "absent"
              /\ tx.rows[e] # "absent" => e <= Len(events)
              /\ inbox[e] # "absent" => tx.rows[e] # "absent"
         /\ job' \in JobRow /\ job'.last = tx.last
         /\ job'.recon = GapsRemain(tx.rows, tx.last)
<1> USE DEF IInv
<1>1. tx.owner = p /\ tx.owner # None /\ ~Parked(tx.rows, tx.last + 1)
  BY DEF CommitIngest, Drained
<1>2. job.last < tx.last /\ tx.last <= Len(events) /\ tx.last \in Sequence
  <2>1. tx.last # job.last
    BY <1>1 DEF TxOK
  <2>2. job.last <= tx.last /\ tx.last <= Len(events)
    BY <1>1 DEF TxOK
  <2> QED BY <2>1, <2>2, TypesOf DEF Sequence
<1>3. ASSUME NEW e \in Sequence
      PROVE  /\ e <= tx.last => tx.rows[e] \in Processed
             /\ e > tx.last => tx.rows[e] \in {"absent", "gap"}
             /\ tx.rows[e] # "absent" => e <= Len(events)
             /\ inbox[e] # "absent" => tx.rows[e] # "absent"
  <2>1. /\ e <= tx.last => tx.rows[e] \in Processed
        /\ e > tx.last => \/ tx.rows[e] \in {"absent", "gap"}
                          \/ tx.rows[e] = "pending" /\ tx.last = job.last
        /\ tx.rows[e] # "absent" => e <= Len(events)
        /\ inbox[e] # "absent" => tx.rows[e] # "absent"
    BY <1>1 DEF TxOK
  <2>2. tx.last # job.last
    BY <1>2, TypesOf
  <2> QED BY <2>1, <2>2
<1>4. ASSUME NEW e \in Sequence, e = tx.last + 1
      PROVE  tx.rows[e] = "absent"
  <2>1. tx.rows[e] \in {"absent", "gap"}
    BY <1>3, <1>4, TypesOf
  <2> QED BY <1>1, <1>4, <2>1 DEF Parked
<1>5. /\ job' \in JobRow /\ job'.last = tx.last
      /\ job'.recon = GapsRemain(tx.rows, tx.last)
  <2>1. tx.run \in RunStatus
    BY TypesOf DEF Context
  <2>2. (IF tx.run = "queued" THEN "running" ELSE tx.run)
          \in {"starting", "running"} \cup JobOver
    BY <2>1 DEF RunStatus, JobOver
  <2>3. GapsRemain(tx.rows, tx.last) \in BOOLEAN
    BY DEF GapsRemain
  <2>4. job' = [state |-> IF tx.run = "queued" THEN "running" ELSE tx.run,
                recon |-> GapsRemain(tx.rows, tx.last), last |-> tx.last]
    BY DEF CommitIngest
  <2> QED BY <2>2, <2>3, <2>4, TypesOf DEF JobRow
<1> QED BY <1>1, <1>2, <1>3, <1>4, <1>5

\* A file is read from its first line, so the commit covers the line itself.
LEMMA CommitKeeps ==
  ASSUME IInv, NEW p \in Poller, CommitIngest(p)
  PROVE  IInv'
<1> USE DEF IInv
<1>1. /\ NextLine(p) /\ tx' = NoTx /\ inbox' = tx.rows /\ run' = tx.run
      /\ outbox' = outbox \o tx.out /\ UNCHANGED <<journal, spent>>
  BY DEF CommitIngest
<1>2. /\ tx.owner = p /\ job.last < tx.last /\ tx.last <= Len(events)
      /\ tx.last \in Sequence /\ job' \in JobRow /\ job'.last = tx.last
  BY CommitReads
<1>3. \A e \in Sequence :
        /\ e <= tx.last => inbox'[e] \in Processed
        /\ e > tx.last => inbox'[e] \in {"absent", "gap"}
        /\ e = tx.last + 1 => inbox'[e] = "absent"
        /\ inbox'[e] # "absent" => e <= Len(events)
        /\ inbox[e] # "absent" => inbox'[e] # "absent"
  BY <1>1, CommitReads
<1>4. procs[p].pc = "drain" /\ procs[p].next <= procs[p].upto
  BY <1>2 DEF ReadingOK
<1>5. TypeOK'
  <2>1. /\ tx.rows \in [Sequence -> RowStatus] /\ tx.run \in RunStatus
        /\ tx.out \in Seq(RunStatus)
    BY TypesOf DEF Context
  <2>2. outbox' \in Seq(RunStatus)
    BY <1>1, <2>1 DEF TypeOK
  <2>3. procs' \in [Poller -> Locals]
    BY <1>1, NextLineMoves, TypesOf
  <2>4. NoTx \in Context
    BY DEF NoTx, Context, RunStatus, RowStatus
  <2> QED BY <1>1, <1>2, <2>1, <2>2, <2>3, <2>4 DEF TypeOK, journal
<1>6. StoredOK'
  BY <1>1, <1>2, <1>3 DEF StoredOK, journal
<1>7. DrainedInOrder'
  <2>1. job'.last \in 1 .. MaxEvents /\ MaxEvents \in Nat
    BY <1>2 DEF Sequence
  <2> QED BY <1>2, <1>3, <2>1 DEF DrainedInOrder, Sequence, Processed
<1>8. TxOK'
  BY <1>1 DEF TxOK, NoTx
<1>9. Persistence = "file" => inbox'[Line(p)] # "absent"
  <2> SUFFICES ASSUME Persistence = "file" PROVE inbox'[Line(p)] # "absent"
    OBVIOUS
  <2>1. Line(p) = procs[p].next /\ procs[p].next \in Sequence
    BY <1>4, LineIsAnEvent
  <2>2. procs[p].next <= job.last + 1
    <3> SUFFICES ASSUME procs[p].next > job.last + 1 PROVE FALSE
      BY <2>1, TypesOf DEF Sequence
    <3>1. procs[p].next - 1 \in Sequence /\ procs[p].next - 1 \in job.last + 1 .. MaxEvents
      BY <2>1, TypesOf DEF Sequence
    <3>2. inbox[procs[p].next - 1] \in {"absent", "gap"}
      BY <3>1 DEF DrainedInOrder
    <3>3. inbox[procs[p].next - 1] \notin {"absent", "gap"}
      BY <3>1, <2>1 DEF FileOK, Sequence
    <3> QED BY <3>2, <3>3
  <2>3. procs[p].next <= tx.last
    BY <1>2, <2>1, <2>2, TypesOf DEF Sequence
  <2> QED BY <1>3, <2>1, <2>3 DEF Processed
<1>10. /\ ReadingOK'
       /\ Persistence = "file" => \A q \in Poller, k \in Sequence :
            k < procs'[q].next => inbox'[k] # "absent"
  BY <1>1, <1>3, <1>4, <1>9, NextLineKeeps
<1>11. FileOK'
  <2>1. tx'.owner = None
    BY <1>1 DEF NoTx
  <2>2. Persistence = "file" => \A e \in Sequence : inbox'[e] # "gap"
    BY <1>1, <1>2 DEF FileOK
  <2> QED BY <1>1, <1>10, <2>1, <2>2 DEF FileOK, journal
<1> QED BY <1>5, <1>6, <1>7, <1>8, <1>10, <1>11

LEMMA Inductive == IInv /\ [Next]_vars => IInv'
<1> SUFFICES ASSUME IInv, [Next]_vars PROVE IInv'
  OBVIOUS
<1>1. CASE AppendToFile \/ \E w \in Writer : WriterStep(w)
  BY <1>1, WritersKeep
<1>2. ASSUME NEW p \in Poller, Step(p) \/ Crash(p) \/ Restart(p)
      PROVE  IInv'
  <2>1. CASE ListForReconciliation(p) \/ Reconcile(p) \/ StopOrTimeOut(p)
    BY <2>1, SupervisorsKeep
  <2>2. CASE \/ ListExternalRuns(p) \/ ReadJournal(p) \/ PollDone(p) \/ Look(p)
             \/ IngestReplay(p) \/ Crash(p) \/ Restart(p)
    BY <2>2, ReadersKeep
  <2>3. CASE IngestOutOfOrder(p)
    BY <2>3, OutOfOrderKeeps
  <2>4. CASE IngestNext(p)
    BY <2>4, NextKeeps
  <2>5. CASE DrainTurn(p)
    BY <2>5, TurnKeeps
  <2>6. CASE CommitIngest(p)
    BY <2>6, CommitKeeps
  <2> QED BY <1>2, <2>1, <2>2, <2>3, <2>4, <2>5, <2>6 DEF Step
<1>3. CASE UNCHANGED vars
  BY <1>3 DEF vars, IInv, TypeOK, ReadingOK, StoredOK, DrainedInOrder, TxOK, FileOK,
     Parked, Reader!Reads, Reader!Story
<1> QED BY <1>1, <1>2, <1>3 DEF Next

\* The invariant that ties an open transaction to what it has read.
THEOREM InboxInvariant == Spec => []IInv
<1> QED BY InitHolds, Inductive, PTL DEF Spec

\* Every column and local stays in its domain (TypeOK of EventInbox): the
\* drain loop never counts a sequence the run has not numbered.
THEOREM InboxTypesHold == Spec => []TypeOK
<1>1. IInv => TypeOK
  BY DEF IInv
<1> QED BY <1>1, InboxInvariant, PTL

\* The inbox is a processed prefix, a hole, and parked events (DrainedInOrder
\* of EventInbox): ingest and its drain loop, whatever order the lines have.
THEOREM InboxDrainsInOrder == Spec => []DrainedInOrder
<1>1. IInv => DrainedInOrder
  BY DEF IInv
<1> QED BY <1>1, InboxInvariant, PTL

\* No event of a file run is ever parked (FileNeverParks of EventInbox): the
\* numbering under the file's lock and the poller's reading from line 1.
THEOREM FilesNeverPark == Spec => []FileNeverParks
<1>1. IInv => FileNeverParks
  BY DEF IInv, FileOK, FileNeverParks
<1> QED BY <1>1, InboxInvariant, PTL

\* What a step does to the flag.
LEMMA FlagStep ==
  ASSUME IInv, Next, job.recon, ~job'.recon, \E e \in Sequence : inbox'[e] = "gap"
  PROVE  \E p \in Poller : At(p, "reconcile") \/ At(p, "settle")
<1>1. CASE AppendToFile \/ \E w \in Writer : WriterStep(w)
  BY <1>1 DEF AppendToFile, WriterStep, NumberEvent, ProjectEvent, ProjectionFails, store
<1>2. ASSUME NEW p \in Poller, Step(p) \/ Crash(p) \/ Restart(p)
      PROVE  At(p, "reconcile") \/ At(p, "settle")
  <2>1. CASE Reconcile(p) \/ StopOrTimeOut(p)
    BY <2>1 DEF Reconcile, StopOrTimeOut
  <2>2. CASE \/ ListExternalRuns(p) \/ ReadJournal(p) \/ PollDone(p) \/ Look(p)
             \/ IngestReplay(p) \/ Crash(p) \/ Restart(p) \/ IngestNext(p) \/ DrainTurn(p)
    <3>1. UNCHANGED store
      BY <2>2 DEF ListExternalRuns, ReadJournal, PollDone, Look, IngestReplay, Crash,
         Restart, IngestNext, DrainTurn
    <3> QED BY <3>1 DEF store
  <2>3. CASE ListForReconciliation(p)
    <3>1. job' = job \/ job' = [job EXCEPT !.recon = TRUE]
      BY <2>3 DEF ListForReconciliation
    <3> QED BY <3>1, TypesOf DEF IInv, JobRow
  <2>4. CASE IngestOutOfOrder(p)
    <3>1. job' = [job EXCEPT !.recon = @ \/ Line(p) > job.last]
      BY <2>4 DEF IngestOutOfOrder
    <3> QED BY <3>1, TypesOf DEF IInv, JobRow
  <2>5. CASE CommitIngest(p)
    <3>1. PICK e \in Sequence : tx.rows[e] = "gap"
      BY <2>5 DEF CommitIngest
    <3>2. e > tx.last
      <4>1. TypeOK
        BY DEF IInv
      <4>2. e \in Nat /\ tx.last \in Nat
        BY <4>1, TypesOf DEF Sequence
      <4>3. e <= tx.last => tx.rows[e] \in Processed
        BY <2>5, CommitReads
      <4> QED BY <3>1, <4>2, <4>3 DEF Processed
    <3>3. job'.recon = GapsRemain(tx.rows, tx.last)
      BY <2>5, CommitReads
    <3> QED BY <3>1, <3>2, <3>3 DEF GapsRemain
  <2> QED BY <1>2, <2>1, <2>2, <2>3, <2>4, <2>5 DEF Step
<1> QED BY <1>1, <1>2 DEF Next

\* Only a reconciliation clears the flag while an event is still parked
\* (FlagKeptForGaps of EventInbox): the update that ends ingest.
THEOREM FlagIsKept == Spec => FlagKeptForGaps
<1>1. IInv /\ [Next]_vars =>
        [job.recon /\ ~job'.recon /\ (\E e \in Sequence : inbox'[e] = "gap")
           => \E p \in Poller : At(p, "reconcile") \/ At(p, "settle")]_vars
  BY FlagStep
<1> QED BY <1>1, InboxInvariant, PTL DEF Spec, FlagKeptForGaps

\* Every step of the inbox is a step of JournalReader, or hidden from it.
LEMMA ReaderStep ==
  ASSUME IInv, Next
  PROVE  Reader!Next \/ UNCHANGED Reader!vars
<1>1. CASE AppendToFile \/ \E w \in Writer : WriterStep(w)
  <2>1. CASE AppendToFile \/ \E w \in Writer : NumberEvent(w)
    <3>1. \E t \in Target : Reader!Emit(t)
      BY <2>1 DEF AppendToFile, NumberEvent, store, Reader!Emit
    <3> QED BY <3>1 DEF Reader!Next
  <2>2. CASE \E w \in Writer : ProjectEvent(w) \/ ProjectionFails(w)
    BY <2>2 DEF ProjectEvent, ProjectionFails, store, Reader!vars
  <2> QED BY <1>1, <2>1, <2>2 DEF WriterStep
<1>2. ASSUME NEW p \in Poller, Step(p) \/ Crash(p) \/ Restart(p)
      PROVE  Reader!Next \/ UNCHANGED Reader!vars
  <2>1. CASE Reconcile(p) \/ StopOrTimeOut(p)
    <3>1. PICK state \in JobOver \cup {"running"} : Settles(p, state)
      BY <2>1 DEF Reconcile, StopOrTimeOut, JobOver, Ending
    <3>2. UNCHANGED events
      BY <3>1 DEF Settles, journal
    <3>3. CASE ~LiveJob
      BY <3>1, <3>2, <3>3 DEF Settles, store, Reader!vars
    <3>4. CASE LiveJob
      <4>1. Record(state)
        BY <3>1, <3>4 DEF Settles
      <4>2. job'.last = job.last
        BY <4>1, TypesOf DEF IInv, Record, JobRow
      <4>3. CASE state = "blocked" \/ run \in Ending \/ run = state
        BY <3>2, <4>1, <4>2, <4>3 DEF Record, Reader!vars
      <4>4. CASE ~(state = "blocked" \/ run \in Ending \/ run = state)
        <5>1. state \in Ending \cup {"running"}
          BY <3>1, <4>4 DEF JobOver
        <5>2. Reader!Settle(state)
          BY <3>2, <4>1, <4>2, <4>4 DEF Record, Reader!Settle
        <5> QED BY <5>1, <5>2 DEF Reader!Next
      <4> QED BY <4>3, <4>4
    <3> QED BY <3>3, <3>4
  <2>2. CASE \/ ListExternalRuns(p) \/ ReadJournal(p) \/ PollDone(p) \/ Look(p)
             \/ IngestReplay(p) \/ Crash(p) \/ Restart(p) \/ IngestNext(p) \/ DrainTurn(p)
    <3>1. UNCHANGED <<journal, store>>
      BY <2>2 DEF ListExternalRuns, ReadJournal, PollDone, Look, IngestReplay, Crash,
         Restart, IngestNext, DrainTurn
    <3> QED BY <3>1 DEF journal, store, Reader!vars
  <2>3. CASE ListForReconciliation(p) \/ IngestOutOfOrder(p)
    <3>1. UNCHANGED <<events, run, outbox>>
      BY <2>3 DEF ListForReconciliation, IngestOutOfOrder, journal
    <3>2. job' = job \/ \E recon \in BOOLEAN : job' = [job EXCEPT !.recon = recon]
      BY <2>3, TypesOf DEF IInv, ListForReconciliation, IngestOutOfOrder, JobRow
    <3>3. job'.last = job.last
      BY <3>2, TypesOf DEF IInv, JobRow
    <3> QED BY <3>1, <3>3 DEF Reader!vars
  <2>4. CASE CommitIngest(p)
    <3>1. /\ tx.owner = p /\ job.last < tx.last /\ tx.last <= Len(events)
          /\ tx.last \in Sequence /\ job'.last = tx.last
      BY <2>4, CommitReads
    <3>2. tx.owner # None
      BY <3>1
    <3>3. Reader!Reads(run, tx.run, job.last, tx.last) /\ tx.out = Reader!Story(run, tx.run)
      BY <3>2 DEF IInv, TxOK
    <3>4. UNCHANGED events /\ run' = tx.run /\ outbox' = outbox \o tx.out
      BY <2>4 DEF CommitIngest, journal
    <3>5. Reader!Read(tx.last, tx.run)
      BY <3>1, <3>3, <3>4 DEF Reader!Read
    <3>6. tx.last \in job.last + 1 .. Len(events)
      BY <3>1, TypesOf DEF IInv, Sequence
    <3>7. tx.run \in Ending \cup {"queued", "running"}
      BY TypesOf DEF IInv, Context, RunStatus
    <3> QED BY <3>5, <3>6, <3>7 DEF Reader!Next
  <2> QED BY <1>2, <2>1, <2>2, <2>3, <2>4 DEF Step
<1> QED BY <1>1, <1>2 DEF Next

\* The inbox implements JournalReader (ReadsInOrder of EventInbox): ingest,
\* transitionRun and commitExternalState between them give a Run the statuses
\* of its events, read once and in order, and publish each change.
THEOREM InboxReadsInOrder == Spec => ReadsInOrder
<1>1. Init => Reader!Init
  BY DEF Init, Reader!Init
<1>2. IInv /\ [Next]_vars => [Reader!Next]_(Reader!vars)
  BY ReaderStep DEF vars, Reader!vars
<1> QED BY <1>1, <1>2, InboxInvariant, PTL DEF Spec, Reader!Spec, ReadsInOrder
-----------------------------------------------------------------------------
HIDE InboxAssumption DEF InboxAssumption

(* The workbench: types.  The rows of a snapshot are places in the history   *)
(* of the answers; a projector that works has read some of them.            *)
Place == Nat \ {0}
Rows == [Row -> Place]
SomeRows == UNION {[R -> Place] : R \in SUBSET Row}
Triggers == [Row -> Nat]
Snapshot == [revision : Nat, cursor : Triggers, rows : Rows]
JobState == [cursor : Triggers, rows : SomeRows]
AnyRow == [of : Nat, version : Nat]
Answers == Seq(AnyRow)
JobPair == [new : AnyRow, before : AnyRow]
Tables == [issues : Answers, runs : Answers, jobs : Seq(JobPair)]
Tasks == [Row -> AnyRow]
Receipt == [project : Project, saw : Tasks, on : Tasks, status : ReceiptStatus]
Bounds == [changes : [Project -> Nat], commands : [Project -> Nat],
           replays : Nat, failures : Nat, lost : Nat]

WorkbenchTypes ==
    /\ stored \in [Project -> Snapshot]
    /\ jobs \in [Projector -> [Project -> JobState]]
    /\ page.rows \in [Project -> Rows]
    /\ \A f \in fetches : f.answer.rows \in [Project -> Rows]
    /\ receipts \in SUBSET Receipt
    /\ used \in Bounds

(* Tables and history: with time the row a query gives for a revision of the *)
(* issue is of the same attempt at a later version, or of a later attempt.  *)
(* A job of an earlier attempt may lead, and then gives way to the newest.  *)
Le(a, b) == a.of < b.of \/ (a.of = b.of /\ a.version <= b.version)
AnswerLe(s, t) == Len(s) <= Len(t) /\ \A n \in 1 .. Len(s) : Le(s[n], t[n])
PairFits(j, attempt) ==
    j.new.of = attempt /\ (j.before = NoRow \/ j.before.of < attempt)
Fits(t) ==
    /\ t \in Tables
    /\ Len(t.issues) > 0 /\ Len(t.runs) = Len(t.issues) /\ Len(t.jobs) = Len(t.issues)
    /\ \A n \in 1 .. Len(t.issues) :
         t.issues[n].of = n /\ PairFits(t.jobs[n], t.runs[n].of)
Grows(h) == \A i, k \in 1 .. Len(h) : i <= k => AnswerLe(h[i], h[k])
Numbered(h) == \A i \in 1 .. Len(h) : /\ Len(h[i]) > 0
                                      /\ \A n \in 1 .. Len(h[i]) : h[i][n].of = n
TablesFit == tables \in [Project -> Tables] /\ \A p \in Project : Fits(tables[p])
HistoryGrows ==
    /\ history \in [Project -> [Row -> Seq(Answers)]]
    /\ \A p \in Project, r \in Row :
         /\ Len(history[p][r]) > 0
         /\ history[p][r][Len(history[p][r])] = Query(tables[p], r)
         /\ Grows(history[p][r])
    /\ \A p \in Project : Numbered(history[p]["issue"])

(* What has been read or stored is not behind its cursor, and nothing shows  *)
(* what has not been committed.                                             *)
Committed(p, r) == Len(history[p][r])
Known(rows, p) == \A r \in Row : rows[r] <= Committed(p, r)
StoredHonest ==
    \A p \in Project :
      /\ \A r \in Row : stored[p].cursor[r] <= stored[p].rows[r]
      /\ Known(stored[p].rows, p)
JobHonest(work, p) ==
    /\ \A r \in Row : work.cursor[r] <= Committed(p, r)
    /\ \A r \in DOMAIN work.rows :
         work.cursor[r] <= work.rows[r] /\ work.rows[r] <= Committed(p, r)
JobsHonest == \A a \in Projector, p \in Project : JobHonest(jobs[a][p], p)
PagesKnown ==
    \A p \in Project : Known(page.rows[p], p) /\ \A f \in fetches : Known(f.answer.rows[p], p)

(* Until a replay runs, the loop publishes alone and snapshots only grow:   *)
(* what it reads is not behind the stored rows, and these are not behind    *)
(* what the page shows or will show.                                        *)
Behind(rows, p) == \A r \in Row : rows[r] <= stored[p].rows[r]
Undisturbed ==
    used.replays = 0 =>
      \A p \in Project :
        /\ jobs["replay"][p] = Idle
        /\ \A r \in DOMAIN jobs["loop"][p].rows :
             stored[p].rows[r] <= jobs["loop"][p].rows[r]
        /\ Behind(page.rows[p], p)
        /\ \A f \in fetches : Behind(f.answer.rows[p], p)

WorkbenchInv ==
    /\ WorkbenchTypes
    /\ TablesFit /\ HistoryGrows
    /\ StoredHonest /\ JobsHonest /\ PagesKnown
    /\ Undisturbed /\ CommandsFitTheTask
-----------------------------------------------------------------------------
(* Rows and answers.                                                        *)
LEMMA AnswersInOrder ==
    ASSUME NEW s \in Answers, NEW t \in Answers, NEW u \in Answers,
           AnswerLe(s, t), AnswerLe(t, u)
    PROVE  AnswerLe(s, s) /\ AnswerLe(s, u)
<1>1. \A x \in {s, t, u} : Len(x) \in Nat /\ \A n \in 1 .. Len(x) : x[n] \in AnyRow
  BY DEF Answers
<1>2. AnswerLe(s, s)
  BY <1>1 DEF AnswerLe, Le, AnyRow
<1>3. ASSUME NEW n \in 1 .. Len(s) PROVE Le(s[n], u[n])
  <2>1. n \in 1 .. Len(t) /\ n \in 1 .. Len(u)
    <3>1. Len(s) <= Len(t) /\ Len(t) <= Len(u)
      BY DEF AnswerLe
    <3> QED
      BY <1>1, <1>3, <3>1
  <2>2. Le(s[n], t[n]) /\ Le(t[n], u[n])
    BY <1>3, <2>1 DEF AnswerLe
  <2>3. s[n] \in AnyRow /\ t[n] \in AnyRow /\ u[n] \in AnyRow
    BY <1>1, <1>3, <2>1
  <2> QED
    BY <2>2, <2>3 DEF Le, AnyRow
<1>4. Len(s) <= Len(u)
  BY <1>1 DEF AnswerLe
<1> QED
  BY <1>2, <1>3, <1>4 DEF AnswerLe

LEMMA HistoryAppends ==
    ASSUME NEW h \in Seq(Answers), Len(h) > 0, Grows(h), NEW a \in Answers,
           AnswerLe(h[Len(h)], a)
    PROVE  Grows(Append(h, a))
<1> DEFINE g == Append(h, a)
<1>1. /\ Len(g) = Len(h) + 1 /\ Len(h) \in Nat /\ g[Len(h) + 1] = a
      /\ \A i \in 1 .. Len(h) : g[i] = h[i] /\ h[i] \in Answers
  OBVIOUS
<1>2. AnswerLe(a, a)
  <2>1. Len(a) \in Nat /\ \A n \in 1 .. Len(a) : a[n] \in AnyRow
    BY DEF Answers
  <2> QED
    BY <2>1 DEF AnswerLe, Le, AnyRow
<1>3. ASSUME NEW i \in 1 .. Len(h) PROVE AnswerLe(h[i], a)
  <2>1. AnswerLe(h[i], h[Len(h)]) /\ Len(h) \in 1 .. Len(h)
    BY <1>1, <1>3 DEF Grows
  <2> QED
    BY <1>1, <2>1, AnswersInOrder
<1>4. ASSUME NEW i \in 1 .. Len(g), NEW k \in 1 .. Len(g), i <= k
      PROVE  AnswerLe(g[i], g[k])
  <2>1. CASE k = Len(h) + 1 /\ i = Len(h) + 1
    BY <1>1, <1>2, <2>1
  <2>2. CASE k = Len(h) + 1 /\ i # Len(h) + 1
    <3>1. i \in 1 .. Len(h)
      BY <1>1, <1>4, <2>2
    <3> QED
      BY <1>1, <1>3, <2>2, <3>1
  <2>3. CASE k # Len(h) + 1
    <3>1. i \in 1 .. Len(h) /\ k \in 1 .. Len(h)
      BY <1>1, <1>4, <2>3
    <3> QED
      BY <1>1, <1>4, <3>1 DEF Grows
  <2> QED
    BY <2>1, <2>2, <2>3
<1> QED
  BY <1>4 DEF Grows

\* A task made of later answers is of a later revision or attempt, or of the
\* same ones at versions that are not smaller.
LEMMA TaskGrows ==
    ASSUME HistoryGrows, NEW p \in Project, NEW old \in Rows, NEW new \in Rows,
           \A r \in Row : old[r] <= new[r], Known(new, p)
    PROVE  /\ Task(p, old) \in Tasks /\ Task(p, new) \in Tasks
           /\ (\A r \in Row : Task(p, old)[r].of = Task(p, new)[r].of) =>
                \A r \in Row : Task(p, old)[r].version <= Task(p, new)[r].version
<1> DEFINE before == [r \in Row |-> history[p][r][old[r]]]
           after == [r \in Row |-> history[p][r][new[r]]]
           m == Len(before["issue"])
           n == Len(after["issue"])
<1>1. \A r \in Row : /\ history[p][r] \in Seq(Answers)
                     /\ old[r] \in 1 .. Len(history[p][r]) /\ new[r] \in 1 .. Len(history[p][r])
  <2> SUFFICES ASSUME NEW r \in Row
               PROVE  /\ history[p][r] \in Seq(Answers)
                      /\ old[r] \in 1 .. Len(history[p][r]) /\ new[r] \in 1 .. Len(history[p][r])
    OBVIOUS
  <2>1. history[p][r] \in Seq(Answers)
    BY DEF HistoryGrows
  <2>2. old[r] \in Nat \ {0} /\ new[r] \in Nat \ {0}
    BY DEF Rows, Place
  <2>3. old[r] <= new[r] /\ new[r] <= Len(history[p][r]) /\ Len(history[p][r]) \in Nat
    BY <2>1 DEF Known, Committed
  <2> QED
    BY <2>1, <2>2, <2>3
<1>2. \A r \in Row : before[r] \in Answers /\ after[r] \in Answers
  BY <1>1
<1>3. \A r \in Row : AnswerLe(before[r], after[r])
  <2> TAKE r \in Row
  <2>1. Grows(history[p][r])
    BY DEF HistoryGrows
  <2>2. AnswerLe(history[p][r][old[r]], history[p][r][new[r]])
    BY <1>1, <2>1 DEF Grows
  <2> QED
    BY <2>2
<1>4. /\ m \in Nat /\ m > 0 /\ before["issue"][m].of = m
      /\ n \in Nat /\ n > 0 /\ after["issue"][n].of = n
  <2>1. "issue" \in Row
    BY DEF Row
  <2>2. Numbered(history[p]["issue"])
    BY DEF HistoryGrows
  <2>3. m \in Nat /\ n \in Nat
    <3> HIDE DEF before, after
    <3>1. before["issue"] \in Seq(AnyRow) /\ after["issue"] \in Seq(AnyRow)
      BY <1>2, <2>1 DEF Answers
    <3> QED
      BY <3>1
  <2>4. /\ before["issue"] = history[p]["issue"][old["issue"]]
        /\ after["issue"] = history[p]["issue"][new["issue"]]
    BY <2>1
  <2>5. old["issue"] \in 1 .. Len(history[p]["issue"]) /\ new["issue"] \in 1 .. Len(history[p]["issue"])
    BY <1>1, <2>1
  <2>6. m > 0 /\ n > 0
    BY <2>2, <2>4, <2>5 DEF Numbered
  <2>7. m \in 1 .. Len(before["issue"]) /\ n \in 1 .. Len(after["issue"])
    BY <2>3, <2>6
  <2> QED
    BY <2>2, <2>3, <2>4, <2>5, <2>6, <2>7 DEF Numbered
<1>5. /\ Task(p, old) = [r \in Row |-> IF m <= Len(before[r]) THEN before[r][m] ELSE NoRow]
      /\ Task(p, new) = [r \in Row |-> IF n <= Len(after[r]) THEN after[r][n] ELSE NoRow]
  BY DEF Task
<1> HIDE DEF before, after
<1>6. \A r \in Row : Len(before[r]) \in Nat /\ Len(after[r]) \in Nat
  BY <1>2 DEF Answers
<1>7. Task(p, old) \in Tasks
  <2>1. NoRow \in AnyRow
    BY DEF NoRow, RowOf, AnyRow
  <2>2. \A r \in Row : m <= Len(before[r]) => before[r][m] \in AnyRow
    BY <1>2, <1>4, <1>6 DEF Answers
  <2> QED
    BY <1>5, <2>1, <2>2 DEF Tasks
<1>8. Task(p, new) \in Tasks
  <2>1. NoRow \in AnyRow
    BY DEF NoRow, RowOf, AnyRow
  <2>2. \A r \in Row : n <= Len(after[r]) => after[r][n] \in AnyRow
    BY <1>2, <1>4, <1>6 DEF Answers
  <2> QED
    BY <1>5, <2>1, <2>2 DEF Tasks
<1>9. ASSUME \A r \in Row : Task(p, old)[r].of = Task(p, new)[r].of, NEW r \in Row
      PROVE  Task(p, old)[r].version <= Task(p, new)[r].version
  <2>1. m = n
    <3>1. "issue" \in Row
      BY DEF Row
    <3>2. m <= Len(before["issue"]) /\ n <= Len(after["issue"])
      BY <1>6, <3>1
    <3>3. Task(p, old)["issue"] = before["issue"][m] /\ Task(p, new)["issue"] = after["issue"][n]
      BY <1>5, <3>1, <3>2
    <3> QED
      BY <1>4, <1>9, <3>1, <3>3
  <2>2. Task(p, new)[r] \in AnyRow /\ Task(p, old)[r] \in AnyRow
    BY <1>7, <1>8 DEF Tasks
  <2>3. CASE m <= Len(before[r])
    <3>1. m \in 1 .. Len(before[r]) /\ m <= Len(after[r])
      BY <1>3, <1>4, <1>6, <2>3 DEF AnswerLe
    <3>2. Le(before[r][m], after[r][m])
      BY <1>3, <3>1 DEF AnswerLe
    <3>3. Task(p, old)[r] = before[r][m] /\ Task(p, new)[r] = after[r][m]
      BY <1>5, <2>1, <2>3, <3>1
    <3>4. \A x, y \in AnyRow : Le(x, y) /\ x.of = y.of => x.version <= y.version
      BY DEF Le, AnyRow
    <3>5. Task(p, old)[r].of = Task(p, new)[r].of
      BY <1>9
    <3> HIDE DEF m, n
    <3> QED
      BY <2>2, <3>2, <3>3, <3>4, <3>5
  <2>4. CASE ~(m <= Len(before[r]))
    <3>1. Task(p, old)[r].version = 0
      BY <1>5, <2>4 DEF NoRow, RowOf
    <3> QED
      BY <2>2, <3>1 DEF AnyRow
  <2> QED
    BY <2>3, <2>4
<1> QED
  BY <1>7, <1>8, <1>9
-----------------------------------------------------------------------------
(* The commits.  Each moves the rows of the newest revision of the issue on, *)
(* or adds a revision.                                                      *)
Advances(t, u) == \A r \in Row : AnswerLe(Query(t, r), Query(u, r))

LEMMA LeadingRow ==
    ASSUME NEW j \in JobPair
    PROVE  Leading(j) \in AnyRow
BY DEF Leading, JobPair, AnyRow

LEMMA QueryAnswers ==
    ASSUME NEW t \in Tables, NEW r \in Row
    PROVE  Query(t, r) \in Answers
<1>1. CASE r = "issue"
  BY <1>1 DEF Query, Tables
<1>2. CASE r = "run"
  BY <1>2 DEF Query, Tables
<1>3. CASE r = "job"
  <2>1. Query(t, r) = [n \in DOMAIN t.jobs |-> Leading(t.jobs[n])]
    BY <1>3 DEF Query
  <2>2. t.jobs \in Seq(JobPair)
    BY DEF Tables
  <2>3. Len(t.jobs) \in Nat /\ DOMAIN t.jobs = 1 .. Len(t.jobs)
    BY <2>2
  <2>4. \A n \in DOMAIN t.jobs : Leading(t.jobs[n]) \in AnyRow
    BY <2>2, <2>3, LeadingRow
  <2>5. Query(t, r) \in [1 .. Len(t.jobs) -> AnyRow]
    BY <2>1, <2>3, <2>4
  <2> QED
    BY <2>3, <2>5, IsASeq DEF Answers
<1> QED
  BY <1>1, <1>2, <1>3 DEF Row

LEMMA TablesAdvance ==
    ASSUME NEW t, Fits(t), NEW u \in Tables,
           Len(t.issues) <= Len(u.issues),
           Len(u.runs) = Len(u.issues), Len(u.jobs) = Len(u.issues),
           \A n \in 1 .. Len(u.issues) :
             u.issues[n].of = n /\ PairFits(u.jobs[n], u.runs[n].of),
           \A n \in 1 .. Len(t.issues) :
             /\ Le(t.issues[n], u.issues[n]) /\ Le(t.runs[n], u.runs[n])
             /\ Le(Leading(t.jobs[n]), Leading(u.jobs[n]))
    PROVE  Fits(u) /\ Advances(t, u)
<1>1. t \in Tables /\ Len(t.issues) \in Nat /\ Len(u.issues) \in Nat
  BY DEF Fits, Tables, Answers
<1>2. /\ Len(t.issues) > 0 /\ Len(t.runs) = Len(t.issues) /\ Len(t.jobs) = Len(t.issues)
      /\ DOMAIN t.jobs = 1 .. Len(t.issues) /\ DOMAIN u.jobs = 1 .. Len(u.issues)
  BY <1>1 DEF Fits, Tables
<1>3. Fits(u)
  BY <1>1, <1>2 DEF Fits
<1>4. ASSUME NEW r \in Row PROVE AnswerLe(Query(t, r), Query(u, r))
  <2>1. CASE r = "issue"
    <3>1. Query(t, r) = t.issues /\ Query(u, r) = u.issues
      BY <2>1 DEF Query
    <3> QED
      BY <3>1 DEF AnswerLe
  <2>2. CASE r = "run"
    <3>1. Query(t, r) = t.runs /\ Query(u, r) = u.runs
      BY <2>2 DEF Query
    <3> QED
      BY <1>2, <3>1 DEF AnswerLe
  <2>3. CASE r = "job"
    <3>1. /\ Query(t, r) = [n \in 1 .. Len(t.issues) |-> Leading(t.jobs[n])]
          /\ Query(u, r) = [n \in 1 .. Len(u.issues) |-> Leading(u.jobs[n])]
      BY <1>2, <2>3 DEF Query
    <3>2. Query(t, r) \in Answers /\ Query(u, r) \in Answers
      BY <1>1, QueryAnswers
    <3>3. Len(Query(t, r)) = Len(t.issues) /\ Len(Query(u, r)) = Len(u.issues)
      BY <1>1, <3>1, <3>2 DEF Answers
    <3> QED
      BY <1>1, <3>1, <3>3 DEF AnswerLe
  <2> QED
    BY <2>1, <2>2, <2>3 DEF Row
<1> QED
  BY <1>3, <1>4 DEF Advances

\* The rows of the newest revision are replaced.
LEMMA NewestAdvances ==
    ASSUME NEW t, Fits(t), NEW n, n = Len(t.issues),
           NEW i \in AnyRow, NEW r \in AnyRow, NEW j \in JobPair,
           i.of = n, PairFits(j, r.of),
           Le(t.issues[n], i), Le(t.runs[n], r), Le(Leading(t.jobs[n]), Leading(j)),
           NEW u, u = [issues |-> [t.issues EXCEPT ![n] = i],
                       runs |-> [t.runs EXCEPT ![n] = r], jobs |-> [t.jobs EXCEPT ![n] = j]]
    PROVE  Fits(u) /\ Advances(t, u)
<1>1. /\ t.issues \in Seq(AnyRow) /\ t.runs \in Seq(AnyRow) /\ t.jobs \in Seq(JobPair)
      /\ Len(t.runs) = n /\ Len(t.jobs) = n /\ n \in Nat /\ n > 0
      /\ \A k \in 1 .. n : t.issues[k].of = k /\ PairFits(t.jobs[k], t.runs[k].of)
  BY DEF Fits, Tables, Answers
<1>2. /\ u.issues \in Seq(AnyRow) /\ Len(u.issues) = n
      /\ \A k \in 1 .. n : u.issues[k] = IF k = n THEN i ELSE t.issues[k]
  <2>1. u.issues = [t.issues EXCEPT ![n] = i] /\ n \in 1 .. Len(t.issues)
    BY <1>1
  <2> QED
    BY <1>1, <2>1, ExceptSeq
<1>3. /\ u.runs \in Seq(AnyRow) /\ Len(u.runs) = n
      /\ \A k \in 1 .. n : u.runs[k] = IF k = n THEN r ELSE t.runs[k]
  <2>1. u.runs = [t.runs EXCEPT ![n] = r] /\ n \in 1 .. Len(t.runs)
    BY <1>1
  <2> QED
    BY <1>1, <2>1, ExceptSeq
<1>4. /\ u.jobs \in Seq(JobPair) /\ Len(u.jobs) = n
      /\ \A k \in 1 .. n : u.jobs[k] = IF k = n THEN j ELSE t.jobs[k]
  <2>1. u.jobs = [t.jobs EXCEPT ![n] = j] /\ n \in 1 .. Len(t.jobs)
    BY <1>1
  <2> QED
    BY <1>1, <2>1, ExceptSeq
<1>5. u \in Tables
  BY <1>2, <1>3, <1>4 DEF Tables, Answers
<1>6. ASSUME NEW k \in 1 .. n
      PROVE  /\ u.issues[k].of = k /\ PairFits(u.jobs[k], u.runs[k].of)
             /\ Le(t.issues[k], u.issues[k]) /\ Le(t.runs[k], u.runs[k])
             /\ Le(Leading(t.jobs[k]), Leading(u.jobs[k]))
  <2>1. CASE k = n
    BY <1>2, <1>3, <1>4, <1>6, <2>1
  <2>2. CASE k # n
    <3>1. u.issues[k] = t.issues[k] /\ u.runs[k] = t.runs[k] /\ u.jobs[k] = t.jobs[k]
      BY <1>2, <1>3, <1>4, <1>6, <2>2
    <3>2. /\ t.issues[k] \in AnyRow /\ t.runs[k] \in AnyRow
          /\ t.jobs[k] \in JobPair
      BY <1>1, <1>6
    <3>3. Leading(t.jobs[k]) \in AnyRow
      BY <3>2, LeadingRow
    <3>4. \A x \in AnyRow : Le(x, x)
      BY DEF Le, AnyRow
    <3> QED
      BY <1>1, <1>6, <3>1, <3>2, <3>3, <3>4
  <2> QED
    BY <2>1, <2>2
<1>7. Len(u.issues) = n /\ Len(u.runs) = n /\ Len(u.jobs) = n /\ n <= n
  BY <1>1, <1>2, <1>3, <1>4
<1> QED
  BY <1>5, <1>6, <1>7, TablesAdvance
-----------------------------------------------------------------------------
LEMMA NextVersion ==
    ASSUME NEW x \in AnyRow, NEW y, y = [x EXCEPT !.version = @ + 1]
    PROVE  y \in AnyRow /\ y.of = x.of /\ y.version = x.version + 1 /\ Le(x, y) /\ Le(x, x)
BY DEF AnyRow, Le

LEMMA NextJobVersion ==
    ASSUME NEW j \in JobPair, NEW k, k = [j EXCEPT !.new.version = @ + 1]
    PROVE  k \in JobPair /\ k.before = j.before /\ k.new.of = j.new.of /\ Le(j.new, k.new)
<1>1. PICK y : y = [j.new EXCEPT !.version = @ + 1]
  OBVIOUS
<1>2. j = [new |-> j.new, before |-> j.before]
  BY DEF JobPair
<1>3. k = [new |-> y, before |-> j.before]
  BY <1>1, <1>2
<1>4. j.new \in AnyRow /\ j.before \in AnyRow
  BY DEF JobPair
<1>5. y \in AnyRow /\ y.of = j.new.of /\ Le(j.new, y)
  BY <1>1, <1>4, NextVersion
<1> QED
  BY <1>3, <1>4, <1>5 DEF JobPair

LEMMA WriteIssueAdvances ==
    ASSUME TablesFit, NEW p \in Project, WriteIssue(p)
    PROVE  \E u : Commit(p, u) /\ Fits(u) /\ Advances(tables[p], u)
<1> DEFINE t == tables[p]
           n == Len(t.issues)
           i == [t.issues[n] EXCEPT !.version = @ + 1]
           u == [issues |-> [t.issues EXCEPT ![n] = i],
                 runs |-> [t.runs EXCEPT ![n] = t.runs[n]],
                 jobs |-> [t.jobs EXCEPT ![n] = t.jobs[n]]]
<1>1. Fits(t)
  BY DEF TablesFit
<1>2. /\ t \in Tables /\ t.issues \in Seq(AnyRow) /\ t.runs \in Seq(AnyRow)
      /\ t.jobs \in Seq(JobPair) /\ n \in Nat /\ n > 0 /\ Len(t.runs) = n /\ Len(t.jobs) = n
      /\ t.issues[n].of = n /\ PairFits(t.jobs[n], t.runs[n].of)
  BY <1>1 DEF Fits, Tables, Answers
<1>3. t.issues[n] \in AnyRow /\ t.runs[n] \in AnyRow /\ t.jobs[n] \in JobPair
  BY <1>2
<1>4. i \in AnyRow /\ i.of = n /\ Le(t.issues[n], i)
  <2>1. i = [t.issues[n] EXCEPT !.version = @ + 1]
    OBVIOUS
  <2> HIDE DEF t, i
  <2> QED
    BY <1>2, <1>3, <2>1, NextVersion
<1>5. Le(t.runs[n], t.runs[n]) /\ Le(Leading(t.jobs[n]), Leading(t.jobs[n]))
  BY <1>3, LeadingRow DEF Le, AnyRow
<1>6. Fits(u) /\ Advances(t, u)
  <2> HIDE DEF t, i
  <2> QED
    BY <1>1, <1>2, <1>3, <1>4, <1>5, NewestAdvances
<1>7. [t EXCEPT !.issues[n].version = @ + 1] = u
  <2>1. [t.issues EXCEPT ![n].version = @ + 1] = [t.issues EXCEPT ![n] = i]
    OBVIOUS
  <2>2. [t.runs EXCEPT ![n] = t.runs[n]] = t.runs /\ [t.jobs EXCEPT ![n] = t.jobs[n]] = t.jobs
    BY <1>2
  <2>3. t = [issues |-> t.issues, runs |-> t.runs, jobs |-> t.jobs]
    BY <1>2 DEF Tables
  <2> QED
    BY <2>1, <2>2, <2>3
<1>8. Commit(p, u)
  BY <1>7 DEF WriteIssue
<1> QED
  BY <1>6, <1>8

LEMMA WriteJobAdvances ==
    ASSUME TablesFit, NEW p \in Project, WriteJob(p)
    PROVE  \E u : Commit(p, u) /\ Fits(u) /\ Advances(tables[p], u)
<1> DEFINE t == tables[p]
           n == Len(t.issues)
           old == t.jobs[n]
           written == [old EXCEPT !.new.version = @ + 1]
           retried == [written EXCEPT !.before = NoRow]
           started == [t.runs[n] EXCEPT !.version = @ + 1]
           U(r, j) == [issues |-> [t.issues EXCEPT ![n] = t.issues[n]],
                       runs |-> [t.runs EXCEPT ![n] = r], jobs |-> [t.jobs EXCEPT ![n] = j]]
<1>1. Fits(t)
  BY DEF TablesFit
<1>2. /\ t \in Tables /\ t.issues \in Seq(AnyRow) /\ t.runs \in Seq(AnyRow)
      /\ t.jobs \in Seq(JobPair) /\ n \in Nat /\ n > 0 /\ Len(t.runs) = n /\ Len(t.jobs) = n
      /\ t.issues[n].of = n /\ PairFits(old, t.runs[n].of)
  BY <1>1 DEF Fits, Tables, Answers
<1>3. t.issues[n] \in AnyRow /\ t.runs[n] \in AnyRow /\ old \in JobPair
  BY <1>2
<1>4. /\ written \in JobPair /\ written.before = old.before
      /\ written.new.of = old.new.of /\ Le(old.new, written.new)
      /\ retried \in JobPair /\ retried.before = NoRow /\ retried.new = written.new
  <2>1. written = [old EXCEPT !.new.version = @ + 1] /\ retried = [written EXCEPT !.before = NoRow]
    OBVIOUS
  <2>2. NoRow \in AnyRow
    BY DEF NoRow, RowOf, AnyRow
  <2> HIDE DEF old, written, retried
  <2>3. /\ written \in JobPair /\ written.before = old.before
        /\ written.new.of = old.new.of /\ Le(old.new, written.new)
    BY <1>3, <2>1, NextJobVersion
  <2> QED
    BY <2>1, <2>2, <2>3 DEF JobPair
<1>5. PairFits(written, t.runs[n].of) /\ PairFits(retried, t.runs[n].of)
  BY <1>2, <1>4 DEF PairFits
<1>6. Le(Leading(old), Leading(written)) /\ Le(Leading(old), Leading(retried))
  <2>1. /\ old.new \in AnyRow /\ old.before \in AnyRow /\ Leading(retried) = written.new
        /\ Leading(written) = IF old.before = NoRow THEN written.new ELSE old.before
        /\ Leading(old) = IF old.before = NoRow THEN old.new ELSE old.before
    BY <1>3, <1>4 DEF Leading, JobPair
  <2>2. Le(old.new, written.new) /\ Le(old.before, old.before)
    <3> HIDE DEF old, written
    <3> QED
      BY <1>4, <2>1 DEF Le, AnyRow
  <2>3. old.before = NoRow \/ Le(old.before, written.new)
    BY <1>2, <1>4 DEF PairFits, Le
  <2> QED
    BY <2>1, <2>2, <2>3
<1>7. /\ started \in AnyRow /\ started.of = t.runs[n].of
      /\ Le(t.runs[n], started) /\ Le(t.runs[n], t.runs[n]) /\ Le(t.issues[n], t.issues[n])
  <2>1. started = [t.runs[n] EXCEPT !.version = @ + 1]
    OBVIOUS
  <2>2. \A x \in AnyRow : Le(x, x)
    BY DEF Le, AnyRow
  <2> HIDE DEF t, n, started
  <2> QED
    BY <1>3, <2>1, <2>2, NextVersion
<1>8. \A r \in {t.runs[n], started}, j \in {written, retried} :
        Fits(U(r, j)) /\ Advances(t, U(r, j))
  <2> SUFFICES ASSUME NEW r \in {t.runs[n], started}, NEW j \in {written, retried}
               PROVE  Fits(U(r, j)) /\ Advances(t, U(r, j))
    OBVIOUS
  <2>1. /\ r \in AnyRow /\ j \in JobPair /\ PairFits(j, r.of) /\ Le(t.runs[n], r)
        /\ Le(Leading(old), Leading(j))
    BY <1>3, <1>4, <1>5, <1>6, <1>7
  <2> HIDE DEF t, written, retried, started
  <2> QED
    BY <1>1, <1>2, <1>3, <1>7, <2>1, NewestAdvances
<1>9. \/ Commit(p, U(t.runs[n], written)) \/ Commit(p, U(started, written))
      \/ Commit(p, U(t.runs[n], retried))
  <2> DEFINE v == [t EXCEPT !.jobs[n].new.version = @ + 1]
  <2>1. t = [issues |-> t.issues, runs |-> t.runs, jobs |-> t.jobs]
    BY <1>2 DEF Tables
  <2>2. [t.issues EXCEPT ![n] = t.issues[n]] = t.issues /\ [t.runs EXCEPT ![n] = t.runs[n]] = t.runs
    BY <1>2
  <2>3. v = [issues |-> t.issues, runs |-> t.runs, jobs |-> [t.jobs EXCEPT ![n] = written]]
    BY <2>1
  <2>4. v = U(t.runs[n], written)
    BY <2>2, <2>3
  <2>5. [v EXCEPT !.runs[n].version = @ + 1] = U(started, written)
    <3>1. [t.runs EXCEPT ![n].version = @ + 1] = [t.runs EXCEPT ![n] = started]
      OBVIOUS
    <3>2. v.runs = t.runs
      BY <2>3
    <3>3. [v EXCEPT !.runs[n].version = @ + 1] = [v EXCEPT !.runs = [t.runs EXCEPT ![n].version = @ + 1]]
      BY <3>2
    <3> HIDE DEF v, started, written
    <3>4. \A x : [v EXCEPT !.runs = x]
                  = [issues |-> t.issues, runs |-> x, jobs |-> [t.jobs EXCEPT ![n] = written]]
      BY <2>3
    <3> QED
      BY <2>2, <3>1, <3>3, <3>4
  <2>6. [v EXCEPT !.jobs[n].before = NoRow] = U(t.runs[n], retried)
    <3>1. [[t.jobs EXCEPT ![n] = written] EXCEPT ![n].before = NoRow] = [t.jobs EXCEPT ![n] = retried]
      BY <1>2
    <3>2. v.jobs = [t.jobs EXCEPT ![n] = written]
      BY <2>3
    <3>3. [v EXCEPT !.jobs[n].before = NoRow] = [v EXCEPT !.jobs = [v.jobs EXCEPT ![n].before = NoRow]]
      OBVIOUS
    <3>4. [v.jobs EXCEPT ![n].before = NoRow] = [t.jobs EXCEPT ![n] = retried]
      BY <3>1, <3>2
    <3> HIDE DEF v, retried, written
    <3>5. \A x : [v EXCEPT !.jobs = x] = [issues |-> t.issues, runs |-> t.runs, jobs |-> x]
      BY <2>3
    <3> QED
      BY <2>2, <3>3, <3>4, <3>5
  <2> QED
    BY <2>4, <2>5, <2>6 DEF WriteJob
<1> QED
  BY <1>8, <1>9

LEMMA AdmitAdvances ==
    ASSUME TablesFit, NEW p \in Project, Admit(p)
    PROVE  \E u : Commit(p, u) /\ Fits(u) /\ Advances(tables[p], u)
<1> DEFINE t == tables[p]
           n == Len(t.issues)
           old == t.jobs[n]
           attempt == t.runs[n].of + 1
           i == [t.issues[n] EXCEPT !.version = @ + 1]
           r == RowOf(attempt, 1)
           J(before) == [new |-> r, before |-> before]
           U(before) == [issues |-> [t.issues EXCEPT ![n] = i],
                         runs |-> [t.runs EXCEPT ![n] = r], jobs |-> [t.jobs EXCEPT ![n] = J(before)]]
<1>1. Fits(t)
  BY DEF TablesFit
<1>2. /\ t \in Tables /\ t.issues \in Seq(AnyRow) /\ t.runs \in Seq(AnyRow)
      /\ t.jobs \in Seq(JobPair) /\ n \in Nat /\ n > 0 /\ Len(t.runs) = n /\ Len(t.jobs) = n
      /\ t.issues[n].of = n /\ PairFits(old, t.runs[n].of)
  BY <1>1 DEF Fits, Tables, Answers
<1>3. t.issues[n] \in AnyRow /\ t.runs[n] \in AnyRow /\ old \in JobPair
  BY <1>2
<1>4. i \in AnyRow /\ i.of = n /\ Le(t.issues[n], i)
  <2>1. i = [t.issues[n] EXCEPT !.version = @ + 1]
    OBVIOUS
  <2> HIDE DEF t, i
  <2> QED
    BY <1>2, <1>3, <2>1, NextVersion
<1>5. r \in AnyRow /\ r.of = attempt /\ Le(t.runs[n], r) /\ attempt \in Nat
  BY <1>3 DEF AnyRow, RowOf, Le
<1>6. Leading(old) \in AnyRow /\ Leading(old).of < attempt
  <2>1. Leading(old) \in AnyRow
    BY <1>3, LeadingRow
  <2>2. Leading(old) = old.new \/ (old.before # NoRow /\ Leading(old) = old.before)
    BY DEF Leading
  <2>3. t.runs[n].of \in Nat /\ old.before.of \in Nat
    BY <1>3 DEF AnyRow, JobPair
  <2>4. Leading(old).of <= t.runs[n].of
    BY <1>2, <2>2, <2>3 DEF PairFits
  <2> QED
    BY <2>1, <2>3, <2>4 DEF AnyRow
<1>7. ASSUME NEW before \in {NoRow, Leading(old)}
      PROVE  Fits(U(before)) /\ Advances(t, U(before))
  <2>1. before \in AnyRow /\ (before = NoRow \/ before.of < attempt)
    BY <1>6 DEF NoRow, RowOf, AnyRow
  <2>2. J(before) \in JobPair /\ PairFits(J(before), r.of)
    BY <1>5, <2>1 DEF JobPair, PairFits
  <2>3. Leading(J(before)) = r \/ Leading(J(before)) = Leading(old)
    BY DEF Leading
  <2>4. Le(Leading(old), Leading(J(before)))
    BY <1>5, <1>6, <2>3 DEF Le, AnyRow
  <2> HIDE DEF t, i, r, J
  <2> QED
    BY <1>1, <1>2, <1>3, <1>4, <1>5, <2>2, <2>4, NewestAdvances
<1>8. \E before \in {NoRow, Leading(old)} : Commit(p, U(before))
  BY DEF Admit
<1> QED
  BY <1>7, <1>8

LEMMA ReviseAdvances ==
    ASSUME TablesFit, NEW p \in Project, Revise(p)
    PROVE  \E u : Commit(p, u) /\ Fits(u) /\ Advances(tables[p], u)
<1> DEFINE t == tables[p]
           n == Len(t.issues)
           i == RowOf(n + 1, 1)
           u == [issues |-> Append(t.issues, i), runs |-> Append(t.runs, NoRow),
                 jobs |-> Append(t.jobs, NoJob)]
<1>1. Fits(t)
  BY DEF TablesFit
<1>2. /\ t.issues \in Seq(AnyRow) /\ t.runs \in Seq(AnyRow)
      /\ t.jobs \in Seq(JobPair) /\ n \in Nat /\ n > 0 /\ Len(t.runs) = n /\ Len(t.jobs) = n
      /\ \A k \in 1 .. n : t.issues[k].of = k /\ PairFits(t.jobs[k], t.runs[k].of)
  BY <1>1 DEF Fits, Tables, Answers
<1>3. i \in AnyRow /\ NoRow \in AnyRow /\ NoJob \in JobPair /\ PairFits(NoJob, NoRow.of) /\ i.of = n + 1
  BY <1>2 DEF RowOf, NoRow, NoJob, AnyRow, JobPair, PairFits
<1>4. /\ u.issues \in Seq(AnyRow) /\ Len(u.issues) = n + 1 /\ u.issues[n + 1] = i
      /\ \A k \in 1 .. n : u.issues[k] = t.issues[k]
  <2>1. u.issues = Append(t.issues, i)
    OBVIOUS
  <2> HIDE DEF t, i, u
  <2> QED
    BY <1>2, <1>3, <2>1, AppendProperties
<1>5. /\ u.runs \in Seq(AnyRow) /\ Len(u.runs) = n + 1 /\ u.runs[n + 1] = NoRow
      /\ \A k \in 1 .. n : u.runs[k] = t.runs[k]
  <2>1. u.runs = Append(t.runs, NoRow)
    OBVIOUS
  <2> HIDE DEF t, i, u
  <2> QED
    BY <1>2, <1>3, <2>1, AppendProperties
<1>6. /\ u.jobs \in Seq(JobPair) /\ Len(u.jobs) = n + 1 /\ u.jobs[n + 1] = NoJob
      /\ \A k \in 1 .. n : u.jobs[k] = t.jobs[k]
  <2>1. u.jobs = Append(t.jobs, NoJob)
    OBVIOUS
  <2> HIDE DEF t, i, u
  <2> QED
    BY <1>2, <1>3, <2>1, AppendProperties
<1>7. u \in Tables
  BY <1>4, <1>5, <1>6 DEF Tables, Answers
<1>8. ASSUME NEW k \in 1 .. n
      PROVE  /\ Le(t.issues[k], u.issues[k]) /\ Le(t.runs[k], u.runs[k])
             /\ Le(Leading(t.jobs[k]), Leading(u.jobs[k]))
  <2>1. t.issues[k] \in AnyRow /\ t.runs[k] \in AnyRow /\ t.jobs[k] \in JobPair
    BY <1>2, <1>8
  <2>2. Leading(t.jobs[k]) \in AnyRow /\ \A x \in AnyRow : Le(x, x)
    BY <2>1, LeadingRow DEF Le, AnyRow
  <2>3. u.issues[k] = t.issues[k] /\ u.runs[k] = t.runs[k] /\ u.jobs[k] = t.jobs[k]
    BY <1>4, <1>5, <1>6, <1>8
  <2> QED
    BY <2>1, <2>2, <2>3
<1>9. \A k \in 1 .. Len(u.issues) : u.issues[k].of = k /\ PairFits(u.jobs[k], u.runs[k].of)
  <2> SUFFICES ASSUME NEW k \in 1 .. n + 1
               PROVE  u.issues[k].of = k /\ PairFits(u.jobs[k], u.runs[k].of)
    BY <1>4
  <2> HIDE DEF u, t, i
  <2>1. CASE k = n + 1
    BY <1>3, <1>4, <1>5, <1>6, <2>1
  <2>2. CASE k \in 1 .. n
    BY <1>2, <1>4, <1>5, <1>6, <2>2
  <2> QED
    BY <1>2, <2>1, <2>2
<1>10. Fits(u) /\ Advances(t, u)
  <2>1. Len(t.issues) <= Len(u.issues) /\ Len(u.runs) = Len(u.issues) /\ Len(u.jobs) = Len(u.issues)
    BY <1>2, <1>4, <1>5, <1>6
  <2> HIDE DEF u, t
  <2> QED
    BY <1>1, <1>7, <1>8, <1>9, <2>1, TablesAdvance
<1>11. Commit(p, u)
  BY DEF Revise
<1> QED
  BY <1>10, <1>11

\* Whatever commits, the tables fit together and their answers move on.
LEMMA ChangeAdvances ==
    ASSUME TablesFit, NEW p \in Project, Change(p)
    PROVE  \E u : Commit(p, u) /\ Fits(u) /\ Advances(tables[p], u)
BY WriteIssueAdvances, WriteJobAdvances, AdmitAdvances, ReviseAdvances DEF Change
-----------------------------------------------------------------------------
(* What a step leaves alone.                                                *)
LEMMA SpendCounts ==
    ASSUME NEW what \in {"replays", "failures", "lost"}, Spend(what), used \in Bounds
    PROVE  /\ used' \in Bounds /\ used.replays <= used'.replays
           /\ what = "replays" => used'.replays # 0
BY WorkbenchAssumption DEF Spend, Bounds

LEMMA SpendOnCounts ==
    ASSUME NEW what \in {"changes", "commands"}, NEW p \in Project, SpendOn(what, p),
           used \in Bounds
    PROVE  used' \in Bounds /\ used.replays <= used'.replays
BY WorkbenchAssumption DEF SpendOn, Bounds

LEMMA TablesKept ==
    ASSUME TablesFit, HistoryGrows, UNCHANGED <<tables, history>>
    PROVE  TablesFit' /\ HistoryGrows'
BY DEF TablesFit, HistoryGrows

\* One projector's work on one project.
LEMMA JobSet ==
    ASSUME WorkbenchTypes, NEW a \in Projector, NEW p \in Project, NEW work \in JobState,
           jobs' = [jobs EXCEPT ![a][p] = work]
    PROVE  /\ jobs' \in [Projector -> [Project -> JobState]]
           /\ \A b \in Projector, q \in Project :
                jobs'[b][q] = IF b = a /\ q = p THEN work ELSE jobs[b][q]
BY DEF WorkbenchTypes

LEMMA IdleIsHonest ==
    ASSUME HistoryGrows, NEW p \in Project
    PROVE  Idle \in JobState /\ DOMAIN Idle.rows = {} /\ JobHonest(Idle, p)
<1>1. <<>> \in [{} -> Place] /\ {} \in SUBSET Row
  OBVIOUS
<1>2. Idle \in JobState /\ DOMAIN Idle.rows = {}
  BY <1>1 DEF Idle, Nothing, JobState, Triggers, SomeRows
<1>3. \A r \in Row : Idle.cursor[r] = 0 /\ Committed(p, r) \in Nat
  BY DEF Idle, Nothing, Committed, HistoryGrows
<1> QED
  BY <1>2, <1>3 DEF JobHonest

\* What has been read stays as good while it is not touched.
LEMMA JobsKept ==
    ASSUME JobsHonest, UNCHANGED <<history, jobs>>
    PROVE  JobsHonest'
<1>1. history' = history /\ jobs' = jobs
  OBVIOUS
<1>2. ASSUME NEW a \in Projector, NEW p \in Project
      PROVE  JobHonest(jobs[a][p], p)'
  <2>1. JobHonest(jobs[a][p], p)
    BY DEF JobsHonest
  <2> QED
    BY <1>1, <2>1 DEF JobHonest, Committed
<1> QED BY <1>2 DEF JobsHonest

LEMMA JobsHonestNext ==
    ASSUME UNCHANGED history,
           \A b \in Projector, q \in Project : JobHonest(jobs'[b][q], q)
    PROVE  JobsHonest'
BY DEF JobsHonest, JobHonest, Committed

LEMMA StoredKept ==
    ASSUME StoredHonest, UNCHANGED <<history, stored>>
    PROVE  StoredHonest'
BY DEF StoredHonest, Known, Committed

LEMMA PagesKept ==
    ASSUME PagesKnown, UNCHANGED <<history, page, fetches>>
    PROVE  PagesKnown'
BY DEF PagesKnown, Known, Committed

LEMMA CommandsKept ==
    ASSUME CommandsFitTheTask, UNCHANGED receipts, used \in Bounds, used' \in Bounds,
           used.replays <= used'.replays
    PROVE  CommandsFitTheTask'
<1>1. used'.replays = 0 => used.replays = 0
  BY DEF Bounds
<1> QED
  BY <1>1 DEF CommandsFitTheTask, Version
-----------------------------------------------------------------------------
(* The invariant holds at first, and every step keeps it.                   *)
LEMMA WorkbenchStarts == WorkbenchInit => WorkbenchInv
<1> SUFFICES ASSUME WorkbenchInit PROVE WorkbenchInv
  OBVIOUS
<1>1. Fits(Start)
  <2>1. /\ RowOf(1, 4) \in AnyRow /\ RowOf(1, 2) \in AnyRow /\ RowOf(1, 3) \in AnyRow
        /\ NoRow \in AnyRow /\ RowOf(1, 4).of = 1 /\ RowOf(1, 2).of = 1 /\ RowOf(1, 3).of = 1
    BY DEF RowOf, NoRow, AnyRow
  <2>2. PICK j : j = [NoJob EXCEPT !.new = RowOf(1, 3)]
    OBVIOUS
  <2>3. j \in JobPair /\ PairFits(j, 1)
    BY <2>1, <2>2 DEF NoJob, JobPair, PairFits
  <2>4. Start.issues = <<RowOf(1, 4)>> /\ Start.runs = <<RowOf(1, 2)>> /\ Start.jobs = <<j>>
    BY <2>2 DEF Start
  <2>5. Start \in Tables
    BY <2>1, <2>2, <2>3 DEF Start, Tables, Answers
  <2> QED
    BY <2>1, <2>3, <2>4, <2>5 DEF Fits
<1>2. TablesFit
  BY <1>1 DEF WorkbenchInit, TablesFit, Fits
<1>3. \A p \in Project, r \in Row : /\ history[p][r] = <<Query(Start, r)>>
                                    /\ tables[p] = Start /\ Query(Start, r) \in Answers
                                    /\ Committed(p, r) = 1
  BY <1>1, QueryAnswers DEF WorkbenchInit, Fits, Committed
<1>4. HistoryGrows
  <2>1. history \in [Project -> [Row -> Seq(Answers)]]
    <3>1. \A r \in Row : <<Query(Start, r)>> \in Seq(Answers)
      BY <1>1, QueryAnswers DEF Fits
    <3> QED
      BY <3>1 DEF WorkbenchInit
  <2>2. ASSUME NEW p \in Project, NEW r \in Row
        PROVE  /\ Len(history[p][r]) = 1 /\ history[p][r][1] = Query(tables[p], r)
               /\ Grows(history[p][r])
    <3>1. \A a \in Answers : AnswerLe(a, a)
      <4> TAKE a \in Answers
      <4>1. Len(a) \in Nat /\ \A n \in 1 .. Len(a) : a[n] \in AnyRow
        BY DEF Answers
      <4> QED
        BY <4>1 DEF AnswerLe, Le, AnyRow
    <3>2. \A x : Len(<<x>>) = 1 /\ <<x>>[1] = x
      OBVIOUS
    <3>3. Len(history[p][r]) = 1 /\ history[p][r][1] = Query(Start, r)
      BY <1>3, <2>2, <3>2
    <3> QED
      BY <1>3, <2>2, <3>1, <3>3 DEF Grows
  <2>3. ASSUME NEW p \in Project PROVE Numbered(history[p]["issue"])
    <3>1. "issue" \in Row /\ Query(Start, "issue") = Start.issues
      BY DEF Row, Query
    <3>2. history[p]["issue"] = <<Start.issues>>
      BY <1>3, <3>1
    <3> QED
      BY <1>1, <3>2 DEF Numbered, Fits
  <2> QED
    BY <2>1, <2>2, <2>3 DEF HistoryGrows
<1>5. First \in Rows /\ First \in Triggers /\ \A r \in Row : First[r] = 1
  BY DEF First, Rows, Triggers, Place
<1>6. page.rows = [p \in Project |-> First] /\ fetches = {} /\ receipts = {}
  BY DEF WorkbenchInit, ReadPage
<1>7. /\ \A p \in Project : stored[p].cursor = First /\ stored[p].rows = First
      /\ \A a \in Projector, p \in Project : jobs[a][p] = Idle
  BY DEF WorkbenchInit
<1>8. WorkbenchTypes
  <2>1. stored \in [Project -> Snapshot]
    BY <1>5 DEF WorkbenchInit, Snapshot
  <2>2. \A p \in Project : Idle \in JobState
    BY <1>4, IdleIsHonest
  <2>3. jobs \in [Projector -> [Project -> JobState]]
    BY <2>2 DEF WorkbenchInit
  <2>4. used \in Bounds
    BY DEF WorkbenchInit, Bounds
  <2> QED
    BY <1>5, <1>6, <2>1, <2>3, <2>4 DEF WorkbenchTypes
<1>9. StoredHonest /\ PagesKnown
  BY <1>3, <1>5, <1>6, <1>7 DEF StoredHonest, PagesKnown, Known
<1>10. JobsHonest
  BY <1>4, <1>7, IdleIsHonest DEF JobsHonest
<1>11. Undisturbed
  <2>1. \A p \in Project : DOMAIN Idle.rows = {}
    BY <1>4, IdleIsHonest
  <2> QED
    BY <1>5, <1>6, <1>7, <2>1 DEF Undisturbed, Projector, Behind
<1>12. CommandsFitTheTask
  BY <1>6 DEF CommandsFitTheTask
<1> QED
  BY <1>2, <1>4, <1>8, <1>9, <1>10, <1>11, <1>12 DEF WorkbenchInv

\* A commit adds an answer at the end of a history, or leaves it as it is.
LEMMA CommitGrows ==
    ASSUME TablesFit, HistoryGrows, NEW q \in Project, NEW u, Commit(q, u), Fits(u),
           Advances(tables[q], u)
    PROVE  /\ TablesFit' /\ HistoryGrows'
           /\ \A p \in Project, r \in Row :
                /\ Committed(p, r) \in Nat /\ Committed(p, r)' \in Nat
                /\ Committed(p, r) <= Committed(p, r)'
<1>1. u \in Tables /\ tables' = [tables EXCEPT ![q] = u]
  BY DEF Commit, Fits
<1>2. TablesFit'
  BY <1>1 DEF TablesFit
<1>3. /\ history' \in [Project -> [Row -> Seq(Answers)]]
      /\ \A p \in Project, r \in Row :
           history'[p][r] = IF p # q \/ Query(u, r) = Query(tables[q], r) THEN history[p][r]
                            ELSE Append(history[p][r], Query(u, r))
  <2>1. history' = [history EXCEPT ![q] = [r \in Row |->
            IF Query(u, r) = Query(tables[q], r) THEN @[r] ELSE Append(@[r], Query(u, r))]]
    BY DEF Commit
  <2>2. \A r \in Row : Query(u, r) \in Answers
    BY <1>1, QueryAnswers
  <2>3. history \in [Project -> [Row -> Seq(Answers)]]
    BY DEF HistoryGrows
  <2>4. \A r \in Row : Append(history[q][r], Query(u, r)) \in Seq(Answers)
    BY <2>2, <2>3
  <2> QED
    BY <2>1, <2>3, <2>4
<1>4. ASSUME NEW p \in Project, NEW r \in Row
      PROVE  /\ Len(history'[p][r]) > 0
             /\ history'[p][r][Len(history'[p][r])] = Query(tables'[p], r)
             /\ Grows(history'[p][r])
             /\ Committed(p, r) \in Nat /\ Committed(p, r)' \in Nat
             /\ Committed(p, r) <= Committed(p, r)'
  <2>1. /\ history[p][r] \in Seq(Answers) /\ Len(history[p][r]) > 0
        /\ history[p][r][Len(history[p][r])] = Query(tables[p], r) /\ Grows(history[p][r])
    BY DEF HistoryGrows
  <2>2. Query(u, r) \in Answers
    BY <1>1, QueryAnswers
  <2>3. CASE p # q
    <3>1. history'[p][r] = history[p][r] /\ tables'[p] = tables[p]
      BY <1>1, <1>3, <2>3 DEF TablesFit
    <3> QED
      BY <2>1, <3>1 DEF Committed
  <2>4. CASE p = q
    <3>1. tables'[p] = u
      BY <1>1, <2>4 DEF TablesFit
    <3>2. CASE Query(u, r) = Query(tables[q], r)
      <4>1. history'[p][r] = history[p][r]
        BY <1>3, <3>2
      <4> QED
        BY <2>1, <2>4, <3>1, <3>2, <4>1 DEF Committed
    <3>3. CASE Query(u, r) # Query(tables[q], r)
      <4>1. history'[p][r] = Append(history[p][r], Query(u, r))
        BY <1>3, <2>4, <3>3
      <4>2. AnswerLe(history[p][r][Len(history[p][r])], Query(u, r))
        BY <2>1, <2>4 DEF Advances
      <4>3. Grows(history'[p][r])
        BY <2>1, <2>2, <4>1, <4>2, HistoryAppends
      <4>4. /\ Len(history'[p][r]) = Len(history[p][r]) + 1 /\ Len(history[p][r]) \in Nat
            /\ history'[p][r][Len(history[p][r]) + 1] = Query(u, r)
        BY <2>1, <2>2, <4>1
      <4> QED
        BY <3>1, <4>3, <4>4 DEF Committed
    <3> QED
      BY <3>2, <3>3
  <2> QED
    BY <2>3, <2>4
<1>5. ASSUME NEW p \in Project PROVE Numbered(history'[p]["issue"])
  <2>1. "issue" \in Row /\ Query(u, "issue") = u.issues
    BY DEF Row, Query
  <2>2. Numbered(history[p]["issue"]) /\ history[p]["issue"] \in Seq(Answers)
    BY <2>1 DEF HistoryGrows
  <2>3. history'[p]["issue"] = history[p]["issue"]
        \/ history'[p]["issue"] = Append(history[p]["issue"], u.issues)
    BY <1>3, <2>1
  <2>4. u.issues \in Answers /\ Len(u.issues) > 0 /\ \A n \in 1 .. Len(u.issues) : u.issues[n].of = n
    BY DEF Fits, Tables
  <2>5. CASE history'[p]["issue"] = Append(history[p]["issue"], u.issues)
    <3> DEFINE h == history[p]["issue"]
    <3>1. /\ Len(Append(h, u.issues)) = Len(h) + 1 /\ Len(h) \in Nat
          /\ Append(h, u.issues)[Len(h) + 1] = u.issues
          /\ \A i \in 1 .. Len(h) : Append(h, u.issues)[i] = h[i]
      BY <2>2, <2>4
    <3>2. \A i \in 1 .. Len(h) + 1 : i = Len(h) + 1 \/ i \in 1 .. Len(h)
      BY <3>1
    <3> HIDE DEF h
    <3>3. ASSUME NEW i \in 1 .. Len(Append(h, u.issues))
          PROVE  /\ Len(Append(h, u.issues)[i]) > 0
                 /\ \A n \in 1 .. Len(Append(h, u.issues)[i]) : Append(h, u.issues)[i][n].of = n
      <4>1. CASE i = Len(h) + 1
        BY <2>4, <3>1, <4>1
      <4>2. CASE i \in 1 .. Len(h)
        BY <2>2, <3>1, <4>2 DEF Numbered, h
      <4> QED
        BY <3>1, <3>2, <3>3, <4>1, <4>2
    <3> QED
      BY <2>5, <3>3 DEF Numbered, h
  <2> QED
    BY <2>2, <2>3, <2>5
<1>6. HistoryGrows'
  BY <1>3, <1>4, <1>5 DEF HistoryGrows
<1> QED
  BY <1>2, <1>4, <1>6

LEMMA ChangeKeeps ==
    ASSUME WorkbenchInv, NEW q \in Project, Change(q)
    PROVE  WorkbenchInv'
<1> USE DEF WorkbenchInv
<1>1. PICK u : Commit(q, u) /\ Fits(u) /\ Advances(tables[q], u)
  BY ChangeAdvances
<1>2. UNCHANGED <<stored, jobs, page, fetches, receipts>> /\ SpendOn("changes", q)
  BY <1>1 DEF Commit, browser
<1>3. used' \in Bounds /\ used.replays <= used'.replays
  BY <1>2, SpendOnCounts DEF WorkbenchTypes
<1>4. /\ TablesFit' /\ HistoryGrows'
      /\ \A p \in Project, r \in Row :
           /\ Committed(p, r) \in Nat /\ Committed(p, r)' \in Nat
           /\ Committed(p, r) <= Committed(p, r)'
  BY <1>1, CommitGrows
<1>5. WorkbenchTypes'
  BY <1>2, <1>3 DEF WorkbenchTypes
<1>6. ASSUME NEW p \in Project, NEW rows \in Rows, Known(rows, p) PROVE Known(rows, p)'
  BY <1>4, <1>6 DEF Known, Rows, Place
<1>7. \A p \in Project : /\ stored[p].rows \in Rows /\ page.rows[p] \in Rows
                         /\ \A f \in fetches : f.answer.rows[p] \in Rows
  BY DEF WorkbenchTypes, Snapshot
<1>8. StoredHonest'
  BY <1>2, <1>6, <1>7 DEF StoredHonest, Known
<1>9. PagesKnown'
  BY <1>2, <1>6, <1>7 DEF PagesKnown, Known
<1>10. JobsHonest'
  <2> SUFFICES ASSUME NEW a \in Projector, NEW p \in Project
               PROVE  JobHonest(jobs[a][p], p)'
    BY DEF JobsHonest
  <2>1. jobs[a][p] \in JobState /\ JobHonest(jobs[a][p], p) /\ jobs'[a][p] = jobs[a][p]
    BY <1>2 DEF WorkbenchTypes, JobsHonest
  <2>2. PICK R \in SUBSET Row : jobs[a][p].rows \in [R -> Place]
    BY <2>1 DEF JobState, SomeRows
  <2>3. \A r \in Row : jobs[a][p].cursor[r] \in Nat
    BY <2>1 DEF JobState, Triggers
  <2>4. \A r \in DOMAIN jobs[a][p].rows : jobs[a][p].rows[r] \in Nat /\ r \in Row
    BY <2>2 DEF Place
  <2>5. \A r \in Row : jobs[a][p].cursor[r] <= Committed(p, r)'
    BY <1>4, <2>1, <2>3 DEF JobHonest
  <2>6. \A r \in DOMAIN jobs[a][p].rows : jobs[a][p].rows[r] <= Committed(p, r)'
    BY <1>4, <2>1, <2>4 DEF JobHonest
  <2> QED
    BY <2>1, <2>5, <2>6 DEF JobHonest
<1>11. Undisturbed'
  BY <1>2, <1>3 DEF Undisturbed, Behind, Bounds, WorkbenchTypes
<1> QED
  BY <1>2, <1>3, <1>4, <1>5, <1>8, <1>9, <1>10, <1>11, CommandsKept DEF WorkbenchTypes

LEMMA StartKeeps ==
    ASSUME WorkbenchInv, NEW a \in Projector, NEW p \in Project, StartJob(a, p)
    PROVE  WorkbenchInv'
<1> USE DEF WorkbenchInv
<1>1. UNCHANGED <<tables, history, stored, page, fetches, receipts>>
  BY DEF StartJob, database, browser
<1>2. PICK work : work = [cursor |-> LatestTrigger(p), rows |-> <<>>]
  OBVIOUS
<1>3. work \in JobState /\ DOMAIN work.rows = {} /\ JobHonest(work, p)
  <2>1. <<>> \in [{} -> Place] /\ {} \in SUBSET Row
    OBVIOUS
  <2>2. \A r \in Row : Committed(p, r) \in Nat
    BY DEF HistoryGrows, Committed
  <2>3. work.cursor = [r \in Row |-> Committed(p, r)] /\ work.rows = <<>>
    BY <1>2 DEF LatestTrigger, Committed
  <2>4. work.cursor \in Triggers
    BY <2>2, <2>3 DEF Triggers
  <2>5. \A r \in Row : work.cursor[r] <= Committed(p, r)
    BY <2>2, <2>3
  <2>6. work \in JobState /\ DOMAIN work.rows = {}
    BY <1>2, <2>1, <2>3, <2>4 DEF JobState, SomeRows
  <2> QED
    BY <2>5, <2>6 DEF JobHonest
<1>4. /\ jobs' \in [Projector -> [Project -> JobState]]
      /\ \A b \in Projector, q \in Project :
           jobs'[b][q] = IF b = a /\ q = p THEN work ELSE jobs[b][q]
  <2>1. jobs' = [jobs EXCEPT ![a][p] = work]
    BY <1>2 DEF StartJob
  <2> QED
    BY <1>3, <2>1, JobSet
<1>5. /\ used' \in Bounds /\ used.replays <= used'.replays
      /\ a # "loop" => used'.replays # 0
  <2>1. CASE a = "loop"
    BY <2>1 DEF StartJob, WorkbenchTypes, Bounds
  <2>2. CASE a # "loop"
    <3>1. Spend("replays")
      BY <2>2 DEF StartJob
    <3> QED
      BY <3>1, SpendCounts DEF WorkbenchTypes
  <2> QED
    BY <2>1, <2>2
<1>6. WorkbenchTypes'
  BY <1>1, <1>4, <1>5 DEF WorkbenchTypes
<1>7. JobsHonest'
  BY <1>1, <1>3, <1>4, JobsHonestNext DEF JobsHonest
<1>8. Undisturbed'
  <2> SUFFICES ASSUME used'.replays = 0, NEW q \in Project
               PROVE  /\ jobs'["replay"][q] = Idle
                      /\ \A r \in DOMAIN jobs'["loop"][q].rows :
                           stored[q].rows[r] <= jobs'["loop"][q].rows[r]
                      /\ Behind(page.rows[q], q)
                      /\ \A f \in fetches : Behind(f.answer.rows[q], q)
    BY <1>1 DEF Undisturbed, Behind
  <2>1. used.replays = 0 /\ a = "loop"
    BY <1>5 DEF WorkbenchTypes, Bounds
  <2>2. jobs'["replay"][q] = jobs["replay"][q]
    BY <1>4, <2>1 DEF Projector
  <2>3. jobs'["loop"][q] = IF q = p THEN work ELSE jobs["loop"][q]
    BY <1>4, <2>1 DEF Projector
  <2> QED
    BY <1>3, <2>1, <2>2, <2>3 DEF Undisturbed
<1> QED
  BY <1>1, <1>5, <1>6, <1>7, <1>8, TablesKept, StoredKept, PagesKept, CommandsKept
  DEF WorkbenchTypes

LEMMA LoadKeeps ==
    ASSUME WorkbenchInv, NEW a \in Projector, NEW p \in Project, LoadRow(a, p)
    PROVE  WorkbenchInv'
<1> USE DEF WorkbenchInv
<1>1. UNCHANGED <<tables, history, stored, page, fetches, receipts, used>>
  BY DEF LoadRow, database, browser
<1>2. PICK old : old = jobs[a][p] /\ old \in JobState /\ JobHonest(old, p)
  BY DEF WorkbenchTypes, JobsHonest
<1>3. PICK row \in Row \ DOMAIN old.rows :
        jobs' = [jobs EXCEPT ![a][p].rows =
                  [r \in DOMAIN @ \cup {row} |->
                     IF r = row THEN Len(history[p][r]) ELSE @[r]]]
  BY <1>2 DEF LoadRow
<1>4. PICK more : more = [r \in DOMAIN old.rows \cup {row} |->
                            IF r = row THEN Committed(p, r) ELSE old.rows[r]]
  OBVIOUS
<1>5. PICK work : work = [old EXCEPT !.rows = more]
  OBVIOUS
<1>6. jobs' = [jobs EXCEPT ![a][p] = work]
  BY <1>2, <1>3, <1>4, <1>5 DEF Committed
<1>7. Committed(p, row) \in Place
  <2>1. Committed(p, row) \in Nat /\ Committed(p, row) > 0
    BY DEF HistoryGrows, Committed
  <2> QED
    BY <2>1 DEF Place
<1>8. PICK R \in SUBSET Row : old.rows \in [R -> Place]
  BY <1>2 DEF JobState, SomeRows
<1>9. more \in [R \cup {row} -> Place] /\ R \cup {row} \in SUBSET Row
  BY <1>4, <1>7, <1>8
<1>10. work \in JobState /\ work.cursor = old.cursor /\ work.rows = more
  <2>1. more \in SomeRows
    BY <1>9 DEF SomeRows
  <2> QED
    BY <1>2, <1>5, <2>1 DEF JobState
<1>11. /\ jobs' \in [Projector -> [Project -> JobState]]
       /\ \A b \in Projector, q \in Project :
            jobs'[b][q] = IF b = a /\ q = p THEN work ELSE jobs[b][q]
  <2>1. work \in JobState
    BY <1>10
  <2>2. WorkbenchTypes
    OBVIOUS
  <2> HIDE DEF WorkbenchInv
  <2> QED
    BY <1>6, <2>1, <2>2, JobSet
<1>12. WorkbenchTypes'
  BY <1>1, <1>11 DEF WorkbenchTypes
<1>13. \A r \in DOMAIN more : \/ r = row /\ more[r] = Committed(p, r)
                              \/ r \in DOMAIN old.rows /\ more[r] = old.rows[r]
  BY <1>4
<1>14. JobHonest(work, p)
  <2>1. \A r \in Row : old.cursor[r] \in Nat /\ old.cursor[r] <= Committed(p, r)
    BY <1>2 DEF JobHonest, JobState, Triggers
  <2>2. Committed(p, row) \in Nat
    BY <1>7 DEF Place
  <2>3. ASSUME NEW r \in DOMAIN more
        PROVE  old.cursor[r] <= more[r] /\ more[r] <= Committed(p, r)
    <3>1. CASE r = row /\ more[r] = Committed(p, r)
      BY <2>1, <2>2, <3>1
    <3>2. CASE r \in DOMAIN old.rows /\ more[r] = old.rows[r]
      BY <1>2, <3>2 DEF JobHonest
    <3> QED
      BY <1>13, <2>3, <3>1, <3>2
  <2> QED
    BY <1>10, <2>1, <2>3 DEF JobHonest
<1>15. JobsHonest'
  BY <1>1, <1>11, <1>14, JobsHonestNext DEF JobsHonest
<1>16. Undisturbed'
  <2> SUFFICES ASSUME used.replays = 0, NEW q \in Project
               PROVE  /\ jobs'["replay"][q] = Idle
                      /\ \A r \in DOMAIN jobs'["loop"][q].rows :
                           stored[q].rows[r] <= jobs'["loop"][q].rows[r]
                      /\ Behind(page.rows[q], q)
                      /\ \A f \in fetches : Behind(f.answer.rows[q], q)
    BY <1>1 DEF Undisturbed, Behind
  <2>1. a = "loop"
    BY DEF LoadRow, Working, Idle, Undisturbed, Projector
  <2>2. jobs'["replay"][q] = jobs["replay"][q]
    BY <1>11, <2>1 DEF Projector
  <2>3. CASE q = p
    <3>1. jobs'["loop"][q] = work /\ jobs["loop"][q] = old
      BY <1>2, <1>11, <2>1, <2>3 DEF Projector
    <3>2. stored[p].rows[row] <= Committed(p, row)
      BY <1>3 DEF StoredHonest, Known
    <3>3. \A r \in DOMAIN old.rows : stored[q].rows[r] <= old.rows[r]
      BY <3>1 DEF Undisturbed
    <3>4. \A r \in DOMAIN more : stored[q].rows[r] <= more[r]
      BY <1>13, <2>3, <3>2, <3>3
    <3> QED
      BY <1>10, <2>2, <3>1, <3>4 DEF Undisturbed
  <2>4. CASE q # p
    <3>1. jobs'["loop"][q] = jobs["loop"][q]
      BY <1>11, <2>4 DEF Projector
    <3> QED
      BY <2>2, <3>1 DEF Undisturbed
  <2> QED
    BY <2>3, <2>4
<1>17. used' \in Bounds /\ used.replays <= used'.replays
  BY <1>1 DEF WorkbenchTypes, Bounds
<1> QED
  BY <1>1, <1>12, <1>15, <1>16, <1>17, TablesKept, StoredKept, PagesKept, CommandsKept
  DEF WorkbenchTypes

\* A snapshot made of rows that a projector has read.
LEMMA PublishKeeps ==
    ASSUME WorkbenchInv, NEW a \in Projector, NEW p \in Project, Publish(a, p)
    PROVE  WorkbenchInv'
<1> USE DEF WorkbenchInv
<1>1. UNCHANGED <<tables, history, page, fetches, receipts, used>>
  BY DEF Publish, browser
<1>2. PICK work : work = jobs[a][p] /\ work \in JobState /\ JobHonest(work, p)
  BY DEF WorkbenchTypes, JobsHonest
<1>3. DOMAIN work.rows = Row
  BY <1>2 DEF Publish
<1>4. work.rows \in Rows /\ work.cursor \in Triggers
  <2>1. PICK R \in SUBSET Row : work.rows \in [R -> Place]
    BY <1>2 DEF JobState, SomeRows
  <2> QED
    BY <1>2, <1>3, <2>1 DEF Rows, JobState
<1>5. PICK new : /\ stored' = [stored EXCEPT ![p] = new]
                 /\ new \in Snapshot /\ new.cursor = work.cursor /\ new.rows = work.rows
  <2>1. PICK old : old = stored[p] /\ old \in Snapshot
    BY DEF WorkbenchTypes
  <2>2. PICK n : n = IF SaysTheSame(p, work.rows) THEN old.revision ELSE old.revision + 1
    OBVIOUS
  <2>3. n \in Nat
    BY <2>1, <2>2 DEF Snapshot
  <2>4. PICK row : row = [revision |-> n, cursor |-> work.cursor, rows |-> work.rows]
    OBVIOUS
  <2>5. row \in Snapshot /\ row.cursor = work.cursor /\ row.rows = work.rows
    BY <1>4, <2>3, <2>4 DEF Snapshot
  <2>6. stored' = [stored EXCEPT ![p] = row]
    BY <1>2, <2>1, <2>2, <2>4 DEF Publish, Checkpoint
  <2> QED
    BY <2>5, <2>6
<1>6. /\ stored' \in [Project -> Snapshot] /\ stored'[p] = new
      /\ \A q \in Project \ {p} : stored'[q] = stored[q]
  BY <1>5 DEF WorkbenchTypes
<1>7. /\ jobs' \in [Projector -> [Project -> JobState]]
      /\ \A b \in Projector, q \in Project :
           jobs'[b][q] = IF b = a /\ q = p THEN Idle ELSE jobs[b][q]
  <2>1. jobs' = [jobs EXCEPT ![a][p] = Idle]
    BY DEF Publish
  <2> QED
    BY <2>1, IdleIsHonest, JobSet
<1>8. WorkbenchTypes'
  BY <1>1, <1>6, <1>7 DEF WorkbenchTypes
<1>9. StoredHonest'
  <2>1. ASSUME NEW q \in Project
        PROVE  \A r \in Row : /\ stored'[q].cursor[r] <= stored'[q].rows[r]
                              /\ stored'[q].rows[r] <= Committed(q, r)
    <3>1. CASE q = p
      BY <1>2, <1>3, <1>5, <1>6, <3>1 DEF JobHonest
    <3>2. CASE q # p
      BY <1>6, <3>2 DEF StoredHonest, Known
    <3> QED
      BY <3>1, <3>2
  <2> QED
    BY <1>1, <2>1 DEF StoredHonest, Known, Committed
<1>10. JobsHonest'
  BY <1>1, <1>7, IdleIsHonest, JobsHonestNext DEF JobsHonest
<1>11. Undisturbed'
  <2> SUFFICES ASSUME used.replays = 0, NEW q \in Project
               PROVE  /\ jobs'["replay"][q] = Idle
                      /\ \A r \in DOMAIN jobs'["loop"][q].rows :
                           stored'[q].rows[r] <= jobs'["loop"][q].rows[r]
                      /\ \A r \in Row : page.rows[q][r] <= stored'[q].rows[r]
                      /\ \A f \in fetches : \A r \in Row : f.answer.rows[q][r] <= stored'[q].rows[r]
    BY <1>1 DEF Undisturbed, Behind
  <2>1. a = "loop"
    <3>1. DOMAIN Idle.rows = {} /\ Row # {}
      BY IdleIsHonest DEF Row
    <3> QED
      BY <1>2, <1>3, <3>1 DEF Undisturbed, Projector
  <2>2. jobs'["replay"][q] = jobs["replay"][q]
    BY <1>7, <2>1 DEF Projector
  <2>3. CASE q # p
    <3>1. jobs'["loop"][q] = jobs["loop"][q] /\ stored'[q] = stored[q]
      BY <1>6, <1>7, <2>3 DEF Projector
    <3> QED
      BY <2>2, <3>1 DEF Undisturbed, Behind
  <2>4. CASE q = p
    <3>1. jobs'["loop"][q] = Idle /\ stored'[q].rows = work.rows /\ DOMAIN Idle.rows = {}
      BY <1>5, <1>6, <1>7, <2>1, <2>4, IdleIsHonest DEF Projector
    <3>2. \A r \in Row : stored[q].rows[r] <= work.rows[r]
      BY <1>2, <1>3, <2>1, <2>4 DEF Undisturbed
    <3>3. \A r \in Row : stored[q].rows[r] \in Nat /\ work.rows[r] \in Nat /\ page.rows[q][r] \in Nat
      BY <1>4 DEF WorkbenchTypes, Snapshot, Rows, Place
    <3>4. \A r \in Row : page.rows[q][r] <= work.rows[r]
      BY <3>2, <3>3 DEF Undisturbed, Behind
    <3>5. ASSUME NEW f \in fetches, NEW r \in Row
          PROVE  f.answer.rows[q][r] <= work.rows[r]
      <4>1. f.answer.rows[q][r] \in Nat
        BY DEF WorkbenchTypes, Rows, Place
      <4>2. f.answer.rows[q][r] <= stored[q].rows[r]
        BY DEF Undisturbed, Behind
      <4> QED
        BY <3>2, <3>3, <4>1, <4>2
    <3> QED
      BY <2>2, <3>1, <3>4, <3>5 DEF Undisturbed
  <2> QED
    BY <2>3, <2>4
<1>12. CommandsFitTheTask'
  BY <1>1 DEF CommandsFitTheTask, Version
<1> QED
  BY <1>1, <1>8, <1>9, <1>10, <1>11, <1>12, TablesKept, PagesKept

LEMMA FailsKeeps ==
    ASSUME WorkbenchInv, NEW a \in Projector, NEW p \in Project, JobFails(a, p)
    PROVE  WorkbenchInv'
<1> USE DEF WorkbenchInv
<1>1. UNCHANGED <<tables, history, stored, page, fetches, receipts>>
  BY DEF JobFails, database, browser
<1>2. used' \in Bounds /\ used.replays <= used'.replays
  BY SpendCounts DEF JobFails, WorkbenchTypes
<1>3. /\ jobs' \in [Projector -> [Project -> JobState]]
      /\ \A b \in Projector, q \in Project :
           jobs'[b][q] = IF b = a /\ q = p THEN Idle ELSE jobs[b][q]
  <2>1. jobs' = [jobs EXCEPT ![a][p] = Idle]
    BY DEF JobFails
  <2> QED
    BY <2>1, IdleIsHonest, JobSet
<1>4. WorkbenchTypes'
  BY <1>1, <1>2, <1>3 DEF WorkbenchTypes
<1>5. JobsHonest'
  BY <1>1, <1>3, IdleIsHonest, JobsHonestNext DEF JobsHonest
<1>6. Undisturbed'
  <2> SUFFICES ASSUME used.replays = 0, NEW q \in Project
               PROVE  /\ jobs'["replay"][q] = Idle
                      /\ \A r \in DOMAIN jobs'["loop"][q].rows :
                           stored[q].rows[r] <= jobs'["loop"][q].rows[r]
                      /\ Behind(page.rows[q], q)
                      /\ \A f \in fetches : Behind(f.answer.rows[q], q)
    BY <1>1, <1>2 DEF Undisturbed, Behind, WorkbenchTypes, Bounds
  <2>1. jobs'["replay"][q] \in {Idle, jobs["replay"][q]} /\ jobs'["loop"][q] \in {Idle, jobs["loop"][q]}
    BY <1>3 DEF Projector
  <2>2. DOMAIN Idle.rows = {}
    BY IdleIsHonest
  <2> QED
    BY <2>1, <2>2 DEF Undisturbed
<1> QED
  BY <1>1, <1>2, <1>4, <1>5, <1>6, TablesKept, StoredKept, PagesKept, CommandsKept
  DEF WorkbenchTypes

(* The browser's steps: the page and the answers come from earlier answers  *)
(* and from the stored snapshots.                                           *)
LEMMA BrowserKeeps ==
    ASSUME WorkbenchInv, UNCHANGED <<tables, history, stored, jobs, receipts>>,
           used' \in Bounds, used.replays <= used'.replays,
           \/ page'.rows = page.rows
           \/ \E f \in fetches : page'.rows = f.answer.rows,
           \A g \in fetches' :
             \/ g \in fetches
             \/ g.answer.rows = [p \in Project |-> First]
             \/ g.answer.rows = [p \in Project |-> stored[p].rows]
    PROVE  WorkbenchInv'
<1> USE DEF WorkbenchInv
<1>1. First \in Rows /\ \A p \in Project : stored[p].rows \in Rows
  BY DEF First, Rows, Place, WorkbenchTypes, Snapshot
<1>2. page'.rows \in [Project -> Rows] /\ \A g \in fetches' : g.answer.rows \in [Project -> Rows]
  <2>1. /\ [p \in Project |-> First] \in [Project -> Rows]
        /\ [p \in Project |-> stored[p].rows] \in [Project -> Rows]
    BY <1>1
  <2>2. page.rows \in [Project -> Rows] /\ \A f \in fetches : f.answer.rows \in [Project -> Rows]
    BY DEF WorkbenchTypes
  <2> HIDE DEF WorkbenchInv
  <2> QED
    BY <2>1, <2>2
<1>3. WorkbenchTypes'
  BY <1>2 DEF WorkbenchTypes
<1>4. \A p \in Project : /\ Behind(First, p) /\ Behind(stored[p].rows, p)
                         /\ Known(First, p) /\ Known(stored[p].rows, p)
  <2> TAKE p \in Project
  <2>1. \A r \in Row : /\ First[r] = 1 /\ stored[p].rows[r] \in Nat \ {0}
                       /\ Committed(p, r) \in Nat /\ Committed(p, r) > 0
    BY <1>1 DEF First, Rows, Place, HistoryGrows, Committed
  <2> QED
    BY <2>1 DEF Behind, Known, StoredHonest
<1>5. ASSUME NEW p \in Project
      PROVE  /\ page'.rows[p] = page.rows[p] \/ \E f \in fetches : page'.rows[p] = f.answer.rows[p]
             /\ \A g \in fetches' :
                  g \in fetches \/ g.answer.rows[p] = First \/ g.answer.rows[p] = stored[p].rows
  OBVIOUS
<1>6. PagesKnown'
  <2> SUFFICES ASSUME NEW p \in Project
               PROVE  /\ \A r \in Row : page'.rows[p][r] <= Committed(p, r)
                      /\ \A g \in fetches' : \A r \in Row : g.answer.rows[p][r] <= Committed(p, r)
    BY DEF PagesKnown, Known, Committed
  <2>1. Known(page.rows[p], p) /\ \A f \in fetches : Known(f.answer.rows[p], p)
    BY DEF PagesKnown
  <2> QED
    BY <1>4, <1>5, <2>1 DEF Known
<1>7. Undisturbed'
  <2> SUFFICES ASSUME used.replays = 0, NEW p \in Project
               PROVE  /\ \A r \in Row : page'.rows[p][r] <= stored[p].rows[r]
                      /\ \A g \in fetches' : \A r \in Row : g.answer.rows[p][r] <= stored[p].rows[r]
    BY DEF Undisturbed, Behind, WorkbenchTypes, Bounds
  <2>1. Behind(page.rows[p], p) /\ \A f \in fetches : Behind(f.answer.rows[p], p)
    BY DEF Undisturbed
  <2> QED
    BY <1>4, <1>5, <2>1 DEF Behind
<1> QED
  BY <1>3, <1>6, <1>7, TablesKept, StoredKept, JobsKept, CommandsKept DEF WorkbenchTypes

\* What wakes up at the end of a refresh has no answer yet.
LEMMA RefreshAsks ==
    ASSUME NEW f, NEW revision, RefreshEnds(f, revision)
    PROVE  \A g \in fetches' : g \in fetches \/ g.answer.rows = [p \in Project |-> First]
BY DEF RefreshEnds, Asked, Unanswered

LEMMA BrowserSteps ==
    ASSUME WorkbenchInv,
           \/ Announce \/ ConnectionLost \/ Reconnect
           \/ FetchAnswered \/ FetchApplied \/ FetchFails
    PROVE  WorkbenchInv'
<1>0. used \in Bounds /\ (UNCHANGED used => used' \in Bounds /\ used.replays <= used'.replays)
  BY DEF WorkbenchInv, WorkbenchTypes, Bounds
<1>1. CASE Announce
  <2>1. \A g \in fetches' : g \in fetches \/ g.answer.rows = [p \in Project |-> First]
    BY <1>1 DEF Announce, Asked, Unanswered
  <2>2. UNCHANGED <<tables, history, stored, jobs, receipts, page, used>>
    BY <1>1 DEF Announce, database
  <2> QED
    BY <1>0, <2>1, <2>2, BrowserKeeps
<1>2. CASE ConnectionLost
  <2>1. UNCHANGED <<tables, history, stored, jobs, receipts, page, fetches>> /\ Spend("lost")
    BY <1>2 DEF ConnectionLost, database
  <2> QED
    BY <1>0, <2>1, SpendCounts, BrowserKeeps
<1>3. CASE Reconnect
  <2>1. UNCHANGED <<tables, history, stored, jobs, receipts, page, fetches, used>>
    BY <1>3 DEF Reconnect, database
  <2> QED
    BY <1>0, <2>1, BrowserKeeps
<1>4. CASE FetchAnswered
  <2>1. \A g \in fetches' : g \in fetches \/ g.answer.rows = [p \in Project |-> stored[p].rows]
    <3>1. PICK f \in fetches :
            fetches' = (fetches \ {f}) \cup {[f EXCEPT !.answer = ReadPage(stored)]}
      BY <1>4 DEF FetchAnswered
    <3>2. [f EXCEPT !.answer = ReadPage(stored)].answer.rows = [p \in Project |-> stored[p].rows]
      BY DEF ReadPage
    <3> QED
      BY <3>1, <3>2
  <2>2. UNCHANGED <<tables, history, stored, jobs, receipts, page, used>>
    BY <1>4 DEF FetchAnswered, database
  <2> QED
    BY <1>0, <2>1, <2>2, BrowserKeeps
<1>5. CASE FetchApplied
  <2>1. PICK f \in fetches : /\ page' = IF Newer(f.answer) THEN f.answer ELSE page
                             /\ RefreshEnds(f, page'.revision)
    BY <1>5 DEF FetchApplied
  <2>2. \A g \in fetches' : g \in fetches \/ g.answer.rows = [p \in Project |-> First]
    BY <2>1, RefreshAsks
  <2>3. page'.rows = page.rows \/ page'.rows = f.answer.rows
    BY <2>1
  <2>4. UNCHANGED <<tables, history, stored, jobs, receipts, used>>
    BY <1>5 DEF FetchApplied, database
  <2> QED
    BY <1>0, <2>2, <2>3, <2>4, BrowserKeeps
<1>6. CASE FetchFails
  <2>1. \A g \in fetches' : g \in fetches \/ g.answer.rows = [p \in Project |-> First]
    BY <1>6, RefreshAsks DEF FetchFails
  <2>2. UNCHANGED <<tables, history, stored, jobs, receipts, page>> /\ Spend("lost")
    BY <1>6 DEF FetchFails, database
  <2> QED
    BY <1>0, <2>1, <2>2, SpendCounts, BrowserKeeps
<1> QED
  BY <1>1, <1>2, <1>3, <1>4, <1>5, <1>6

(* A command is accepted on the version its user saw.  The rows on the page *)
(* are not ahead of the stored ones: while the issue is of the same revision *)
(* and the Run and the job of the same attempt, each version has only grown, *)
(* and equal sums mean equal rows.                                          *)
LEMMA AcceptKeeps ==
    ASSUME WorkbenchInv, NEW p \in Project, Accept(p)
    PROVE  WorkbenchInv'
<1> USE DEF WorkbenchInv
<1>1. UNCHANGED <<tables, history, stored, jobs, page, fetches>>
  BY DEF Accept, database, browser
<1>2. PICK new : new = [project |-> p, saw |-> Shown(p), on |-> Stored(p), status |-> "accepted"]
  OBVIOUS
<1>3. receipts' = receipts \cup {new}
  BY <1>2 DEF Accept, NewReceipt
<1>4. used' \in Bounds /\ used.replays <= used'.replays
  BY SpendOnCounts DEF Accept, WorkbenchTypes
<1>5. page.rows[p] \in Rows /\ stored[p].rows \in Rows
  BY DEF WorkbenchTypes, Snapshot
<1>6. Shown(p) \in Tasks /\ Stored(p) \in Tasks
  <2>1. \A rows \in Rows : \A r \in Row : rows[r] <= rows[r]
    BY DEF Rows, Place
  <2>2. Known(page.rows[p], p) /\ Known(stored[p].rows, p)
    BY DEF PagesKnown, StoredHonest
  <2> QED
    BY <1>5, <2>1, <2>2, TaskGrows DEF Shown, Stored
<1>7. new \in Receipt
  BY <1>2, <1>6 DEF Receipt, ReceiptStatus
<1>8. WorkbenchTypes'
  BY <1>1, <1>3, <1>4, <1>7 DEF WorkbenchTypes
<1>9. used.replays = 0 /\ (\A row \in Row : new.saw[row].of = new.on[row].of)
        => new.saw = new.on
  <2> SUFFICES ASSUME used.replays = 0, \A r \in Row : Shown(p)[r].of = Stored(p)[r].of
               PROVE  Shown(p) = Stored(p)
    BY <1>2
  <2>1. \A r \in Row : page.rows[p][r] <= stored[p].rows[r]
    BY DEF Undisturbed, Behind
  <2>2. \A r \in Row : Shown(p)[r].version <= Stored(p)[r].version
    BY <1>5, <2>1, TaskGrows DEF StoredHonest, Shown, Stored
  <2>3. Version(Shown(p)) = Version(Stored(p))
    BY DEF Accept, Unchanged
  <2>4. \A r \in Row : Shown(p)[r] \in AnyRow /\ Stored(p)[r] \in AnyRow
    BY <1>6 DEF Tasks
  <2>5. \A r \in Row : Shown(p)[r].version \in Nat /\ Stored(p)[r].version \in Nat
    BY <2>4 DEF AnyRow
  <2>6. \A r \in Row : Shown(p)[r].version = Stored(p)[r].version
    <3>1. /\ Version(Shown(p)) = Shown(p)["issue"].version + Shown(p)["run"].version + Shown(p)["job"].version
          /\ Version(Stored(p)) = Stored(p)["issue"].version + Stored(p)["run"].version + Stored(p)["job"].version
      BY DEF Version
    <3>2. \A a, b, c, d, e, f \in Nat :
            a <= d /\ b <= e /\ c <= f /\ a + b + c = d + e + f => a = d /\ b = e /\ c = f
      OBVIOUS
    <3>3. "issue" \in Row /\ "run" \in Row /\ "job" \in Row
      BY DEF Row
    <3>4. \A r \in {"issue", "run", "job"} : Shown(p)[r].version = Stored(p)[r].version
      <4> DEFINE a == Shown(p)["issue"].version
                 b == Shown(p)["run"].version
                 c == Shown(p)["job"].version
                 d == Stored(p)["issue"].version
                 e == Stored(p)["run"].version
                 f == Stored(p)["job"].version
      <4>1. /\ a \in Nat /\ b \in Nat /\ c \in Nat /\ d \in Nat /\ e \in Nat /\ f \in Nat
            /\ a <= d /\ b <= e /\ c <= f
        BY <2>2, <2>5, <3>3
      <4>2. a + b + c = d + e + f
        BY <2>3, <3>1
      <4>3. a = d /\ b = e /\ c = f
        <5> HIDE DEF a, b, c, d, e, f
        <5> QED
          BY <3>2, <4>1, <4>2
      <4> QED
        BY <4>3
    <3> QED
      BY <3>4 DEF Row
  <2>7. \A r \in Row : Shown(p)[r] = Stored(p)[r]
    <3> TAKE r \in Row
    <3>1. \A x, y \in AnyRow : x.of = y.of /\ x.version = y.version => x = y
      BY DEF AnyRow
    <3> QED
      BY <2>4, <2>6, <3>1
  <2> QED
    BY <1>6, <2>7 DEF Tasks
<1>10. \A q \in receipts : /\ q.project = p /\ Version(q.on) = Version(new.on)
                           => q.status = "failed"
  BY <1>2 DEF Accept, Owned
<1>11. used'.replays = 0 => used.replays = 0
  BY <1>4 DEF WorkbenchTypes, Bounds
<1>12. CommandsFitTheTask'
  BY <1>2, <1>3, <1>9, <1>10, <1>11 DEF CommandsFitTheTask, Version
<1>13. Undisturbed'
  BY <1>1, <1>11 DEF Undisturbed, Behind
<1> QED
  BY <1>1, <1>8, <1>12, <1>13, TablesKept, StoredKept, JobsKept, PagesKept

LEMMA TransitionKeeps ==
    ASSUME WorkbenchInv, NEW r \in receipts, TransitionReceipt(r)
    PROVE  WorkbenchInv'
<1> USE DEF WorkbenchInv
<1>1. UNCHANGED <<tables, history, stored, jobs, page, fetches, used>>
  BY DEF TransitionReceipt, database, browser
<1>2. PICK new : new = [r EXCEPT !.status = "failed"]
  OBVIOUS
<1>3. receipts' = (receipts \ {r}) \cup {new}
  BY <1>2 DEF TransitionReceipt
<1>4. r \in Receipt
  BY DEF WorkbenchTypes
<1>5. /\ new \in Receipt /\ new.project = r.project /\ new.saw = r.saw /\ new.on = r.on
      /\ new.status = "failed"
  BY <1>2, <1>4 DEF Receipt, ReceiptStatus
<1>6. WorkbenchTypes'
  BY <1>1, <1>3, <1>5 DEF WorkbenchTypes
<1>7. CommandsFitTheTask'
  BY <1>1, <1>4, <1>5, <1>3 DEF CommandsFitTheTask, Version
<1> QED
  BY <1>1, <1>6, <1>7, TablesKept, StoredKept, JobsKept, PagesKept DEF Undisturbed, Behind

LEMMA WorkbenchStep == WorkbenchInv /\ [WorkbenchNext]_workbench => WorkbenchInv'
<1> SUFFICES ASSUME WorkbenchInv, [WorkbenchNext]_workbench PROVE WorkbenchInv'
  OBVIOUS
<1>1. CASE WorkbenchNext
  BY <1>1, ChangeKeeps, StartKeeps, LoadKeeps, PublishKeeps, FailsKeeps, BrowserSteps,
     AcceptKeeps, TransitionKeeps DEF WorkbenchNext, ProjectScope
<1>2. CASE UNCHANGED workbench
  BY <1>2, TablesKept, StoredKept, JobsKept, PagesKept
  DEF workbench, WorkbenchInv, WorkbenchTypes, Undisturbed, Behind, CommandsFitTheTask, Version
<1> QED
  BY <1>1, <1>2
-----------------------------------------------------------------------------
(* Whoever publishes, and however the reads of the projectors interleave    *)
(* with commits: a checkpoint names no commit its snapshot lacks.           *)
THEOREM CursorIsAlwaysHonest == WorkbenchSpec => []CursorIsHonest
<1>1. WorkbenchInv => CursorIsHonest
  <2> SUFFICES ASSUME WorkbenchInv, NEW p \in Project, NEW r \in Row
               PROVE  stored[p].rows[r] >= stored[p].cursor[r]
    BY DEF CursorIsHonest
  <2>1. stored[p].cursor[r] <= stored[p].rows[r]
    BY DEF WorkbenchInv, StoredHonest
  <2> QED
    BY <2>1
<1> QED
  BY <1>1, WorkbenchStarts, WorkbenchStep, PTL DEF WorkbenchSpec

(* A command takes effect on the rows its user saw while one projector      *)
(* publishes and the task stays of one revision and one attempt, and one    *)
(* command at a time owns a version of a task: for any number of commits,   *)
(* attempts, commands, broken connections and failed fetches.               *)
THEOREM CommandsAlwaysFit == WorkbenchSpec => []CommandsFitTheTask
<1>1. WorkbenchInv => CommandsFitTheTask
  BY DEF WorkbenchInv
<1> QED
  BY <1>1, WorkbenchStarts, WorkbenchStep, PTL DEF WorkbenchSpec
=============================================================================
