---------------------------- MODULE JournalReader ----------------------------
(***************************************************************************)
(* What the inbox promises about one AutoDev run: its Run status is what   *)
(* reading the run's events once, in order and without a hole, makes of    *)
(* it.  Reading may advance by several events in one step.  The supervisor *)
(* may settle the Run itself, without the journal.                         *)
(***************************************************************************)
EXTENDS Integers, Sequences

CONSTANTS Target,  \* what an event asks of the Run; "none" leaves it alone
          Ending   \* the final statuses of a Run

VARIABLES events,    \* the events of the run, as the worker numbered them
          position,  \* how many of them have been read
          status,    \* the Run's status
          published  \* the statuses published for the Run, in order

vars == <<events, position, status, published>>

Init ==
    /\ events = <<>>
    /\ position = 0
    /\ status = "queued"
    /\ published = <<>>

\* The status after reading events from+1..to: an ended Run stays as it is,
\* else the first event that ends it decides, else it runs if any event says so.
Reads(old, new, from, to) ==
    \/ old \in Ending /\ new = old
    \/ /\ old \notin Ending
       /\ \E i \in from + 1 .. to :
            /\ events[i] \in Ending /\ new = events[i]
            /\ \A k \in from + 1 .. i - 1 : events[k] \notin Ending
    \/ /\ old \notin Ending
       /\ \A i \in from + 1 .. to : events[i] \notin Ending
       /\ new = IF \E i \in from + 1 .. to : events[i] = "running"
                THEN "running" ELSE old

\* What such a reading publishes: a Run always starts before it ends.
Story(old, new) ==
    IF new = old THEN <<>>
    ELSE IF old = "queued" /\ new # "running" THEN <<"running", new>>
    ELSE <<new>>

Emit(t) ==
    /\ events' = Append(events, t)
    /\ UNCHANGED <<position, status, published>>

Read(n, new) ==
    /\ Reads(status, new, position, n)
    /\ position' = n
    /\ status' = new
    /\ published' = published \o Story(status, new)
    /\ UNCHANGED events

Settle(new) ==
    /\ status \notin Ending /\ status # new
    /\ status' = new
    /\ published' = Append(published, new)
    /\ UNCHANGED <<events, position>>

Next ==
    \/ \E t \in Target : Emit(t)
    \/ \E n \in position + 1 .. Len(events), new \in Ending \cup {"queued", "running"} :
         Read(n, new)
    \/ \E new \in Ending \cup {"running"} : Settle(new)

Spec == Init /\ [][Next]_vars
=============================================================================
