------------------------------ MODULE JobQueue ------------------------------
(***************************************************************************)
(* What a queue promises whoever dispatches a job: it is run, perhaps more *)
(* than once and by several workers at once, until a run succeeds and what *)
(* its chain still held is pushed, or until it is given up after           *)
(* MaxAttempts runs that failed.  It does not leave the queue before.      *)
(***************************************************************************)
EXTENDS Naturals, Sequences, Table

CONSTANTS Dispatches, MaxAttempts

VARIABLES
    entries,    \* what was pushed, by id: its payload, and what became of its runs
    queued      \* the entries that have not left the queue

queueVars == <<entries, queued>>

Fresh(payload) ==
    [payload |-> payload, failures |-> 0, handled |-> FALSE, givenUp |-> FALSE]

QueueInit == entries = EmptyTable /\ queued = {}

\* A payload is dispatched, or is the rest of a chain whose last job ran, or
\* was given up and is retried.
MayBePushed(payload) ==
    \/ payload \in Dispatches
    \/ \E i \in DOMAIN entries :
          \/ /\ entries[i].handled /\ Len(entries[i].payload) > 1
             /\ payload = Tail(entries[i].payload)
          \/ entries[i].givenUp /\ payload = entries[i].payload

PushEntry(i, payload) ==
    /\ i \notin DOMAIN entries
    /\ MayBePushed(payload)
    /\ entries' = InsertRow(entries, i, Fresh(payload))
    /\ queued' = queued \cup {i}

RunSucceeds(i) ==
    /\ entries' = [entries EXCEPT ![i].handled = TRUE]
    /\ UNCHANGED queued

FailedRun(entry, succeeded, givesUp) ==
    [entry EXCEPT !.failures = @ + 1, !.handled = @ \/ succeeded, !.givenUp = @ \/ givesUp]

\* A run counts as failed too if the job succeeded and something after it
\* did not.
RunFails(i, succeeded, givesUp) ==
    /\ givesUp => entries[i].failures + 1 >= MaxAttempts
    /\ entries' = [entries EXCEPT ![i] = FailedRun(entries[i], succeeded, givesUp)]
    /\ UNCHANGED queued

RestIsPushed(i) ==
    Len(entries[i].payload) > 1 =>
        \E j \in DOMAIN entries : entries[j].payload = Tail(entries[i].payload)

Finished(i) ==
    \/ entries[i].handled /\ RestIsPushed(i)
    \/ entries[i].givenUp

LeaveQueue(i) ==
    /\ i \in queued
    /\ Finished(i)
    /\ queued' = queued \ {i}
    /\ UNCHANGED entries

\* What a worker or an operator does besides.
InternalStep == UNCHANGED queueVars

QueueNext ==
    \/ InternalStep
    \/ \E i \in DOMAIN entries' : PushEntry(i, entries'[i].payload)
    \/ \E i \in DOMAIN entries :
          \/ RunSucceeds(i) \/ LeaveQueue(i)
          \/ \E succeeded, givesUp \in BOOLEAN : RunFails(i, succeeded, givesUp)

QueueSpec == QueueInit /\ [][QueueNext]_queueVars
=============================================================================
