--------------------------- MODULE DatabaseQueue ---------------------------
(***************************************************************************)
(* The database queue driver (packages/queue/src/database-queue.ts) under  *)
(* the worker loop (queue-processor.ts, worker.ts) of several `queue:work` *)
(* processes, with the failed_jobs table (failed-job-repository.ts) and    *)
(* the operators who run `queue:retry` on it.                              *)
(*                                                                         *)
(* Every action is one database statement, or the piece of a worker        *)
(* between two of its awaits, so the statements of different processes     *)
(* interleave as they do in the code.  A payload is the sequence of jobs   *)
(* it carries: its head is the job that runs, its tail the `chain` still   *)
(* to be pushed.                                                           *)
(***************************************************************************)
EXTENDS Naturals, Sequences, FiniteSets, Table

CONSTANTS
    Job,            \* jobs, each a class with its data
    Queue,          \* queue names
    Dispatches,     \* the payloads the application dispatches, each once
    Worker,         \* queue:work processes
    Serves,         \* the queue each of them was started with (--queue)
    Operator,       \* people or scripts running queue:retry
    MaxAttempts,    \* QueueWorkerOptions.maxAttempts
    RetryAfter,     \* seconds a released job stays unavailable
    MaxJobs,        \* QueueWorkerRunOptions.maxJobs
    Unlimited,      \* its value when the option is absent
    TracksFailures, \* whether a FailedJobRepository is configured
    MaxRetries,     \* bound: how often the operators start a retry
    Faults,         \* what may go wrong in this instance, see FaultKinds
    None

Payload == Seq(Job) \ {<<>>}

FaultKinds == {"crash", "database", "hook", "signal"}

ASSUME PayloadAssumption == Dispatches \subseteq Payload
ASSUME WorkerAssumption  == IsFiniteSet(Worker) /\ Serves \in [Worker -> Queue]
ASSUME LimitAssumption   ==
    /\ MaxAttempts \in Nat \ {0}
    /\ RetryAfter \in Nat
    /\ Unlimited \notin Nat
    /\ MaxJobs \in Nat \cup {Unlimited}
    /\ MaxRetries \in Nat
ASSUME SwitchAssumption  ==
    /\ TracksFailures \in BOOLEAN
    /\ Faults \subseteq FaultKinds

VARIABLES
    jobs,         \* the jobs table
    failedJobs,   \* the failed_jobs table
    lastFailed,   \* the last id its AUTOINCREMENT gave out
    pc,           \* where each worker is in QueueProcessor.run
    record,       \* the job it popped: the row as its SELECT returned it
    found,        \* the attempts its release() read
    quit,         \* its shouldQuit flag
    processed,    \* its processed counter
    retrying,     \* what each operator's queue:retry is doing
    retries,      \* how many retries were started (the bound's counter)
    forgotten,    \* history: payloads whose failed row was forgotten
    ledger        \* history: one entry per row ever inserted in jobs

vars == <<jobs, failedJobs, lastFailed, pc, record, found, quit, processed,
          retrying, retries, forgotten, ledger>>

workerVars   == <<pc, record, found, quit, processed>>
failedVars   == <<failedJobs, lastFailed, forgotten>>
operatorVars == <<retrying, retries>>
-----------------------------------------------------------------------------
Row == [queue: Queue, payload: Payload, attempts: Nat, reserved: BOOLEAN,
        delayed: BOOLEAN]      \* delayed: available_at lies in the future

Popped == [id: Nat \ {0}, queue: Queue, payload: Payload, attempts: Nat]

ASSUME NoneAssumption == None \notin Popped     \* pop() returns null or a record

FailedRow == [queue: Queue, payload: Payload]

\* What became of the i-th row inserted: how many of its runs failed, and
\* whether a run succeeded or the job was declared permanently failed.
Entry == [payload: Payload, failures: Nat, handled: BOOLEAN, givenUp: BOOLEAN]

PcStates == {"stopped", "loop", "asleep", "reserve", "run", "chain", "delete",
             "record", "discard", "release", "rewrite"}

Retrying == [at: {"idle", "push", "delete"}, id: Nat, row: FailedRow \cup {None}]

NotRetrying == [at |-> "idle", id |-> 0, row |-> None]

TypeOK ==
    /\ jobs \in [DOMAIN jobs -> Row] /\ DOMAIN jobs \subseteq DOMAIN ledger
    /\ failedJobs \in [DOMAIN failedJobs -> FailedRow]
    /\ lastFailed \in Nat /\ DOMAIN failedJobs \subseteq 1 .. lastFailed
    /\ pc \in [Worker -> PcStates]
    /\ record \in [Worker -> Popped \cup {None}]
    /\ found \in [Worker -> Nat]
    /\ quit \in [Worker -> BOOLEAN]
    /\ processed \in [Worker -> Nat]
    /\ retrying \in [Operator -> Retrying]
    /\ retries \in Nat
    /\ forgotten \subseteq Payload
    /\ ledger \in Seq(Entry)

Init ==
    /\ jobs = EmptyTable
    /\ failedJobs = EmptyTable
    /\ lastFailed = 0
    /\ pc = [w \in Worker |-> "stopped"]
    /\ record = [w \in Worker |-> None]
    /\ found = [w \in Worker |-> 0]
    /\ quit = [w \in Worker |-> FALSE]
    /\ processed = [w \in Worker |-> 0]
    /\ retrying = [o \in Operator |-> NotRetrying]
    /\ retries = 0
    /\ forgotten = {}
    /\ ledger = <<>>
-----------------------------------------------------------------------------
(***************************************************************************)
(* Pushing.  pushRaw() and later() insert an unreserved row with no        *)
(* attempts; the table's AUTOINCREMENT never hands an id out twice.        *)
(***************************************************************************)
Insert(payload, queue, delayed) ==
    /\ jobs' = InsertRow(jobs, Len(ledger) + 1,
                         [queue |-> queue, payload |-> payload, attempts |-> 0,
                          reserved |-> FALSE, delayed |-> delayed])
    /\ ledger' = Append(ledger, [payload |-> payload, failures |-> 0,
                                 handled |-> FALSE, givenUp |-> FALSE])

Accepted == {ledger[i].payload : i \in DOMAIN ledger}

\* dispatch(job), and Chain.dispatch() when the payload has several jobs.
Dispatch(payload, queue) ==
    /\ payload \in Dispatches \ Accepted
    /\ Insert(payload, queue, FALSE)
    /\ UNCHANGED <<workerVars, failedVars, operatorVars>>

\* dispatchLater(delay, job): a single job, never a chain.
DispatchLater(payload, queue) ==
    /\ payload \in Dispatches \ Accepted
    /\ Len(payload) = 1
    /\ Insert(payload, queue, TRUE)
    /\ UNCHANGED <<workerVars, failedVars, operatorVars>>

\* The clock reaches a row's available_at.
Elapse(i) ==
    /\ jobs[i].delayed
    /\ jobs' = [jobs EXCEPT ![i].delayed = FALSE]
    /\ UNCHANGED <<ledger, workerVars, failedVars, operatorVars>>
-----------------------------------------------------------------------------
(***************************************************************************)
(* The worker loop.                                                        *)
(***************************************************************************)
Goto(w, at) == pc' = [pc EXCEPT ![w] = at]

\* processed += 1, then back to the loop condition.  The counter is kept
\* only when there is a limit to compare it with.
NextIteration(w) ==
    /\ Goto(w, "loop")
    /\ record' = [record EXCEPT ![w] = None]
    /\ found' = [found EXCEPT ![w] = 0]
    /\ processed' = IF MaxJobs = Unlimited THEN processed
                    ELSE [processed EXCEPT ![w] = @ + 1]
    /\ UNCHANGED quit

\* The process ends, by itself or not: whatever it held in memory is gone.
Stop(w) ==
    /\ Goto(w, "stopped")
    /\ record' = [record EXCEPT ![w] = None]
    /\ found' = [found EXCEPT ![w] = 0]
    /\ quit' = [quit EXCEPT ![w] = FALSE]
    /\ processed' = [processed EXCEPT ![w] = 0]

Continues(w) == ~quit[w] /\ (MaxJobs # Unlimited => processed[w] < MaxJobs)

\* Mutant: the SELECT forgets `reserved_at IS NULL`.
AvailableReserved(w) == {i \in DOMAIN jobs : /\ jobs[i].queue = Serves[w]
                                             /\ ~jobs[i].delayed}

Available(w) == {i \in DOMAIN jobs : /\ jobs[i].queue = Serves[w]
                                     /\ ~jobs[i].reserved
                                     /\ ~jobs[i].delayed}

Start(w) ==
    /\ pc[w] = "stopped"
    /\ Goto(w, "loop")
    /\ UNCHANGED <<record, found, quit, processed>>
    /\ UNCHANGED <<jobs, ledger, failedVars, operatorVars>>

Exit(w) ==
    /\ pc[w] = "loop"
    /\ ~Continues(w)
    /\ Stop(w)
    /\ UNCHANGED <<jobs, ledger, failedVars, operatorVars>>

\* pop(): the SELECT ... ORDER BY id LIMIT 1.  The row it returns is the
\* record the loop works with, however the row changes afterwards.
Select(w) ==
    /\ pc[w] = "loop"
    /\ Continues(w)
    /\ \E i \in Available(w) :
          /\ \A j \in Available(w) : i <= j
          /\ record' = [record EXCEPT ![w] =
                           [id |-> i, queue |-> jobs[i].queue,
                            payload |-> jobs[i].payload,
                            attempts |-> jobs[i].attempts]]
    /\ Goto(w, "reserve")
    /\ UNCHANGED <<found, quit, processed>>
    /\ UNCHANGED <<jobs, ledger, failedVars, operatorVars>>

SelectNothing(w) ==
    /\ pc[w] = "loop"
    /\ Continues(w)
    /\ Available(w) = {}
    /\ Goto(w, "asleep")
    /\ UNCHANGED <<record, found, quit, processed>>
    /\ UNCHANGED <<jobs, ledger, failedVars, operatorVars>>

\* sleepSeconds pass, or shutdown() wakes the worker.
Wake(w) ==
    /\ pc[w] = "asleep"
    /\ Goto(w, "loop")
    /\ UNCHANGED <<record, found, quit, processed>>
    /\ UNCHANGED <<jobs, ledger, failedVars, operatorVars>>

\* pop(): the UPDATE ... WHERE id, which asks nothing of the row any more.
Reserve(w) ==
    /\ pc[w] = "reserve"
    /\ LET i == record[w].id IN
         jobs' = UpdateRow(jobs, i, [jobs[i] EXCEPT !.reserved = TRUE])
    /\ Goto(w, "run")
    /\ UNCHANGED <<record, found, quit, processed>>
    /\ UNCHANGED <<ledger, failedVars, operatorVars>>
-----------------------------------------------------------------------------
(***************************************************************************)
(* One job: QueueWorker.process inside the loop's try, then deleteJob; the *)
(* loop's catch.  The production worker has no batch repository (module    *)
(* Batch has the worker that does).                                        *)
(***************************************************************************)
\* Mutants: an attempt too few, and one too many.
GivesUpEarly(w) == record[w].attempts + 2 >= MaxAttempts
GivesUpLate(w) == record[w].attempts + 1 > MaxAttempts

GivesUp(w) == record[w].attempts + 1 >= MaxAttempts

\* Mutants: a job given up is deleted without its failed_jobs row; a worker
\* asked to quit does not release; a failed job's chain goes on.
CatchErrorUnrecorded(w) == Goto(w, IF GivesUp(w) THEN "discard" ELSE "release")
CatchErrorQuits(w) ==
    Goto(w, IF GivesUp(w) THEN "record" ELSE IF quit[w] THEN "loop" ELSE "release")
CatchErrorContinues(w) ==
    Goto(w, IF ~GivesUp(w) THEN "release"
            ELSE IF Len(record[w].payload) > 1 THEN "chain" ELSE "record")

\* The catch block's decision, on the attempts of the popped record.
CatchError(w) ==
    Goto(w, IF ~GivesUp(w)    THEN "release"
            ELSE IF TracksFailures THEN "record" ELSE "discard")

\* Mutant: the rest of a chain is never pushed.
NeverChained(w) == FALSE

\* Mutant: every chain is taken for having a next job.
AlwaysChained(w) == TRUE

Chained(w) == Len(record[w].payload) > 1

\* job.handle() returns.
Succeed(w) ==
    /\ pc[w] = "run"
    /\ ledger' = [ledger EXCEPT ![record[w].id].handled = TRUE]
    /\ Goto(w, IF Chained(w) THEN "chain" ELSE "delete")
    /\ UNCHANGED <<record, found, quit, processed>>
    /\ UNCHANGED <<jobs, failedVars, operatorVars>>

FailedEntry(entry, givesUp) ==
    IF givesUp THEN [entry EXCEPT !.failures = @ + 1, !.givenUp = TRUE]
    ELSE [entry EXCEPT !.failures = @ + 1]

Caught(w, entry) ==
    /\ CatchError(w)
    /\ ledger' = [ledger EXCEPT ![record[w].id] = FailedEntry(entry, GivesUp(w))]
    /\ UNCHANGED <<record, found, quit, processed>>
    /\ UNCHANGED <<jobs, failedVars, operatorVars>>

\* decode(), registry.has() or job.handle() throws.
Fail(w) ==
    /\ pc[w] = "run"
    /\ Caught(w, ledger[record[w].id])

\* job.handle() returns and the process hook, run in the finally, throws.
HookFails(w) ==
    /\ "hook" \in Faults
    /\ pc[w] = "run"
    /\ Caught(w, [ledger[record[w].id] EXCEPT !.handled = TRUE])

\* The rest of the chain becomes a job of its own, on the worker's queue.
PushNext(w) ==
    /\ pc[w] = "chain"
    /\ Insert(Tail(record[w].payload), Serves[w], FALSE)
    /\ Goto(w, "delete")
    /\ UNCHANGED <<record, found, quit, processed>>
    /\ UNCHANGED <<failedVars, operatorVars>>

DeleteJob(w) ==
    /\ pc[w] = "delete"
    /\ jobs' = DeleteRow(jobs, record[w].id)
    /\ NextIteration(w)
    /\ UNCHANGED <<ledger, failedVars, operatorVars>>

\* failedJobs.record(), an INSERT ...
RecordFailed(w) ==
    /\ pc[w] = "record"
    /\ lastFailed' = lastFailed + 1
    /\ failedJobs' = InsertRow(failedJobs, lastFailed + 1,
                               [queue |-> Serves[w], payload |-> record[w].payload])
    /\ Goto(w, "discard")
    /\ UNCHANGED <<record, found, quit, processed>>
    /\ UNCHANGED <<jobs, ledger, forgotten, operatorVars>>

\* ... and then deleteJob().
Discard(w) ==
    /\ pc[w] = "discard"
    /\ jobs' = DeleteRow(jobs, record[w].id)
    /\ NextIteration(w)
    /\ UNCHANGED <<ledger, failedVars, operatorVars>>

\* release() of a row that is gone returns at once.
ReleaseNothing(w) ==
    /\ pc[w] = "release"
    /\ record[w].id \notin DOMAIN jobs
    /\ NextIteration(w)
    /\ UNCHANGED <<jobs, ledger, failedVars, operatorVars>>

\* release(): the SELECT ...
ReleaseRead(w) ==
    /\ pc[w] = "release"
    /\ record[w].id \in DOMAIN jobs
    /\ found' = [found EXCEPT ![w] = jobs[record[w].id].attempts]
    /\ Goto(w, "rewrite")
    /\ UNCHANGED <<record, quit, processed>>
    /\ UNCHANGED <<jobs, ledger, failedVars, operatorVars>>

\* Mutant: the UPDATE leaves reserved_at as it was.
ReleaseReserved(w) ==
    /\ pc[w] = "rewrite"
    /\ LET i == record[w].id IN
         jobs' = UpdateRow(jobs, i, [jobs[i] EXCEPT !.attempts = found[w] + 1])
    /\ NextIteration(w)
    /\ UNCHANGED <<ledger, failedVars, operatorVars>>

\* ... and the UPDATE, with the attempts of that SELECT plus one.
ReleaseWrite(w) ==
    /\ pc[w] = "rewrite"
    /\ LET i == record[w].id IN
         jobs' = UpdateRow(jobs, i, [jobs[i] EXCEPT !.reserved = FALSE,
                                                    !.delayed  = RetryAfter > 0,
                                                    !.attempts = found[w] + 1])
    /\ NextIteration(w)
    /\ UNCHANGED <<ledger, failedVars, operatorVars>>
-----------------------------------------------------------------------------
(***************************************************************************)
(* What may go wrong around a worker.                                      *)
(***************************************************************************)

\* SIGTERM or SIGINT: shutdown() sets a flag only the loop condition reads.
Signal(w) ==
    /\ "signal" \in Faults
    /\ pc[w] # "stopped"
    /\ ~quit[w]
    /\ quit' = [quit EXCEPT ![w] = TRUE]
    /\ UNCHANGED <<pc, record, found, processed>>
    /\ UNCHANGED <<jobs, ledger, failedVars, operatorVars>>

\* The process dies.
Crash(w) ==
    /\ "crash" \in Faults
    /\ pc[w] # "stopped"
    /\ Stop(w)
    /\ UNCHANGED <<jobs, ledger, failedVars, operatorVars>>

\* A statement of pop() fails: the loop sleeps and starts over.
PopFails(w) ==
    /\ "database" \in Faults
    /\ pc[w] \in {"loop", "reserve"}
    /\ pc[w] = "loop" => Continues(w)
    /\ Goto(w, "asleep")
    /\ record' = [record EXCEPT ![w] = None]
    /\ UNCHANGED <<found, quit, processed>>
    /\ UNCHANGED <<jobs, ledger, failedVars, operatorVars>>

\* The chain's push or the deleteJob of a job that succeeded fails: the
\* loop catches the error as it does one of the job itself.
FinishFails(w) ==
    /\ "database" \in Faults
    /\ pc[w] \in {"chain", "delete"}
    /\ Caught(w, ledger[record[w].id])

\* A statement of the catch block fails: the error leaves run().
CatchFails(w) ==
    /\ "database" \in Faults
    /\ pc[w] \in {"record", "discard", "release", "rewrite"}
    /\ Stop(w)
    /\ UNCHANGED <<jobs, ledger, failedVars, operatorVars>>
-----------------------------------------------------------------------------
(***************************************************************************)
(* Operators: FailedJobRepository.retry() finds the row, pushes its        *)
(* payload and then deletes the row; forget() deletes it.                  *)
(***************************************************************************)
RetryFind(o) ==
    /\ retrying[o].at = "idle"
    /\ retries < MaxRetries
    /\ retries' = retries + 1
    /\ \E k \in DOMAIN failedJobs :
          retrying' = [retrying EXCEPT ![o] =
                         [at |-> "push", id |-> k, row |-> failedJobs[k]]]
    /\ UNCHANGED <<jobs, ledger, failedVars, workerVars>>

RetryPush(o) ==
    /\ retrying[o].at = "push"
    /\ Insert(retrying[o].row.payload, retrying[o].row.queue, FALSE)
    /\ retrying' = [retrying EXCEPT ![o].at = "delete"]
    /\ UNCHANGED <<retries, failedVars, workerVars>>

RetryDelete(o) ==
    /\ retrying[o].at = "delete"
    /\ failedJobs' = DeleteRow(failedJobs, retrying[o].id)
    /\ retrying' = [retrying EXCEPT ![o] = NotRetrying]
    /\ UNCHANGED <<retries, lastFailed, forgotten, jobs, ledger, workerVars>>

\* The command dies, or one of its statements fails.
RetryFails(o) ==
    /\ Faults \cap {"crash", "database"} # {}
    /\ retrying[o].at # "idle"
    /\ retrying' = [retrying EXCEPT ![o] = NotRetrying]
    /\ UNCHANGED <<retries, jobs, ledger, failedVars, workerVars>>

Forget(k) ==
    /\ failedJobs' = DeleteRow(failedJobs, k)
    /\ forgotten' = forgotten \cup {failedJobs[k].payload}
    /\ UNCHANGED <<lastFailed, jobs, ledger, workerVars, operatorVars>>
-----------------------------------------------------------------------------
Produce ==
    \/ \E p \in Dispatches, q \in Queue : Dispatch(p, q) \/ DispatchLater(p, q)
    \/ \E i \in DOMAIN jobs : Elapse(i)

WorkerStep(w) ==
    \/ Start(w) \/ Exit(w) \/ Select(w) \/ SelectNothing(w) \/ Wake(w)
    \/ Reserve(w) \/ Succeed(w) \/ Fail(w) \/ PushNext(w) \/ DeleteJob(w)
    \/ RecordFailed(w) \/ Discard(w)
    \/ ReleaseNothing(w) \/ ReleaseRead(w) \/ ReleaseWrite(w)

Fault(w) == HookFails(w) \/ Signal(w) \/ Crash(w) \/ PopFails(w)
            \/ FinishFails(w) \/ CatchFails(w)

OperatorStep(o) == RetryFind(o) \/ RetryPush(o) \/ RetryDelete(o) \/ RetryFails(o)

Next ==
    \/ Produce
    \/ \E w \in Worker : WorkerStep(w) \/ Fault(w)
    \/ \E o \in Operator : OperatorStep(o)
    \/ \E k \in DOMAIN failedJobs : Forget(k)

Spec == Init /\ [][Next]_vars
-----------------------------------------------------------------------------
(***************************************************************************)
(* Safety.                                                                 *)
(***************************************************************************)
Stored(p)  == \E i \in DOMAIN jobs : jobs[i].payload = p
Failed(p)  == \E k \in DOMAIN failedJobs : failedJobs[k].payload = p
Handled(p) == \E i \in DOMAIN ledger : ledger[i].payload = p /\ ledger[i].handled
GivenUp(p) == \E i \in DOMAIN ledger : ledger[i].payload = p /\ ledger[i].givenUp

\* The job ran and what its chain still held is in the system's hands.
Completed(p) == Handled(p) /\ (Len(p) > 1 => Tail(p) \in Accepted)

\* No job that was pushed disappears, whichever worker, operator or
\* database statement fails or dies at whichever point: it is in jobs or in
\* failed_jobs, or it ran and the rest of its chain was pushed, or an
\* operator dropped it (without a failed_jobs repository: or it was given up).
NoJobLost ==
    \A p \in Accepted :
        \/ Stored(p) \/ Failed(p) \/ Completed(p) \/ p \in forgotten
        \/ ~TracksFailures /\ GivenUp(p)

\* A job is declared permanently failed only after MaxAttempts runs of that
\* row failed.  The decision reads the attempts of a row other workers may
\* be releasing, and those releases may overwrite each other.
GivenUpOnlyAfterMaxAttempts ==
    \A i \in DOMAIN ledger :
        ledger[i].givenUp => ledger[i].failures >= MaxAttempts

\* Between the UPDATE of pop() and the end of the job, a worker answers for
\* the row it reserved.
Working == {"run", "chain", "delete", "record", "discard", "release", "rewrite"}

Holds(w, i) == pc[w] \in Working /\ record[w].id = i

\* A graceful shutdown abandons no job: as long as no process dies and no
\* statement fails, each reserved row has a worker that will delete or
\* release it, although several workers may hold it and SIGTERM may come
\* between any two of their steps.
ReservedRowsAreHeld ==
    Faults \cap {"crash", "database"} = {} =>
        \A i \in DOMAIN jobs : jobs[i].reserved => \E w \in Worker : Holds(w, i)

\* A chained job enters the table only after the job before it in the chain
\* ran successfully, from a row that was inserted earlier.
ChainsRunInOrder ==
    \A i \in DOMAIN ledger :
        \/ ledger[i].payload \in Dispatches
        \/ \E j \in 1 .. i - 1 : /\ ledger[j].handled
                                 /\ Len(ledger[j].payload) > 1
                                 /\ Tail(ledger[j].payload) = ledger[i].payload

\* With a single worker the row of a job that is still in the table has an
\* attempt left, and no row's job is run more than MaxAttempts times.
RunsAtMostMaxAttempts ==
    /\ \A i \in DOMAIN jobs : jobs[i].attempts < MaxAttempts
    /\ \A i \in DOMAIN ledger : ledger[i].failures <= MaxAttempts
-----------------------------------------------------------------------------
(***************************************************************************)
(* What the safety properties rest on: the invariants of DatabaseQueue's   *)
(* proofs (module DatabaseQueueProofs).                                    *)
(***************************************************************************)

\* A popped record still names the row it was read from, and a row the
\* payload it was inserted with.
RecordLinked(w) ==
    pc[w] \in Working \cup {"reserve"} =>
        /\ record[w] \in Popped
        /\ record[w].id \in DOMAIN ledger
        /\ record[w].payload = ledger[record[w].id].payload
        /\ pc[w] = "chain" => Chained(w)

RetryLinked(o) ==
    retrying[o].at # "idle" => /\ retrying[o].row \in FailedRow
                               /\ retrying[o].id \in 1 .. lastFailed

Linked ==
    /\ \A w \in Worker : RecordLinked(w)
    /\ \A i \in DOMAIN jobs : jobs[i].payload = ledger[i].payload
    /\ \A o \in Operator : RetryLinked(o)

\* The workers that counted a failed run of row i and have yet to write it
\* back to the row.
Releasing(i) == {w \in Worker : pc[w] \in {"release", "rewrite"} /\ record[w].id = i}

\* Whatever count of attempts somebody may act on, the row's own, the popped
\* record's or the one release() read, leaves a failed run for each worker
\* still to release the row.
Earned(i, n) == n + Cardinality(Releasing(i)) <= ledger[i].failures

AttemptsEarned ==
    /\ \A i \in DOMAIN jobs : Earned(i, jobs[i].attempts)
    /\ \A w \in Worker : pc[w] \in Working \cup {"reserve"} =>
          Earned(record[w].id, record[w].attempts)
    /\ \A w \in Worker : pc[w] = "rewrite" => Earned(record[w].id, found[w])

\* What a worker or an operator relies on when it deletes a row: the job it
\* holds ran and the rest of its chain was pushed, or it was given up; the row
\* it retries is the one it found.
RunNoted(w) ==
    /\ pc[w] \in {"chain", "delete"} => ledger[record[w].id].handled
    /\ pc[w] = "delete" /\ Chained(w) => Tail(record[w].payload) \in Accepted
    /\ pc[w] \in {"record", "discard"} => ledger[record[w].id].givenUp

RetryNoted(o) ==
    retrying[o].at # "idle" =>
        /\ GivenUp(retrying[o].row.payload)
        /\ retrying[o].id \in DOMAIN failedJobs =>
               failedJobs[retrying[o].id] = retrying[o].row

Noted ==
    /\ \A w \in Worker : RunNoted(w)
    /\ \A k \in DOMAIN failedJobs : GivenUp(failedJobs[k].payload)
    /\ \A o \in Operator : RetryNoted(o)

\* Rows about to be deleted because another row took over their payload: a
\* job whose failed_jobs row is written, a failed row that was pushed again.
Discarding(i) == \E w \in Worker : pc[w] = "discard" /\ record[w].id = i
Deleting(k) == \E o \in Operator : retrying[o].at = "delete" /\ retrying[o].id = k

\* NoJobLost without counting the rows about to be deleted.
InJobs(p) == \E i \in DOMAIN jobs : jobs[i].payload = p /\ ~Discarding(i)
InFailed(p) == \E k \in DOMAIN failedJobs : failedJobs[k].payload = p /\ ~Deleting(k)

Safe(p) ==
    \/ InJobs(p) \/ InFailed(p) \/ Completed(p) \/ p \in forgotten
    \/ ~TracksFailures /\ GivenUp(p)

EveryJobSafe == \A p \in Accepted : Safe(p)
-----------------------------------------------------------------------------
(***************************************************************************)
(* Action properties.                                                      *)
(***************************************************************************)
Starts(w) == pc[w] = "reserve" /\ pc'[w] = "run"

\* With a single worker, a job that ran successfully is not run again from
\* the same row, unless what came after its run threw: a crash between its
\* run and its deleteJob leaves the row reserved.
RerunsOnlyAfterFailures ==
    \A w \in Worker : Starts(w) => \/ ~ledger[record[w].id].handled
                                  \/ ledger[record[w].id].failures > 0

\* A reserved row no worker has popped (its worker died) is never released
\* nor popped again: retryAfter delays releases only, nothing hands such a
\* row to another worker.
Orphaned(i) == /\ jobs[i].reserved
               /\ \A w \in Worker : record[w] = None \/ record[w].id # i

OrphansStay ==
    [][\A i \in DOMAIN jobs : Orphaned(i) => i \in DOMAIN jobs' /\ Orphaned(i)']_vars

\* The jobs table is the queue of module JobQueue, whatever fails or dies: each
\* statement of a worker or an operator is one step of that queue or none.
Promised == INSTANCE JobQueue WITH entries <- ledger, queued <- DOMAIN jobs

ImplementsQueue == Promised!QueueSpec
-----------------------------------------------------------------------------
(***************************************************************************)
(* Liveness.                                                               *)
(***************************************************************************)

\* Every queue:work process runs and is restarted when it exits, and time
\* passes.  Nothing is assumed of operators, producers or faults.
Fairness ==
    /\ \A w \in Worker : WF_vars(WorkerStep(w))
    /\ WF_vars(\E i \in DOMAIN jobs : Elapse(i))

Suffix(p, k) == SubSeq(p, k, Len(p))

\* The whole chain of p ran, or one of its jobs was given up.
Settled(p) == \/ \E k \in 1 .. Len(p) : GivenUp(Suffix(p, k))
              \/ Handled(Suffix(p, Len(p)))

\* Every dispatched chain is eventually finished or given up, whatever the
\* jobs do, when no process dies and no statement fails.
EveryChainSettles ==
    \A p \in Dispatches : p \in Accepted ~> Settled(p)
=============================================================================
