------------------------------- MODULE Batch -------------------------------
(***************************************************************************)
(* Job batches (packages/queue/src/batch.ts): the counters a batch keeps   *)
(* in one cache entry, its dispatch, and the workers that record every run *)
(* of its jobs there (worker.ts), while somebody may cancel it.  A step is *)
(* one request to the cache or to the queue.                               *)
(***************************************************************************)
EXTENDS Naturals, FiniteSets

CONSTANTS
    BatchJob,       \* the jobs of the batch
    BatchWorker,
    BatchAttempts,  \* QueueWorkerOptions.maxAttempts
    Setups,         \* the stores and queue drivers explored, see Setup
    BatchFaults,    \* what may go wrong in this instance, see BatchFaultKinds
    NoBatch

\* A worker dies; the cache or the queue refuses a request; cancel() is called.
BatchFaultKinds == {"crash", "cache", "queue", "cancel"}

\* shared: the store's get() returns the stored object (array) and not a copy
\* (file, redis).  inline: SyncQueue, whose pushRaw() runs the job.
Setup == [shared: BOOLEAN, inline: BOOLEAN]

\* The entry of a batch.
BatchState == [pendingJobs: Nat, failedJobs: Nat, finished: BOOLEAN, cancelled: BOOLEAN]

ASSUME BatchAssumption ==
    /\ IsFiniteSet(BatchJob) /\ BatchJob # {}
    /\ BatchAttempts \in Nat \ {0}
    /\ Setups \subseteq Setup
    /\ BatchFaults \subseteq BatchFaultKinds
    /\ NoBatch \notin BatchJob \cup BatchState

VARIABLES
    setup,      \* what this application is configured with, for good
    batch,      \* the cache entry, NoBatch before create()
    phase,      \* where each job is
    attempts,   \* how often it was released
    place,      \* where each worker is in QueueWorker.process
    job,        \* the job it processes
    copy,       \* what its find() returned
    canceller   \* where the one call of cancel() is, and what its find() returned

batchVars == <<setup, batch, phase, attempts, place, job, copy, canceller>>

\* A job whose recording failed is "failed" to the queue and not to the batch.
Phases == {"unpushed", "waiting", "running", "done", "failed", "unrecorded", "lost"}
Places == {"idle", "handle", "success", "successPut", "failure", "failurePut", "finish"}

BatchTypeOK ==
    /\ setup \in Setups
    /\ batch \in BatchState \cup {NoBatch}
    /\ phase \in [BatchJob -> Phases]
    /\ attempts \in [BatchJob -> 0 .. BatchAttempts - 1]
    /\ place \in [BatchWorker -> Places]
    /\ job \in [BatchWorker -> BatchJob \cup {NoBatch}]
    /\ copy \in [BatchWorker -> BatchState \cup {NoBatch}]
    /\ canceller \in [at: {"idle", "put", "done"}, copy: BatchState \cup {NoBatch}]

BatchInit ==
    /\ setup \in Setups
    /\ batch = NoBatch
    /\ phase = [j \in BatchJob |-> "unpushed"]
    /\ attempts = [j \in BatchJob |-> 0]
    /\ place = [w \in BatchWorker |-> "idle"]
    /\ job = [w \in BatchWorker |-> NoBatch]
    /\ copy = [w \in BatchWorker |-> NoBatch]
    /\ canceller = [at |-> "idle", copy |-> NoBatch]

workerVars == <<place, job, copy>>
jobVars == <<phase, attempts>>
-----------------------------------------------------------------------------
(***************************************************************************)
(* PendingBatch.dispatch(): create the entry, then push the jobs.          *)
(***************************************************************************)
Create ==
    /\ batch = NoBatch
    /\ batch' = [pendingJobs |-> Cardinality(BatchJob), failedJobs |-> 0,
                 finished |-> FALSE, cancelled |-> FALSE]
    /\ UNCHANGED <<setup, jobVars, workerVars, canceller>>

\* Where jobs run inline, dispatch() waits for each, and a failure ends it.
MayPush == setup.inline => \A j \in BatchJob : phase[j] \in {"unpushed", "done"}

Push(j) ==
    /\ batch # NoBatch
    /\ phase[j] = "unpushed"
    /\ MayPush
    /\ phase' = [phase EXCEPT ![j] = "waiting"]
    /\ UNCHANGED <<setup, batch, attempts, workerVars, canceller>>

\* pushRaw() throws: the jobs left are never pushed.
BatchDispatchFails ==
    /\ "queue" \in BatchFaults
    /\ batch # NoBatch
    /\ MayPush
    /\ \E j \in BatchJob : phase[j] = "unpushed"
    /\ phase' = [j \in BatchJob |-> IF phase[j] = "unpushed" THEN "lost" ELSE phase[j]]
    /\ UNCHANGED <<setup, batch, attempts, workerVars, canceller>>
-----------------------------------------------------------------------------
(***************************************************************************)
(* QueueWorker.process() of one of the jobs.  Each waiting job is taken by *)
(* one worker (module DatabaseQueue has the queue's own races).            *)
(***************************************************************************)
Take(w, j) ==
    /\ place[w] = "idle"
    /\ phase[j] = "waiting"
    /\ place' = [place EXCEPT ![w] = "handle"]
    /\ job' = [job EXCEPT ![w] = j]
    /\ phase' = [phase EXCEPT ![j] = "running"]
    /\ UNCHANGED <<setup, batch, attempts, copy, canceller>>

Goto(w, from, to) == place[w] = from /\ place' = [place EXCEPT ![w] = to]

Handle(w) ==
    /\ Goto(w, "handle", "success") \/ Goto(w, "handle", "failure")
    /\ UNCHANGED <<setup, batch, jobVars, job, copy, canceller>>

\* recordSuccessfulJob() and recordFailedJob(): find() ...
Find(w) ==
    /\ Goto(w, "success", "successPut") \/ Goto(w, "failure", "failurePut")
    /\ copy' = [copy EXCEPT ![w] = batch]
    /\ UNCHANGED <<setup, batch, jobVars, job, canceller>>

\* What the code holds once find() has returned: the entry's object itself,
\* as it is by now, or what was parsed from the entry.
Found(copied) == IF setup.shared THEN batch ELSE copied

OneLess(n) == IF n = 0 THEN 0 ELSE n - 1

\* Mutant: a failed job stays pending.
FailedStays(state) == [state EXCEPT !.failedJobs = @ + 1]

Failed(state) ==
    [state EXCEPT !.failedJobs = @ + 1, !.pendingJobs = OneLess(@),
                  !.finished = @ \/ OneLess(state.pendingJobs) = 0]

\* Mutant: the last success does not finish the batch.
SucceededNever(state) == [state EXCEPT !.pendingJobs = OneLess(@)]

Succeeded(state) ==
    [state EXCEPT !.pendingJobs = OneLess(@),
                  !.finished = @ \/ (OneLess(state.pendingJobs) = 0 /\ state.failedJobs = 0)]

\* Mutant: cancelled batches go on counting.
RecordsAlways(state, recorded) == recorded

Records(state, recorded) == IF state.cancelled THEN batch ELSE recorded

\* ... and the counting, with the put() that stores it.
RecordSuccess(w) ==
    /\ Goto(w, "successPut", "finish")
    /\ LET state == Found(copy[w]) IN batch' = Records(state, Succeeded(state))
    /\ phase' = [phase EXCEPT ![job[w]] = "done"]
    /\ UNCHANGED <<setup, attempts, job, copy, canceller>>

RecordFailure(w) ==
    /\ Goto(w, "failurePut", "finish")
    /\ LET state == Found(copy[w]) IN batch' = Records(state, Failed(state))
    /\ phase' = [phase EXCEPT ![job[w]] = "failed"]
    /\ UNCHANGED <<setup, attempts, job, copy, canceller>>

\* A request to the cache throws: process() records a failure if it was
\* recording a success, and what fails there leaves process().
RecordFails(w) ==
    /\ "cache" \in BatchFaults
    /\ \/ /\ Goto(w, "success", "failure") \/ Goto(w, "successPut", "failure")
          /\ UNCHANGED phase
       \/ /\ Goto(w, "failure", "finish") \/ Goto(w, "failurePut", "finish")
          /\ phase' = [phase EXCEPT ![job[w]] = "unrecorded"]
    /\ UNCHANGED <<setup, batch, attempts, job, copy, canceller>>

Idle(w) ==
    /\ place' = [place EXCEPT ![w] = "idle"]
    /\ job' = [job EXCEPT ![w] = NoBatch]
    /\ copy' = [copy EXCEPT ![w] = NoBatch]

\* Mutant: one attempt too many.
BatchGivesUpLate(j) == setup.inline \/ attempts[j] + 1 > BatchAttempts

BatchGivesUp(j) == setup.inline \/ attempts[j] + 1 >= BatchAttempts

\* The queue deletes the job, or releases it for another attempt.
Finish(w) ==
    /\ place[w] = "finish"
    /\ Idle(w)
    /\ IF phase[job[w]] # "done" /\ ~BatchGivesUp(job[w])
       THEN /\ phase' = [phase EXCEPT ![job[w]] = "waiting"]
            /\ attempts' = [attempts EXCEPT ![job[w]] = @ + 1]
       ELSE UNCHANGED jobVars
    /\ UNCHANGED <<setup, batch, canceller>>

\* The worker's process dies: its job stays reserved for good.
BatchCrash(w) ==
    /\ "crash" \in BatchFaults
    /\ place[w] # "idle"
    /\ Idle(w)
    /\ phase' = IF place[w] = "finish" THEN phase
                ELSE [phase EXCEPT ![job[w]] = "lost"]
    /\ UNCHANGED <<setup, batch, attempts, canceller>>
-----------------------------------------------------------------------------
(***************************************************************************)
(* cancel().                                                               *)
(***************************************************************************)
CancelFind ==
    /\ "cancel" \in BatchFaults
    /\ batch # NoBatch
    /\ canceller.at = "idle"
    /\ canceller' = [at |-> "put", copy |-> batch]
    /\ UNCHANGED <<setup, batch, jobVars, workerVars>>

CancelPut ==
    /\ canceller.at = "put"
    /\ batch' = [Found(canceller.copy) EXCEPT !.cancelled = TRUE]
    /\ canceller' = [at |-> "done", copy |-> NoBatch]
    /\ UNCHANGED <<setup, jobVars, workerVars>>

BatchWorkerStep(w) ==
    \/ \E j \in BatchJob : Take(w, j)
    \/ Handle(w) \/ Find(w) \/ RecordSuccess(w) \/ RecordFailure(w)
    \/ Finish(w)

DispatchBatch == Create \/ \E j \in BatchJob : Push(j)

BatchNext ==
    \/ DispatchBatch
    \/ BatchDispatchFails
    \/ \E w \in BatchWorker : BatchWorkerStep(w) \/ RecordFails(w) \/ BatchCrash(w)
    \/ CancelFind \/ CancelPut

BatchSpec == BatchInit /\ [][BatchNext]_batchVars
-----------------------------------------------------------------------------
JobsIn(set) == {j \in BatchJob : phase[j] \in set}

\* While every job gets one attempt, a finished batch has seen the end of
\* all its jobs and the right number of failures, however its recorders
\* overwrite each other's counts, fail or die: an update lost can only make
\* a batch finish late.
FinishedTellsTheTruth ==
    batch # NoBatch /\ batch.finished =>
        /\ JobsIn({"done", "failed"}) = BatchJob
        /\ batch.failedJobs = Cardinality(JobsIn({"failed"}))

\* Where the store hands out its own object no count is lost, whatever is
\* refused and whoever dies: a job is pending until its run is recorded.
CountsEveryRun ==
    setup.shared /\ batch # NoBatch /\ ~batch.cancelled =>
        /\ batch.pendingJobs = Cardinality(BatchJob \ JobsIn({"done", "failed"}))
        /\ batch.failedJobs = Cardinality(JobsIn({"failed"}))

\* On such a store a cancelled batch changes no more: on the others a count
\* under way undoes the cancel.
CancelledIsFinal ==
    [][setup.shared /\ batch # NoBatch /\ batch.cancelled => batch' = batch]_batchVars
-----------------------------------------------------------------------------
\* dispatch() runs on, and so do the workers.
FairBatchSpec ==
    /\ BatchSpec
    /\ WF_batchVars(DispatchBatch)
    /\ \A w \in BatchWorker : WF_batchVars(BatchWorkerStep(w))

Over == batch # NoBatch /\ (batch.finished \/ batch.cancelled)

\* On such a store a batch that is dispatched finishes, unless it is
\* cancelled, or one of its jobs failed or got lost.
SuccessFinishes ==
    setup.shared /\ batch # NoBatch
        ~> (Over \/ JobsIn({"failed", "unrecorded", "lost"}) # {})

\* What holds of the counters, on every store (the parts are stated above).
BatchInv == BatchTypeOK /\ FinishedTellsTheTruth /\ CountsEveryRun
-----------------------------------------------------------------------------
(***************************************************************************)
(* What the safety properties rest on: the invariants of Batch's proofs    *)
(* (module BatchProofs).                                                   *)
(***************************************************************************)
Recording == {"handle", "success", "successPut", "failure", "failurePut"}
Putting == {"successPut", "failurePut"}

\* A worker has a job of its own from when it takes it to when it lets it go.
HoldsJob(w) ==
    /\ place[w] = "idle" <=> job[w] = NoBatch
    /\ place[w] # "idle" => \A v \in BatchWorker \ {w} : job[v] # job[w]
    /\ place[w] \in Recording => phase[job[w]] = "running"
    /\ place[w] = "finish" => phase[job[w]] \in {"done", "failed", "unrecorded"}
    /\ place[w] \in Putting => copy[w] \in BatchState

Held ==
    /\ \A w \in BatchWorker : HoldsJob(w)
    /\ canceller.at = "put" => canceller.copy \in BatchState /\ batch # NoBatch
    /\ batch = NoBatch => /\ \A j \in BatchJob : phase[j] = "unpushed"
                          /\ \A w \in BatchWorker : place[w] = "idle"

\* What any copy of the entry may claim: no failure and no success that was
\* not recorded.
Claims(state) ==
    LET count == Cardinality(BatchJob)
        told  == state.pendingJobs + state.failedJobs
    IN /\ told <= count
       /\ count <= told + Cardinality(JobsIn({"done"}))
       /\ state.failedJobs <= Cardinality(JobsIn({"failed"}))
       /\ state.finished => state.pendingJobs = 0

ClaimsHold ==
    /\ batch # NoBatch => Claims(batch)
    /\ \A w \in BatchWorker : place[w] \in Putting => Claims(copy[w])
    /\ canceller.at = "put" => Claims(canceller.copy)
=============================================================================
