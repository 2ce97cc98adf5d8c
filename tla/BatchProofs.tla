----------------------------- MODULE BatchProofs -----------------------------
(***************************************************************************)
(* Proofs about Batch, for every set of jobs and of workers, on every      *)
(* store and under every combination of faults.                            *)
(***************************************************************************)
EXTENDS Batch, TLAPS, FiniteSetTheorems

TypeInv == BatchTypeOK /\ Held

\* What a record of the counters computes, and what of the old ones it keeps.
LEMMA RecordsType ==
    ASSUME NEW s \in BatchState
    PROVE  Succeeded(s) \in BatchState /\ Failed(s) \in BatchState
<1>1. PICK p \in Nat, q \in Nat : p = OneLess(s.pendingJobs) /\ q = s.failedJobs + 1
  BY DEF BatchState, OneLess
<1>2. PICK f \in BOOLEAN : f = (s.finished \/ (OneLess(s.pendingJobs) = 0 /\ s.failedJobs = 0))
  BY Zenon
<1>3. PICK g \in BOOLEAN : g = (s.finished \/ OneLess(s.pendingJobs) = 0)
  BY Zenon
<1>4. Succeeded(s) = [s EXCEPT !.pendingJobs = p, !.finished = f]
  BY <1>1, <1>2, Zenon DEF Succeeded
<1>5. Failed(s) = [s EXCEPT !.failedJobs = q, !.pendingJobs = p, !.finished = g]
  BY <1>1, <1>3, Zenon DEF Failed
<1>6. [s EXCEPT !.pendingJobs = p, !.finished = f] \in BatchState
  BY DEF BatchState
<1>7. [s EXCEPT !.failedJobs = q, !.pendingJobs = p, !.finished = g] \in BatchState
  BY DEF BatchState
<1> QED
  BY <1>4, <1>5, <1>6, <1>7, Zenon

LEMMA RecordsFields ==
    ASSUME NEW s \in BatchState
    PROVE  /\ Succeeded(s).pendingJobs = OneLess(s.pendingJobs)
           /\ Succeeded(s).failedJobs = s.failedJobs
           /\ Succeeded(s).finished <=>
                  s.finished \/ (OneLess(s.pendingJobs) = 0 /\ s.failedJobs = 0)
           /\ Succeeded(s).cancelled = s.cancelled
           /\ Failed(s).pendingJobs = OneLess(s.pendingJobs)
           /\ Failed(s).failedJobs = s.failedJobs + 1
           /\ Failed(s).finished <=> s.finished \/ OneLess(s.pendingJobs) = 0
           /\ Failed(s).cancelled = s.cancelled
BY DEF Succeeded, Failed, BatchState

LEMMA CancelledFields ==
    ASSUME NEW s \in BatchState
    PROVE  /\ [s EXCEPT !.cancelled = TRUE] \in BatchState
           /\ [s EXCEPT !.cancelled = TRUE].pendingJobs = s.pendingJobs
           /\ [s EXCEPT !.cancelled = TRUE].failedJobs = s.failedJobs
           /\ [s EXCEPT !.cancelled = TRUE].finished = s.finished
           /\ [s EXCEPT !.cancelled = TRUE].cancelled
           /\ s.cancelled => [s EXCEPT !.cancelled = TRUE] = s
BY DEF BatchState

\* Whoever records or cancels has an entry at hand.
LEMMA FoundState ==
    ASSUME TypeInv, NEW s \in BatchState, batch # NoBatch
    PROVE  Found(s) \in BatchState /\ batch \in BatchState
BY DEF TypeInv, BatchTypeOK, Found

\* A worker is the only one to act, and on a job of its own.
OnlyActs(w) ==
    \A v \in BatchWorker \ {w} :
        place'[v] = place[v] /\ job'[v] = job[v] /\ copy'[v] = copy[v]

LEMMA WorkersActAlone ==
    ASSUME BatchTypeOK, NEW w \in BatchWorker,
           BatchWorkerStep(w) \/ RecordFails(w) \/ BatchCrash(w)
    PROVE  OnlyActs(w)
BY DEF BatchTypeOK, BatchWorkerStep, Take, Handle, Find, RecordSuccess, RecordFailure, Finish,
   RecordFails, BatchCrash, Goto, Idle, OnlyActs

LEMMA HeldFrame ==
    ASSUME TypeInv, NEW w \in BatchWorker, OnlyActs(w), HoldsJob(w)',
           \A v \in BatchWorker \ {w} : place[v] # "idle" =>
               phase'[job[v]] = phase[job[v]] /\ job[v] # job'[w],
           canceller'.at = "put" => canceller'.copy \in BatchState,
           batch' # NoBatch
    PROVE  Held'
<1>1. ASSUME NEW v \in BatchWorker, v # w PROVE HoldsJob(v)'
  <2>1. HoldsJob(v) /\ place'[v] = place[v] /\ job'[v] = job[v] /\ copy'[v] = copy[v]
    BY <1>1 DEF TypeInv, Held, OnlyActs
  <2>2. place[v] # "idle" => \A u \in BatchWorker \ {v} : job'[u] # job[v]
    BY <1>1, <2>1 DEF HoldsJob, OnlyActs
  <2>3. \/ place[v] = "idle" /\ "idle" \notin Recording
        \/ phase'[job[v]] = phase[job[v]]
    BY <1>1 DEF Recording
  <2> QED
    BY <2>1, <2>2, <2>3 DEF HoldsJob
<1> QED
  BY <1>1 DEF Held

\* What a worker does to its own job is no concern of the others.
LEMMA OwnJob ==
    ASSUME TypeInv, NEW w \in BatchWorker, place[w] # "idle",
           \A i \in BatchJob : i # job[w] => phase'[i] = phase[i],
           job'[w] = job[w] \/ job'[w] = NoBatch
    PROVE  \A v \in BatchWorker \ {w} : place[v] # "idle" =>
               phase'[job[v]] = phase[job[v]] /\ job[v] # job'[w]
<1> SUFFICES ASSUME NEW v \in BatchWorker \ {w}, place[v] # "idle"
             PROVE  phase'[job[v]] = phase[job[v]] /\ job[v] # job'[w]
  OBVIOUS
<1>1. job[v] # NoBatch /\ job[v] \in BatchJob /\ job[v] # job[w]
  BY DEF TypeInv, Held, HoldsJob, BatchTypeOK
<1> QED
  BY <1>1

LEMMA TypesInit == BatchInit => TypeInv
BY BatchAssumption DEF BatchInit, TypeInv, BatchTypeOK, Held, HoldsJob, Phases, Places, Recording,
   Putting

LEMMA TypesStep == TypeInv /\ [BatchNext]_batchVars => TypeInv'
<1> SUFFICES ASSUME TypeInv, [BatchNext]_batchVars PROVE TypeInv'
  OBVIOUS
<1>a. BatchTypeOK /\ Held
  BY DEF TypeInv
<1>1. CASE Create
  <2>1. Cardinality(BatchJob) \in Nat
    BY BatchAssumption, FS_CardinalityType
  <2>2. batch' \in BatchState
    BY <1>1, <2>1 DEF Create, BatchState
  <2> QED
    BY <1>a, <1>1, <2>2, BatchAssumption DEF Create, jobVars, workerVars, TypeInv, BatchTypeOK, Held,
       HoldsJob
<1>2. ASSUME NEW j \in BatchJob, Push(j) PROVE TypeInv'
  <2>1. BatchTypeOK'
    BY <1>a, <1>2 DEF Push, workerVars, BatchTypeOK, Phases
  <2>2. Held'
    BY <1>a, <1>2 DEF Push, workerVars, BatchTypeOK, Held, HoldsJob
  <2> QED
    BY <2>1, <2>2 DEF TypeInv
<1>3. CASE BatchDispatchFails
  <2>1. BatchTypeOK'
    BY <1>a, <1>3 DEF BatchDispatchFails, workerVars, BatchTypeOK, Phases
  <2>2. Held'
    BY <1>a, <1>3 DEF BatchDispatchFails, workerVars, BatchTypeOK, Held, HoldsJob, Recording
  <2> QED
    BY <2>1, <2>2 DEF TypeInv
<1>4. CASE CancelFind
  BY <1>a, <1>4 DEF CancelFind, jobVars, workerVars, TypeInv, BatchTypeOK, Held, HoldsJob
<1>5. CASE CancelPut
  <2>1. batch' \in BatchState
    BY <1>a, <1>5, FoundState, CancelledFields DEF CancelPut, BatchTypeOK, Held
  <2>2. batch' # NoBatch
    BY <2>1, BatchAssumption
  <2> QED
    BY <1>a, <1>5, <2>1, <2>2 DEF CancelPut, jobVars, workerVars, TypeInv, BatchTypeOK, Held, HoldsJob
<1>6. ASSUME NEW w \in BatchWorker, NEW j \in BatchJob, Take(w, j) PROVE TypeInv'
  <2>1. BatchTypeOK'
    BY <1>a, <1>6 DEF Take, BatchTypeOK, Phases, Places
  <2>2. /\ place'[w] = "handle" /\ job'[w] = j /\ phase'[j] = "running" /\ phase[j] = "waiting"
        /\ \A i \in BatchJob : i # j => phase'[i] = phase[i]
        /\ OnlyActs(w) /\ UNCHANGED <<batch, canceller>>
    BY <1>a, <1>6 DEF Take, BatchTypeOK, OnlyActs
  <2>3. ASSUME NEW v \in BatchWorker \ {w}, place[v] # "idle"
        PROVE  phase'[job[v]] = phase[job[v]] /\ job[v] # j
    <3>1. job[v] \in BatchJob /\ HoldsJob(v) /\ place[v] \in Recording \cup {"finish"}
      BY <1>a, <2>3 DEF Held, HoldsJob, BatchTypeOK, Places, Recording
    <3>2. job[v] # j
      BY <2>2, <3>1 DEF HoldsJob
    <3> QED
      BY <2>2, <3>1, <3>2
  <2>4. \A v \in BatchWorker \ {w} : job[v] # j
    BY <1>a, <2>3, BatchAssumption DEF Held, HoldsJob
  <2>5. HoldsJob(w)'
    BY <2>2, <2>4, BatchAssumption DEF HoldsJob, Recording, Putting, OnlyActs
  <2>6. Held'
    BY <1>a, <2>2, <2>3, <2>5, HeldFrame DEF Held
  <2> QED
    BY <2>1, <2>6 DEF TypeInv
<1>7. ASSUME NEW w \in BatchWorker, Handle(w) \/ Find(w) PROVE TypeInv'
  <2>1. BatchTypeOK'
    BY <1>a, <1>7 DEF Handle, Find, Goto, jobVars, BatchTypeOK, Places
  <2>2. /\ place[w] \in {"handle", "success", "failure"}
        /\ place'[w] \in {"success", "failure"} \cup Putting
        /\ place'[w] \in Putting => copy'[w] = batch
        /\ OnlyActs(w) /\ UNCHANGED <<batch, phase, job, canceller>>
    BY <1>a, <1>7 DEF Handle, Find, Goto, jobVars, BatchTypeOK, OnlyActs, Putting
  <2>3. /\ HoldsJob(w) /\ place[w] \in Recording /\ place'[w] \in Recording
        /\ place[w] # "idle" /\ place'[w] # "idle" /\ place'[w] # "finish"
    BY <1>a, <2>2 DEF Held, Recording, Putting
  <2>4. batch \in BatchState /\ batch # NoBatch
    BY <1>a, <2>3 DEF Held, BatchTypeOK
  <2>5. HoldsJob(w)'
    BY <2>2, <2>3, <2>4 DEF HoldsJob, OnlyActs
  <2>6. Held'
    BY <1>a, <2>2, <2>3, <2>4, <2>5, HeldFrame, OwnJob DEF Held
  <2> QED
    BY <2>1, <2>6 DEF TypeInv
<1>8. ASSUME NEW w \in BatchWorker, RecordSuccess(w) \/ RecordFailure(w) \/ RecordFails(w)
      PROVE  TypeInv'
  <2>1. /\ place[w] \in Recording /\ place'[w] \in {"failure", "finish"}
        /\ OnlyActs(w) /\ UNCHANGED <<setup, attempts, job, copy, canceller>>
        /\ place' \in [BatchWorker -> Places]
    BY <1>a, <1>8 DEF RecordSuccess, RecordFailure, RecordFails, Goto, BatchTypeOK, OnlyActs,
       Recording, Places
  <2>2. HoldsJob(w) /\ job[w] \in BatchJob /\ phase[job[w]] = "running" /\ place[w] # "idle"
    BY <1>a, <2>1 DEF Held, HoldsJob, Recording, BatchTypeOK
  <2>3. /\ phase' \in [BatchJob -> Phases]
        /\ \A i \in BatchJob : i # job[w] => phase'[i] = phase[i]
        /\ place'[w] = "failure" => UNCHANGED phase
        /\ place'[w] = "finish" => phase'[job[w]] \in {"done", "failed", "unrecorded"}
    BY <1>a, <1>8, <2>2 DEF RecordSuccess, RecordFailure, RecordFails, Goto, BatchTypeOK, Phases
  <2>4. batch \in BatchState
    BY <1>a, <2>2 DEF Held, BatchTypeOK
  <2>5. batch' \in BatchState
    <3>1. CASE RecordFails(w)
      BY <2>4, <3>1 DEF RecordFails
    <3>2. CASE RecordSuccess(w) \/ RecordFailure(w)
      <4>1. PICK s : s = Found(copy[w])
        OBVIOUS
      <4>2. s \in BatchState
        BY <2>2, <2>4, <3>2, <4>1 DEF RecordSuccess, RecordFailure, Goto, HoldsJob, Putting, Found
      <4>3. batch' = Records(s, Succeeded(s)) \/ batch' = Records(s, Failed(s))
        BY <3>2, <4>1 DEF RecordSuccess, RecordFailure
      <4> QED
        BY <2>4, <4>2, <4>3, RecordsType DEF Records
    <3> QED
      BY <1>8, <3>1, <3>2
  <2>6. HoldsJob(w)'
    BY <2>1, <2>2, <2>3 DEF HoldsJob, Recording, Putting, OnlyActs
  <2>7. batch' # NoBatch
    BY <2>5, BatchAssumption
  <2>8. Held'
    BY <1>a, <2>1, <2>2, <2>3, <2>6, <2>7, HeldFrame, OwnJob DEF Held
  <2> QED
    BY <1>a, <2>1, <2>3, <2>5, <2>8 DEF TypeInv, BatchTypeOK
<1>9. ASSUME NEW w \in BatchWorker, Finish(w) \/ BatchCrash(w) PROVE TypeInv'
  <2>1. /\ place[w] # "idle" /\ place'[w] = "idle" /\ job'[w] = NoBatch
        /\ OnlyActs(w) /\ UNCHANGED <<setup, batch, canceller>>
        /\ place' \in [BatchWorker -> Places]
        /\ job' \in [BatchWorker -> BatchJob \cup {NoBatch}]
        /\ copy' \in [BatchWorker -> BatchState \cup {NoBatch}]
    BY <1>a, <1>9 DEF Finish, BatchCrash, Idle, BatchTypeOK, OnlyActs, Places
  <2>2. job[w] \in BatchJob /\ batch # NoBatch
    BY <1>a, <2>1 DEF Held, HoldsJob, BatchTypeOK
  <2>3. PICK i \in BatchJob : i = job[w]
    BY <2>2
  <2>4. /\ phase' \in [BatchJob -> Phases]
        /\ \A j \in BatchJob : j # i => phase'[j] = phase[j]
        /\ attempts' \in [BatchJob -> 0 .. BatchAttempts - 1]
    <3>1. CASE BatchCrash(w)
      BY <1>a, <2>1, <2>3, <3>1 DEF BatchCrash, BatchTypeOK, Phases
    <3>2. CASE Finish(w)
      <4>1. UNCHANGED jobVars => phase' = phase /\ attempts' = attempts
        BY DEF jobVars
      <4>2. CASE UNCHANGED jobVars
        BY <1>a, <4>1, <4>2 DEF BatchTypeOK
      <4>3. CASE ~UNCHANGED jobVars
        <5>1. /\ phase' = [phase EXCEPT ![i] = "waiting"]
              /\ attempts' = [attempts EXCEPT ![i] = attempts[i] + 1]
              /\ ~(attempts[i] + 1 >= BatchAttempts)
          BY <2>3, <3>2, <4>3 DEF Finish, BatchGivesUp
        <5>2. attempts[i] + 1 \in 0 .. BatchAttempts - 1
          BY <1>a, <5>1, BatchAssumption DEF BatchTypeOK
        <5> QED
          BY <1>a, <5>1, <5>2 DEF BatchTypeOK, Phases
      <4> QED
        BY <4>2, <4>3
    <3> QED
      BY <1>9, <3>1, <3>2
  <2>5. HoldsJob(w)'
    BY <2>1 DEF HoldsJob, Recording, Putting
  <2>6. Held'
    BY <1>a, <2>1, <2>2, <2>3, <2>4, <2>5, HeldFrame, OwnJob DEF Held
  <2> QED
    BY <1>a, <2>1, <2>4, <2>6 DEF TypeInv, BatchTypeOK
<1>10. CASE UNCHANGED batchVars
  BY <1>a, <1>10 DEF batchVars, TypeInv, BatchTypeOK, Held, HoldsJob
<1> QED
  BY <1>1, <1>2, <1>3, <1>4, <1>5, <1>6, <1>7, <1>8, <1>9, <1>10
     DEF BatchNext, DispatchBatch, BatchWorkerStep

\* The counters have their types on every store, however often a job is retried.
THEOREM BatchTypes == BatchSpec => []BatchTypeOK
<1> QED
  BY TypesInit, TypesStep, PTL DEF BatchSpec, TypeInv
-----------------------------------------------------------------------------
(***************************************************************************)
(* A cancelled batch changes no more.                                      *)
(***************************************************************************)
LEMMA CancelledStays ==
    ASSUME TypeInv, [BatchNext]_batchVars, setup.shared, batch # NoBatch, batch.cancelled
    PROVE  batch' = batch
<1>1. batch \in BatchState
  BY DEF TypeInv, BatchTypeOK
<1>2. ASSUME NEW w \in BatchWorker, RecordSuccess(w) \/ RecordFailure(w) PROVE batch' = batch
  BY <1>2 DEF RecordSuccess, RecordFailure, Records, Found
<1>3. CASE CancelPut
  BY <1>1, <1>3, CancelledFields DEF CancelPut, Found
<1> QED
  BY <1>2, <1>3 DEF BatchNext, DispatchBatch, BatchWorkerStep, Create, Push, BatchDispatchFails,
     Take, Handle, Find, Finish, RecordFails, BatchCrash, CancelFind, batchVars

\* Where the store hands out its own object, a cancel is not undone.
THEOREM CancelIsFinal == BatchSpec => CancelledIsFinal
<1>1. TypeInv /\ [BatchNext]_batchVars =>
          [setup.shared /\ batch # NoBatch /\ batch.cancelled => batch' = batch]_batchVars
  BY CancelledStays
<1> QED
  BY <1>1, TypesInit, TypesStep, PTL DEF BatchSpec, CancelledIsFinal
-----------------------------------------------------------------------------
(***************************************************************************)
(* The counters and the runs they count, where each job has one attempt.   *)
(***************************************************************************)
OneAttempt == BatchAttempts = 1

DoneJobs == JobsIn({"done"})
FailedJobs == JobsIn({"failed"})

LEMMA TalliesAreFinite ==
    ASSUME NEW S, S \subseteq BatchJob
    PROVE  IsFiniteSet(S) /\ Cardinality(S) \in Nat
BY BatchAssumption, FS_Subset, FS_CardinalityType

LEMMA Tallies ==
    /\ IsFiniteSet(DoneJobs) /\ Cardinality(DoneJobs) \in Nat
    /\ IsFiniteSet(FailedJobs) /\ Cardinality(FailedJobs) \in Nat
    /\ JobsIn({"done", "failed"}) = DoneJobs \cup FailedJobs
    /\ Cardinality(DoneJobs \cup FailedJobs) = Cardinality(DoneJobs) + Cardinality(FailedJobs)
    /\ Cardinality(BatchJob) \in Nat
<1>1. /\ DoneJobs \subseteq BatchJob /\ FailedJobs \subseteq BatchJob
      /\ DoneJobs \cap FailedJobs = {}
      /\ JobsIn({"done", "failed"}) = DoneJobs \cup FailedJobs
  BY DEF DoneJobs, FailedJobs, JobsIn
<1>2. /\ IsFiniteSet(DoneJobs) /\ Cardinality(DoneJobs) \in Nat
      /\ IsFiniteSet(FailedJobs) /\ Cardinality(FailedJobs) \in Nat
  BY <1>1, TalliesAreFinite
<1>3. Cardinality(DoneJobs \cup FailedJobs) =
          Cardinality(DoneJobs) + Cardinality(FailedJobs) - Cardinality(DoneJobs \cap FailedJobs)
  BY <1>2, FS_Union
<1>4. Cardinality(DoneJobs \cap FailedJobs) = 0
  BY <1>1, FS_EmptySet
<1> QED
  BY <1>1, <1>2, <1>3, <1>4, TalliesAreFinite

\* A batch with a job still running has one pending, whoever's copy says so.
LEMMA StillPending ==
    ASSUME TypeInv, NEW i \in BatchJob, phase[i] \notin {"done", "failed"},
           NEW s \in BatchState, Claims(s)
    PROVE  s.pendingJobs >= 1 /\ ~s.finished
<1>1. /\ DoneJobs \cup FailedJobs \subseteq BatchJob \ {i}
      /\ IsFiniteSet(BatchJob \ {i})
      /\ Cardinality(BatchJob \ {i}) = Cardinality(BatchJob) - 1
  BY BatchAssumption, FS_RemoveElement DEF DoneJobs, FailedJobs, JobsIn
<1>2. Cardinality(DoneJobs) + Cardinality(FailedJobs) <= Cardinality(BatchJob) - 1
  BY <1>1, FS_Subset, Tallies
<1>3. s.pendingJobs \in Nat /\ s.failedJobs \in Nat
  BY DEF BatchState
<1>4. s.pendingJobs >= 1
  BY <1>2, <1>3, Tallies DEF Claims, DoneJobs, FailedJobs
<1> QED
  BY <1>3, <1>4 DEF Claims

\* Which step counts what.
TalliesStay == DoneJobs' = DoneJobs /\ FailedJobs' = FailedJobs

LEMMA TallyStep ==
    ASSUME TypeInv, OneAttempt, [BatchNext]_batchVars
    PROVE  \/ TalliesStay
           \/ \E w \in BatchWorker : RecordSuccess(w) \/ RecordFailure(w)
<1>a. BatchTypeOK /\ Held
  BY DEF TypeInv
<1>1. ASSUME UNCHANGED phase PROVE TalliesStay
  BY <1>1 DEF TalliesStay, DoneJobs, FailedJobs, JobsIn
<1>2. ASSUME NEW j \in BatchJob, Push(j) PROVE TalliesStay
  BY <1>a, <1>2 DEF Push, BatchTypeOK, TalliesStay, DoneJobs, FailedJobs, JobsIn
<1>3. CASE BatchDispatchFails
  BY <1>a, <1>3 DEF BatchDispatchFails, BatchTypeOK, TalliesStay, DoneJobs, FailedJobs, JobsIn
<1>4. ASSUME NEW w \in BatchWorker, NEW j \in BatchJob, Take(w, j) PROVE TalliesStay
  BY <1>a, <1>4 DEF Take, BatchTypeOK, TalliesStay, DoneJobs, FailedJobs, JobsIn
<1>5. ASSUME NEW w \in BatchWorker, Finish(w) PROVE UNCHANGED phase
  <2>1. job[w] \in BatchJob
    BY <1>a, <1>5 DEF Finish, Held, HoldsJob, BatchTypeOK
  <2>2. attempts[job[w]] + 1 >= BatchAttempts
    <3>1. attempts[job[w]] \in 0 .. 0
      BY <1>a, <2>1 DEF BatchTypeOK, OneAttempt
    <3> QED
      BY <3>1 DEF OneAttempt
  <2> QED
    BY <1>5, <2>2 DEF Finish, BatchGivesUp, jobVars
<1>6. ASSUME NEW w \in BatchWorker, RecordFails(w) \/ BatchCrash(w) PROVE TalliesStay
  <2>1. place[w] \in Recording \/ UNCHANGED phase
    BY <1>a, <1>6 DEF RecordFails, BatchCrash, Goto, Recording, BatchTypeOK, Places
  <2>2. CASE place[w] \in Recording
    <3>1. PICK i \in BatchJob : i = job[w] /\ phase[i] = "running"
      BY <1>a, <2>2 DEF Held, HoldsJob, Recording, BatchTypeOK
    <3>2. phase' = phase \/ \E p \in {"unrecorded", "lost"} : phase' = [phase EXCEPT ![i] = p]
      BY <1>6, <3>1 DEF RecordFails, BatchCrash
    <3> QED
      BY <1>a, <3>1, <3>2 DEF BatchTypeOK, TalliesStay, DoneJobs, FailedJobs, JobsIn
  <2> QED
    BY <1>1, <2>1, <2>2
<1> QED
  BY <1>1, <1>2, <1>3, <1>4, <1>5, <1>6 DEF BatchNext, DispatchBatch, BatchWorkerStep, Create,
     Handle, Find, CancelFind, CancelPut, jobVars, batchVars

LEMMA RunRecorded ==
    ASSUME TypeInv, NEW w \in BatchWorker, RecordSuccess(w) \/ RecordFailure(w),
           NEW i, i = job[w]
    PROVE  /\ i \in BatchJob /\ phase[i] = "running" /\ batch # NoBatch
           /\ i \notin DoneJobs \cup FailedJobs
           /\ RecordSuccess(w) =>
                /\ DoneJobs' = DoneJobs \cup {i} /\ FailedJobs' = FailedJobs
                /\ Cardinality(DoneJobs') = Cardinality(DoneJobs) + 1
           /\ RecordFailure(w) =>
                /\ DoneJobs' = DoneJobs /\ FailedJobs' = FailedJobs \cup {i}
                /\ Cardinality(FailedJobs') = Cardinality(FailedJobs) + 1
<1>1. BatchTypeOK /\ Held /\ place[w] \in Recording /\ place[w] # "idle"
  BY DEF TypeInv, RecordSuccess, RecordFailure, Goto, Recording
<1>2. i \in BatchJob /\ phase[i] = "running" /\ batch # NoBatch
  BY <1>1 DEF Held, HoldsJob, BatchTypeOK
<1>3. i \notin DoneJobs \cup FailedJobs
  BY <1>2 DEF DoneJobs, FailedJobs, JobsIn
<1>4. RecordSuccess(w) => DoneJobs' = DoneJobs \cup {i} /\ FailedJobs' = FailedJobs
  BY <1>1, <1>2 DEF RecordSuccess, BatchTypeOK, DoneJobs, FailedJobs, JobsIn
<1>5. RecordFailure(w) => DoneJobs' = DoneJobs /\ FailedJobs' = FailedJobs \cup {i}
  BY <1>1, <1>2 DEF RecordFailure, BatchTypeOK, DoneJobs, FailedJobs, JobsIn
<1>6. /\ Cardinality(DoneJobs \cup {i}) = Cardinality(DoneJobs) + 1
      /\ Cardinality(FailedJobs \cup {i}) = Cardinality(FailedJobs) + 1
  BY <1>3, Tallies, FS_AddElement
<1> QED
  BY <1>2, <1>3, <1>4, <1>5, <1>6

LEMMA TalliesGrow ==
    ASSUME TypeInv, OneAttempt, [BatchNext]_batchVars
    PROVE  /\ Cardinality(DoneJobs) <= Cardinality(DoneJobs')
           /\ Cardinality(FailedJobs) <= Cardinality(FailedJobs')
           /\ Cardinality(DoneJobs') \in Nat /\ Cardinality(FailedJobs') \in Nat
<1>1. CASE TalliesStay
  BY <1>1, Tallies DEF TalliesStay
<1>2. ASSUME NEW w \in BatchWorker, RecordSuccess(w) \/ RecordFailure(w)
      PROVE  /\ Cardinality(DoneJobs) <= Cardinality(DoneJobs')
             /\ Cardinality(FailedJobs) <= Cardinality(FailedJobs')
             /\ Cardinality(DoneJobs') \in Nat /\ Cardinality(FailedJobs') \in Nat
  BY <1>2, RunRecorded, Tallies
<1> QED
  BY <1>1, <1>2, TallyStep

\* What a copy claims is still true when more runs are recorded.
LEMMA ClaimsStay ==
    ASSUME TypeInv, OneAttempt, [BatchNext]_batchVars, NEW s \in BatchState, Claims(s)
    PROVE  Claims(s)'
<1>1. s.pendingJobs \in Nat /\ s.failedJobs \in Nat
  BY DEF BatchState
<1> QED
  BY <1>1, TalliesGrow, Tallies DEF Claims, DoneJobs, FailedJobs

LEMMA ClaimsRecorded ==
    ASSUME TypeInv, OneAttempt, NEW w \in BatchWorker, NEW s \in BatchState, Claims(s)
    PROVE  /\ RecordSuccess(w) => Claims(Succeeded(s))'
           /\ RecordFailure(w) => Claims(Failed(s))'
<1>1. s.pendingJobs \in Nat /\ s.failedJobs \in Nat
  BY DEF BatchState
<1>2. ASSUME RecordSuccess(w) PROVE Claims(Succeeded(s))'
  <2>1. PICK t : t = Succeeded(s)
    OBVIOUS
  <2>2. s.pendingJobs >= 1 /\ ~s.finished
    BY <1>2, RunRecorded, StillPending DEF DoneJobs, FailedJobs, JobsIn
  <2>3. /\ t.pendingJobs = s.pendingJobs - 1 /\ t.failedJobs = s.failedJobs
        /\ t.finished => t.pendingJobs = 0
    BY <1>1, <2>1, <2>2, RecordsFields DEF OneLess
  <2>4. /\ Cardinality(DoneJobs') = Cardinality(DoneJobs) + 1
        /\ FailedJobs' = FailedJobs
    BY <1>2, RunRecorded
  <2>5. Claims(t)'
    BY <1>1, <2>2, <2>3, <2>4, Tallies DEF Claims, DoneJobs, FailedJobs
  <2> QED
    BY <2>1, <2>5
<1>3. ASSUME RecordFailure(w) PROVE Claims(Failed(s))'
  <2>1. PICK t : t = Failed(s)
    OBVIOUS
  <2>2. s.pendingJobs >= 1 /\ ~s.finished
    BY <1>3, RunRecorded, StillPending DEF DoneJobs, FailedJobs, JobsIn
  <2>3. /\ t.pendingJobs = s.pendingJobs - 1 /\ t.failedJobs = s.failedJobs + 1
        /\ t.finished => t.pendingJobs = 0
    BY <1>1, <2>1, <2>2, RecordsFields DEF OneLess
  <2>4. /\ Cardinality(FailedJobs') = Cardinality(FailedJobs) + 1
        /\ DoneJobs' = DoneJobs
    BY <1>3, RunRecorded
  <2>5. Claims(t)'
    BY <1>1, <2>2, <2>3, <2>4, Tallies DEF Claims, DoneJobs, FailedJobs
  <2> QED
    BY <2>1, <2>5
<1> QED
  BY <1>2, <1>3

LEMMA ClaimsStep ==
    TypeInv /\ TypeInv' /\ OneAttempt /\ ClaimsHold /\ [BatchNext]_batchVars => ClaimsHold'
<1> SUFFICES ASSUME TypeInv, TypeInv', OneAttempt, ClaimsHold, [BatchNext]_batchVars
             PROVE  ClaimsHold'
  OBVIOUS
<1>a. BatchTypeOK /\ Held /\ (batch # NoBatch => batch \in BatchState)
  BY DEF TypeInv, BatchTypeOK
\* The copies that are kept still tell the truth.
<1>1. ASSUME NEW s \in BatchState, Claims(s) PROVE Claims(s)'
  BY <1>1, ClaimsStay
<1>2. ASSUME NEW w \in BatchWorker, place'[w] \in Putting PROVE Claims(copy[w])'
  <2>1. \/ place[w] \in Putting /\ copy'[w] = copy[w]
        \/ copy'[w] = batch /\ batch # NoBatch
    <3>1. CASE place[w] \in {"success", "failure"} /\ copy'[w] = batch
      BY <1>a, <3>1 DEF Held
    <3>2. CASE place[w] \in Putting /\ copy'[w] = copy[w]
      BY <3>2
    <3>3. ASSUME NEW v \in BatchWorker,
                 BatchWorkerStep(v) \/ RecordFails(v) \/ BatchCrash(v)
          PROVE  \/ place[w] \in {"success", "failure"} /\ copy'[w] = batch
                 \/ place[w] \in Putting /\ copy'[w] = copy[w]
      BY <1>a, <1>2, <3>3 DEF BatchTypeOK, BatchWorkerStep, Take, Handle, Find, RecordSuccess,
         RecordFailure, Finish, RecordFails, BatchCrash, Goto, Idle, Putting
    <3>4. CASE UNCHANGED workerVars
      BY <1>2, <3>2, <3>4 DEF workerVars
    <3> QED
      BY <3>1, <3>2, <3>3, <3>4 DEF BatchNext, DispatchBatch, Create, Push, BatchDispatchFails,
         CancelFind, CancelPut, batchVars, workerVars
  <2>2. PICK s : s = copy'[w]
    OBVIOUS
  <2>3. s \in BatchState /\ Claims(s)
    BY <1>a, <1>2, <2>1, <2>2 DEF ClaimsHold, Held, HoldsJob
  <2>4. Claims(s)'
    BY <1>1, <2>3
  <2> QED
    BY <2>2, <2>4 DEF Claims
<1>3. canceller'.at = "put" => Claims(canceller.copy)'
  <2>1. CASE CancelFind
    <3>1. PICK s : s = batch /\ s = canceller'.copy
      BY <2>1 DEF CancelFind
    <3>2. s \in BatchState /\ Claims(s)
      BY <1>a, <2>1, <3>1 DEF CancelFind, ClaimsHold
    <3> QED
      BY <1>1, <3>1, <3>2 DEF Claims
  <2>2. CASE UNCHANGED canceller
    <3>1. PICK s : s = canceller.copy
      OBVIOUS
    <3>2. canceller.at = "put" => s \in BatchState /\ Claims(s)
      BY <1>a, <3>1 DEF Held, ClaimsHold
    <3> QED
      BY <1>1, <2>2, <3>1, <3>2 DEF Claims
  <2>3. CASE CancelPut
    BY <2>3 DEF CancelPut
  <2> QED
    BY <2>1, <2>2, <2>3 DEF BatchNext, DispatchBatch, BatchWorkerStep, Create, Push,
       BatchDispatchFails, Take, Handle, Find, RecordSuccess, RecordFailure, Finish, RecordFails,
       BatchCrash, batchVars
<1>4. batch' # NoBatch => Claims(batch)'
  <2>1. CASE Create
    <3>1. DoneJobs' = {} /\ FailedJobs' = {}
      BY <1>a, <2>1 DEF Create, Held, jobVars, DoneJobs, FailedJobs, JobsIn
    <3>2. PICK n \in Nat : n = Cardinality(BatchJob)
      BY Tallies
    <3>3. PICK s : s = batch'
      OBVIOUS
    <3>4. s.pendingJobs = n /\ s.failedJobs = 0 /\ s.finished = FALSE
      BY <2>1, <3>2, <3>3 DEF Create
    <3>5. Cardinality({}) = 0
      BY FS_EmptySet
    <3>6. Claims(s)'
      BY <3>1, <3>2, <3>4, <3>5 DEF Claims, DoneJobs, FailedJobs
    <3> QED
      BY <3>3, <3>6 DEF Claims
  <2>2. ASSUME UNCHANGED batch, batch # NoBatch PROVE Claims(batch)'
    <3>1. PICK s : s = batch
      OBVIOUS
    <3>2. s \in BatchState /\ Claims(s)
      BY <1>a, <2>2, <3>1 DEF ClaimsHold
    <3> QED
      BY <1>1, <2>2, <3>1, <3>2 DEF Claims
  <2>3. ASSUME NEW w \in BatchWorker, RecordSuccess(w) \/ RecordFailure(w)
        PROVE  Claims(batch)'
    <3>1. place[w] \in Putting /\ batch # NoBatch
      BY <2>3, RunRecorded DEF RecordSuccess, RecordFailure, Goto, Putting
    <3>2. PICK s : s = Found(copy[w])
      OBVIOUS
    <3>3. s \in BatchState /\ Claims(s)
      BY <1>a, <3>1, <3>2 DEF Found, Held, HoldsJob, ClaimsHold
    <3>4. \/ UNCHANGED batch
          \/ RecordSuccess(w) /\ batch' = Succeeded(s)
          \/ RecordFailure(w) /\ batch' = Failed(s)
      BY <2>3, <3>2 DEF RecordSuccess, RecordFailure, Records
    <3>5. PICK t, u : t = Succeeded(s) /\ u = Failed(s)
      OBVIOUS
    <3>6. (RecordSuccess(w) => Claims(t)') /\ (RecordFailure(w) => Claims(u)')
      BY <3>3, <3>5, ClaimsRecorded
    <3> QED
      BY <2>2, <3>1, <3>4, <3>5, <3>6 DEF Claims
  <2>4. ASSUME CancelPut PROVE Claims(batch)'
    <3>1. PICK s : s = Found(canceller.copy)
      OBVIOUS
    <3>2. s \in BatchState /\ Claims(s)
      BY <1>a, <2>4, <3>1 DEF CancelPut, Found, Held, ClaimsHold
    <3>3. PICK t : t = batch'
      OBVIOUS
    <3>4. /\ t.pendingJobs = s.pendingJobs /\ t.failedJobs = s.failedJobs
          /\ t.finished = s.finished
      BY <2>4, <3>1, <3>2, <3>3, CancelledFields DEF CancelPut
    <3>5. Claims(s)'
      BY <1>1, <3>2
    <3>6. Claims(t)'
      BY <3>4, <3>5 DEF Claims
    <3> QED
      BY <3>3, <3>6 DEF Claims
  <2> QED
    BY <2>1, <2>2, <2>3, <2>4 DEF BatchNext, DispatchBatch, BatchWorkerStep, Push,
       BatchDispatchFails, Take, Handle, Find, Finish, RecordFails, BatchCrash, CancelFind,
       batchVars
<1> QED
  BY <1>2, <1>3, <1>4 DEF ClaimsHold

\* A store that hands out its own object loses no count.
LEMMA CountsStep ==
    TypeInv /\ OneAttempt /\ CountsEveryRun /\ [BatchNext]_batchVars => CountsEveryRun'
<1> DEFINE Left == BatchJob \ (DoneJobs \cup FailedJobs)
<1> SUFFICES ASSUME TypeInv, OneAttempt, CountsEveryRun, [BatchNext]_batchVars,
                    setup'.shared, batch' # NoBatch, ~batch'.cancelled
             PROVE  /\ batch'.pendingJobs = Cardinality(Left')
                    /\ batch'.failedJobs = Cardinality(FailedJobs')
  BY Tallies DEF CountsEveryRun, DoneJobs, FailedJobs, JobsIn
<1>a. BatchTypeOK /\ Held /\ (batch # NoBatch => batch \in BatchState)
  BY DEF TypeInv, BatchTypeOK
<1>b. setup' = setup
  BY DEF BatchNext, DispatchBatch, BatchWorkerStep, Create, Push, BatchDispatchFails, Take, Handle,
     Find, RecordSuccess, RecordFailure, Finish, RecordFails, BatchCrash, CancelFind, CancelPut,
     batchVars
<1>c. batch # NoBatch /\ ~batch.cancelled =>
          /\ batch.pendingJobs = Cardinality(Left)
          /\ batch.failedJobs = Cardinality(FailedJobs)
  BY <1>b, Tallies DEF CountsEveryRun, FailedJobs
<1>1. CASE Create
  <2>1. DoneJobs' = {} /\ FailedJobs' = {}
    BY <1>a, <1>1 DEF Create, Held, jobVars, DoneJobs, FailedJobs, JobsIn
  <2>2. Left' = BatchJob /\ Cardinality(FailedJobs') = 0
    BY <2>1, FS_EmptySet
  <2> QED
    BY <1>1, <2>2 DEF Create
<1>2. ASSUME NEW w \in BatchWorker, RecordSuccess(w) \/ RecordFailure(w)
      PROVE  /\ batch'.pendingJobs = Cardinality(Left')
             /\ batch'.failedJobs = Cardinality(FailedJobs')
  <2>1. PICK i \in BatchJob : i = job[w]
    BY <1>2, RunRecorded
  <2>2. batch \in BatchState /\ batch # NoBatch /\ Found(copy[w]) = batch
    BY <1>a, <1>b, <1>2, RunRecorded DEF Found
  <2>3. /\ ~batch.cancelled
        /\ \/ RecordSuccess(w) /\ batch' = Succeeded(batch)
           \/ RecordFailure(w) /\ batch' = Failed(batch)
    BY <1>2, <2>2 DEF RecordSuccess, RecordFailure, Records
  <2>4. i \in Left /\ Left' = Left \ {i}
    BY <1>2, <2>1, RunRecorded
  <2>5. IsFiniteSet(Left) /\ Cardinality(Left) \in Nat
    BY TalliesAreFinite
  <2>6. Cardinality(Left') = Cardinality(Left) - 1
    BY <2>4, <2>5, FS_RemoveElement
  <2>7. Cardinality(Left) # 0
    BY <2>4, <2>5, FS_EmptySet
  <2>8. OneLess(batch.pendingJobs) = Cardinality(Left')
    BY <1>c, <2>2, <2>3, <2>5, <2>6, <2>7 DEF OneLess
  <2>9. CASE RecordSuccess(w) /\ batch' = Succeeded(batch)
    BY <1>c, <2>1, <2>2, <2>3, <2>8, <2>9, RunRecorded, RecordsFields
  <2>10. CASE RecordFailure(w) /\ batch' = Failed(batch)
    BY <1>c, <2>1, <2>2, <2>3, <2>8, <2>10, RunRecorded, RecordsFields
  <2> QED
    BY <2>3, <2>9, <2>10
<1>3. CASE UNCHANGED batch /\ TalliesStay
  BY <1>c, <1>3 DEF TalliesStay
<1>4. CASE CancelPut
  <2>1. batch \in BatchState
    BY <1>a, <1>4 DEF CancelPut, Held
  <2> QED
    BY <1>b, <1>4, <2>1, CancelledFields DEF CancelPut, Found
<1>5. \/ UNCHANGED batch \/ CancelPut \/ Create
      \/ \E w \in BatchWorker : RecordSuccess(w) \/ RecordFailure(w)
  BY DEF BatchNext, DispatchBatch, BatchWorkerStep, Push, BatchDispatchFails, Take, Handle,
     Find, Finish, RecordFails, BatchCrash, CancelFind, batchVars
<1> QED
  BY <1>1, <1>2, <1>3, <1>4, <1>5, TallyStep

LEMMA FinishedFromClaims == TypeInv /\ ClaimsHold => FinishedTellsTheTruth
<1> SUFFICES ASSUME TypeInv, ClaimsHold, batch # NoBatch, batch.finished
             PROVE  /\ JobsIn({"done", "failed"}) = BatchJob
                    /\ batch.failedJobs = Cardinality(FailedJobs)
  BY DEF FinishedTellsTheTruth, FailedJobs
<1>1. batch \in BatchState /\ Claims(batch)
  BY DEF TypeInv, BatchTypeOK, ClaimsHold
<1>2. PICK n \in Nat, f \in Nat : n = Cardinality(BatchJob) /\ f = batch.failedJobs
  BY <1>1, Tallies DEF BatchState
<1>3. f <= n /\ n <= f + Cardinality(DoneJobs) /\ f <= Cardinality(FailedJobs)
  BY <1>1, <1>2, Tallies DEF Claims, DoneJobs, FailedJobs, BatchState
<1>4. /\ DoneJobs \cup FailedJobs \subseteq BatchJob /\ IsFiniteSet(BatchJob)
  BY BatchAssumption DEF DoneJobs, FailedJobs, JobsIn
<1>5. Cardinality(DoneJobs \cup FailedJobs) <= n
  BY <1>2, <1>4, FS_Subset
<1>6. Cardinality(DoneJobs \cup FailedJobs) = n /\ f = Cardinality(FailedJobs)
  BY <1>3, <1>5, Tallies
<1>7. DoneJobs \cup FailedJobs = BatchJob
  BY <1>2, <1>4, <1>6, FS_Subset
<1> QED
  BY <1>2, <1>6, <1>7, Tallies

\* Where each job is given one attempt, a finished batch has seen the end of
\* all its jobs and the right number of failures, on every store, and a store
\* that hands out its own object counts every run.  With a second attempt
\* the first is wrong: recordFailedJob counts every failed run of a job.
THEOREM BatchCounts == OneAttempt /\ BatchSpec => []BatchInv
<1> DEFINE IInv == OneAttempt /\ TypeInv /\ ClaimsHold /\ CountsEveryRun
<1>1. OneAttempt /\ BatchInit => IInv
  BY TypesInit DEF BatchInit, ClaimsHold, CountsEveryRun, Putting
<1>2. IInv /\ [BatchNext]_batchVars => IInv'
  BY TypesStep, ClaimsStep, CountsStep DEF OneAttempt
<1>3. IInv => BatchInv
  BY FinishedFromClaims DEF TypeInv, BatchInv
<1> QED
  BY <1>1, <1>2, <1>3, PTL DEF BatchSpec
=============================================================================
