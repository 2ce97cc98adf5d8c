------------------------------- MODULE MCRedis -------------------------------
(***************************************************************************)
(* What is kept in redis, one part to a behaviour: the queue with two      *)
(* workers on a single job, now or later ("crowd"), and with workers that  *)
(* run one at a time, may be asked to quit, and have a chain of two        *)
(* ("alone"); a batch of three jobs, so that a pair of them can overwrite  *)
(* each other's counts while the third is still to come ("batch"); a lock  *)
(* whose clients die and outlast their leases ("lock"); and three calls of *)
(* remember(), two of them in one process and one in another, whose leases *)
(* outlast their callbacks ("remember").                                   *)
(***************************************************************************)
EXTENDS RedisQueue, Batch, Remember

CONSTANTS q1, q2, w1, w2, j1, j2, j3, c1, c2, c3, r1, r2

JobAndChain == {<<q1>>, <<q1, q2>>}

EverySetup == Setup

Clients == {c1, c2, c3}

HomeOfTwo == [c \in Clients |-> IF c = c3 THEN r2 ELSE r1]

VARIABLE part

keptVars == <<vars, batchVars, rememberVars, part>>

KeptInit ==
    /\ Init /\ BatchInit /\ RememberInit
    /\ part \in {"crowd", "alone", "batch", "lock", "remember"}
    /\ part # "batch" => setup = [shared |-> FALSE, inline |-> FALSE]

\* Producers and workers share the connection to redis and nothing else.
Pushes(length) ==
    \/ \E p \in Dispatches, later \in BOOLEAN : Len(p) = length /\ Dispatch(p, later)
    \/ SaveNew(App) \/ Dispatched \/ DispatchFails
    \/ \E i \in DOMAIN delayed : Elapse(i)

Crowd ==
    \/ Pushes(1)
    \/ \E w \in Worker : WorkerStep(w) \/ CrashWorker(w) \/ PopFails(w)
                            \/ FinishFails(w) \/ CatchFails(w)

Alone ==
    \/ Pushes(2)
    \/ \E w \in Worker : /\ \A v \in Worker \ {w} : pc[v] = "stopped"
                         /\ WorkerStep(w) \/ Fault(w)

NoOverrun == \A c \in Client : stage[c] = "held" => ~lapsed'[c]

KeptNext ==
    /\ UNCHANGED part
    /\ CASE part = "crowd" -> Crowd
         [] part = "alone" -> Alone
         [] OTHER -> UNCHANGED vars
    /\ IF part = "batch" THEN BatchNext ELSE UNCHANGED batchVars
    /\ CASE part = "lock" -> LockNext /\ UNCHANGED <<cached, callVars, pending>>
         [] part = "remember" -> RememberNext /\ NoOverrun
         [] OTHER -> UNCHANGED rememberVars

\* Every call runs on while its process lives, and so do the program that
\* dispatches a batch and its workers.
KeptSpec ==
    /\ KeptInit /\ [][KeptNext]_keptVars
    /\ WF_batchVars(part = "batch" /\ DispatchBatch)
    /\ \A w \in BatchWorker : WF_batchVars(part = "batch" /\ BatchWorkerStep(w))
    /\ \A c \in Client : WF_rememberVars(part = "remember" /\ CallStep(c))
-----------------------------------------------------------------------------
\* With one worker an id is in one place at a time: ready, delayed or in the
\* worker's hands.  With two the values keep their types.
PlacesInv == TypeOK /\ (part = "alone" => InOnePlace)

\* With one worker a job that ran successfully is not run again, unless a
\* command failed after its run.
HandledJobsDoNotRunAgain ==
    [][part = "alone" => RerunsOnlyAfterFailures]_keptVars
=============================================================================
