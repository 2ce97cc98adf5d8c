-------------------------- MODULE MCDatabaseQueue --------------------------
(***************************************************************************)
(* DatabaseQueue in three settings: two workers on a chain of two jobs     *)
(* with no faults but signals ("calm"); and under every fault, where       *)
(* processes die, workers with maxJobs, one at a time, on a chain of two   *)
(* jobs ("alone"), or two workers and an operator on a single job          *)
(* ("crowd").                                                              *)
(***************************************************************************)
EXTENDS DatabaseQueue, TLC

CONSTANTS j1, j2, j3, w1, w2, o1, default

OneChain == {<<j1, j2>>}

ChainAndJob == {<<j1, j2>>, <<j3>>}

OnDefault == [w \in Worker |-> default]

WorkerSymmetry == Permutations(Worker)

VARIABLE setting

mcVars == <<vars, setting>>

\* Nothing fails but jobs, and nothing stops a worker but a signal.
CalmNext ==
    /\ \/ \E p \in Dispatches, q \in Queue : Dispatch(p, q)
       \/ \E i \in DOMAIN jobs : Elapse(i)
       \/ \E w \in Worker : WorkerStep(w) \/ Signal(w)
    /\ UNCHANGED setting

CalmInit == Init /\ setting = "calm"

CalmSpec == CalmInit /\ [][CalmNext]_mcVars

\* Signals come to an end: whoever runs the workers starts them again and lets
\* them run.
SignalsEnd == <>[][\A w \in Worker : ~Signal(w)]_vars

FairCalmSpec == CalmSpec /\ Fairness /\ SignalsEnd
-----------------------------------------------------------------------------
MCInit == Init /\ setting \in {"alone", "crowd"}

Alone ==
    \/ \E p \in Dispatches, q \in Queue :
          Len(p) > 1 /\ (Dispatch(p, q) \/ DispatchLater(p, q))
    \/ \E i \in DOMAIN jobs : Elapse(i)
    \/ \E w \in Worker : /\ \A v \in Worker \ {w} : pc[v] = "stopped"
                         /\ WorkerStep(w) \/ Fault(w)
    \/ \E k \in DOMAIN failedJobs : Forget(k)

Crowd ==
    \/ \E p \in Dispatches, q \in Queue :
          Len(p) = 1 /\ (Dispatch(p, q) \/ DispatchLater(p, q))
    \/ \E i \in DOMAIN jobs : Elapse(i)
    \/ \E w \in Worker : WorkerStep(w) \/ Crash(w)
    \/ \E o \in Operator : OperatorStep(o)
    \/ \E k \in DOMAIN failedJobs : Forget(k)

MCNext ==
    /\ \/ setting = "alone" /\ Alone
       \/ setting = "crowd" /\ Crowd
    /\ UNCHANGED setting

MCSpec == MCInit /\ [][MCNext]_mcVars

\* With a single worker the row of a job that is still in the table has an
\* attempt left, and no row's job is run more than MaxAttempts times.
AloneRunsAtMostMaxAttempts == setting = "alone" => RunsAtMostMaxAttempts

\* With a single worker, a job that ran successfully is not run again from
\* the same row, unless what came after its run threw.
HandledJobsDoNotRunAgain ==
    [][setting = "alone" => RerunsOnlyAfterFailures]_mcVars
=============================================================================
