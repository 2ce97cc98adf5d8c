----------------------------- MODULE RedisQueue -----------------------------
(***************************************************************************)
(* The redis queue driver (packages/queue/src/redis-queue.ts) under the    *)
(* worker loop of queue-processor.ts and worker.ts.  A job is an envelope  *)
(* under a key of its own; its id travels between the list of ready jobs,  *)
(* the sorted set of delayed ones and the workers.  Every action is one    *)
(* redis command, or the piece of a worker between two of them.            *)
(*                                                                         *)
(* One queue; a payload is the sequence of jobs it carries, as in module   *)
(* DatabaseQueue.  The set of reserved ids, which nothing ever reads, and  *)
(* the three dates of an envelope, which nothing ever compares, are not    *)
(* part of the state.                                                      *)
(***************************************************************************)
EXTENDS Naturals, Sequences, FiniteSets, Table

CONSTANTS
    Job,
    Dispatches,     \* the payloads the application dispatches, each once
    App,            \* the process that dispatches them
    Worker,         \* queue:work processes
    MaxAttempts,    \* QueueWorkerOptions.maxAttempts
    RetryAfter,     \* seconds a released job is delayed by
    MaxFailures,    \* bound: failed runs of one id that are explored
    QueueFaults,    \* what may go wrong in this instance, see FaultKinds
    Nothing

Payload == Seq(Job) \ {<<>>}

FaultKinds == {"crash", "redis", "signal"}

ASSUME RedisQueueAssumption ==
    /\ Dispatches \subseteq Payload
    /\ IsFiniteSet(Worker) /\ App \notin Worker
    /\ MaxAttempts \in Nat \ {0} /\ RetryAfter \in Nat /\ MaxFailures \in Nat
    /\ QueueFaults \subseteq FaultKinds

VARIABLES
    envelopes,    \* the job:<id> keys
    ready,        \* the ready list, oldest first
    delayed,      \* the delayed sorted set: whether each id's score has passed
    failedJobs,   \* the payloads in the failed_jobs table
    pushing,      \* the pushRaw() or later() each process is in
    pc,           \* where each worker is in QueueProcessor.run
    element,      \* the id it works on
    envelope,     \* the envelope it loaded
    todo,         \* the ids its promoteDelayed() found
    quit,         \* its shouldQuit flag
    ledger,       \* history: one entry per id given out
    dropped       \* history: ids a process held when it died or gave up on redis

vars == <<envelopes, ready, delayed, failedJobs, pushing, pc, element, envelope,
          todo, quit, ledger, dropped>>

store == <<envelopes, ready, delayed>>
local == <<element, envelope, todo, quit>>
-----------------------------------------------------------------------------
Envelope == [payload: Payload, attempts: Nat]

\* What became of an id: whether its push returned, how many of its runs
\* failed, whether one succeeded, whether it was declared failed for good.
Entry == [payload: Payload, pushed: BOOLEAN, failures: Nat,
          handled: BOOLEAN, givenUp: BOOLEAN]

Pushing == [at: {"idle", "save", "link"}, id: Nat, later: BOOLEAN]
NotPushing == [at |-> "idle", id |-> 0, later |-> FALSE]

PcStates == {"stopped", "loop", "asleep", "promote", "promoted", "pop", "load",
             "reserve", "index", "run", "chain", "find", "del", "clear",
             "record", "discard", "discardDel", "discardClear",
             "release", "rewrite", "delay"}

TypeOK ==
    /\ envelopes \in [DOMAIN envelopes -> Envelope]
    /\ ready \in Seq(DOMAIN ledger)
    /\ delayed \in [DOMAIN delayed -> BOOLEAN]
    /\ DOMAIN envelopes \cup DOMAIN delayed \subseteq DOMAIN ledger
    /\ failedJobs \subseteq Seq(Job)
    /\ pushing \in [Worker \cup {App} -> Pushing]
    /\ pc \in [Worker -> PcStates]
    /\ element \in [Worker -> DOMAIN ledger \cup {0}]
    /\ envelope \in [Worker -> Envelope \cup {Nothing}]
    /\ todo \in [Worker -> SUBSET DOMAIN ledger]
    /\ quit \in [Worker -> BOOLEAN]
    /\ ledger \in Seq(Entry)
    /\ dropped \subseteq DOMAIN ledger

Init ==
    /\ envelopes = EmptyTable
    /\ ready = <<>>
    /\ delayed = EmptyTable
    /\ failedJobs = {}
    /\ pushing = [a \in Worker \cup {App} |-> NotPushing]
    /\ pc = [w \in Worker |-> "stopped"]
    /\ element = [w \in Worker |-> 0]
    /\ envelope = [w \in Worker |-> Nothing]
    /\ todo = [w \in Worker |-> {}]
    /\ quit = [w \in Worker |-> FALSE]
    /\ ledger = <<>>
    /\ dropped = {}
-----------------------------------------------------------------------------
(***************************************************************************)
(* pushRaw() and later(): INCR, SET, then LPUSH or ZADD.                   *)
(***************************************************************************)
TakeId(a, payload, later) ==
    /\ pushing[a].at = "idle"
    /\ ledger' = Append(ledger, [payload |-> payload, pushed |-> FALSE,
                                 failures |-> 0, handled |-> FALSE, givenUp |-> FALSE])
    /\ pushing' = [pushing EXCEPT ![a] = [at |-> "save", id |-> Len(ledger) + 1,
                                          later |-> later]]

SaveNew(a) ==
    /\ pushing[a].at = "save"
    /\ pushing' = [pushing EXCEPT ![a].at = "link"]
    /\ envelopes' = InsertRow(envelopes, pushing[a].id,
                              [payload |-> ledger[pushing[a].id].payload, attempts |-> 0])
    /\ UNCHANGED <<ready, delayed, failedJobs, pc, local, ledger, dropped>>

\* Reachable ids: what LPUSH and ZADD do, and what undoes them.
PushReady(i) == ready' = Append(ready, i)
Delay(i, due) == delayed' = InsertRow(delayed, i, due)

Link(a) ==
    LET i == pushing[a].id IN
    /\ IF pushing[a].later
       THEN Delay(i, FALSE) /\ UNCHANGED ready
       ELSE PushReady(i) /\ UNCHANGED delayed
    /\ pushing' = [pushing EXCEPT ![a] = NotPushing]
    /\ ledger' = [ledger EXCEPT ![i].pushed = TRUE]

Taken == {ledger[i].payload : i \in DOMAIN ledger}

\* dispatch(), dispatchLater() (a single job, never a chain) and chain().
Dispatch(payload, later) ==
    /\ payload \in Dispatches \ Taken
    /\ later => Len(payload) = 1
    /\ TakeId(App, payload, later)
    /\ UNCHANGED <<store, failedJobs, pc, local, dropped>>

Dispatched ==
    /\ pushing[App].at = "link"
    /\ Link(App)
    /\ UNCHANGED <<envelopes, failedJobs, pc, local, dropped>>

\* The application dies or its command fails: push() never returns.
DispatchFails ==
    /\ QueueFaults \cap {"crash", "redis"} # {}
    /\ pushing[App].at # "idle"
    /\ pushing' = [pushing EXCEPT ![App] = NotPushing]
    /\ UNCHANGED <<store, failedJobs, pc, local, ledger, dropped>>

\* The clock reaches the score of a delayed id.
Elapse(i) ==
    /\ ~delayed[i]
    /\ delayed' = [delayed EXCEPT ![i] = TRUE]
    /\ UNCHANGED <<envelopes, ready, failedJobs, pushing, pc, local, ledger, dropped>>
-----------------------------------------------------------------------------
(***************************************************************************)
(* The worker loop and pop().                                              *)
(***************************************************************************)
Step(w, from, to) == pc[w] = from /\ pc' = [pc EXCEPT ![w] = to]

\* What the worker had in hand is let go.
LetGo(w) ==
    /\ element' = [element EXCEPT ![w] = 0]
    /\ envelope' = [envelope EXCEPT ![w] = Nothing]
    /\ todo' = [todo EXCEPT ![w] = {}]
    /\ UNCHANGED quit

Start(w) ==
    /\ Step(w, "stopped", "loop")
    /\ UNCHANGED <<store, failedJobs, pushing, local, ledger, dropped>>

Exit(w) ==
    /\ quit[w]
    /\ Step(w, "loop", "stopped")
    /\ quit' = [quit EXCEPT ![w] = FALSE]
    /\ UNCHANGED <<store, failedJobs, pushing, element, envelope, todo, ledger, dropped>>

Due == {i \in DOMAIN delayed : delayed[i]}

\* promoteDelayed(): ZRANGEBYSCORE, then for each id ...
FindDue(w) ==
    /\ ~quit[w]
    /\ Step(w, "loop", "promote")
    /\ todo' = [todo EXCEPT ![w] = Due]
    /\ UNCHANGED <<store, failedJobs, pushing, element, envelope, quit, ledger, dropped>>

\* Mutant: the id stays in the delayed set.
UndelayNot(w) ==
    /\ Step(w, "promote", "promoted")
    /\ \E i \in todo[w] :
          /\ element' = [element EXCEPT ![w] = i]
          /\ todo' = [todo EXCEPT ![w] = @ \ {i}]
    /\ UNCHANGED <<store, failedJobs, pushing, envelope, quit, ledger, dropped>>

\* ... ZREM ...
Undelay(w) ==
    /\ Step(w, "promote", "promoted")
    /\ \E i \in todo[w] :
          /\ element' = [element EXCEPT ![w] = i]
          /\ todo' = [todo EXCEPT ![w] = @ \ {i}]
          /\ delayed' = DeleteRow(delayed, i)
    /\ UNCHANGED <<envelopes, ready, failedJobs, pushing, envelope, quit, ledger, dropped>>

\* ... and LPUSH, whether or not that ZREM found the id.
Promote(w) ==
    /\ Step(w, "promoted", "promote")
    /\ PushReady(element[w])
    /\ element' = [element EXCEPT ![w] = 0]
    /\ UNCHANGED <<envelopes, delayed, failedJobs, pushing, envelope, todo, quit, ledger, dropped>>

AllPromoted(w) ==
    /\ todo[w] = {}
    /\ Step(w, "promote", "pop")
    /\ UNCHANGED <<store, failedJobs, pushing, local, ledger, dropped>>

\* Mutant: the oldest id is read and not taken from the list.
PopPeeks(w) ==
    /\ ready # <<>>
    /\ Step(w, "pop", "load")
    /\ element' = [element EXCEPT ![w] = Head(ready)]
    /\ UNCHANGED <<store, failedJobs, pushing, envelope, todo, quit, ledger, dropped>>

\* BRPOP, or the RPOP after it.
Pop(w) ==
    /\ ready # <<>>
    /\ Step(w, "pop", "load")
    /\ element' = [element EXCEPT ![w] = Head(ready)]
    /\ ready' = Tail(ready)
    /\ UNCHANGED <<envelopes, delayed, failedJobs, pushing, envelope, todo, quit, ledger, dropped>>

PopNothing(w) ==
    /\ ready = <<>>
    /\ Step(w, "pop", "asleep")
    /\ UNCHANGED <<store, failedJobs, pushing, local, ledger, dropped>>

\* The envelope is gone: pop() returns null although other ids may be ready.
LoadNothing(w) ==
    /\ element[w] \notin DOMAIN envelopes
    /\ Step(w, "load", "asleep")
    /\ LetGo(w)
    /\ UNCHANGED <<store, failedJobs, pushing, ledger, dropped>>

Load(w) ==
    /\ element[w] \in DOMAIN envelopes
    /\ Step(w, "load", "reserve")
    /\ envelope' = [envelope EXCEPT ![w] = envelopes[element[w]]]
    /\ UNCHANGED <<store, failedJobs, pushing, element, todo, quit, ledger, dropped>>

\* The envelope is written back as it was loaded, but for reservedAt.
Reserve(w) ==
    /\ Step(w, "reserve", "index")
    /\ envelopes' = InsertRow(envelopes, element[w], envelope[w])
    /\ UNCHANGED <<ready, delayed, failedJobs, pushing, local, ledger, dropped>>

\* ZADD to the reserved ids.
Index(w) ==
    /\ Step(w, "index", "run")
    /\ UNCHANGED <<store, failedJobs, pushing, local, ledger, dropped>>

Wake(w) ==
    /\ Step(w, "asleep", "loop")
    /\ UNCHANGED <<store, failedJobs, pushing, local, ledger, dropped>>
-----------------------------------------------------------------------------
(***************************************************************************)
(* One job, as in module DatabaseQueue.                                    *)
(***************************************************************************)
\* Mutant: the attempt that just failed is counted twice.
GivesUpEarly(w) == envelope[w].attempts + 2 >= MaxAttempts

GivesUp(w) == envelope[w].attempts + 1 >= MaxAttempts

Chained(w) == Len(envelope[w].payload) > 1

Succeed(w) ==
    /\ Step(w, "run", IF Chained(w) THEN "chain" ELSE "find")
    /\ ledger' = [ledger EXCEPT ![element[w]].handled = TRUE]
    /\ UNCHANGED <<store, failedJobs, pushing, local, dropped>>

FailedEntry(entry, givesUp) ==
    [entry EXCEPT !.failures = @ + 1, !.givenUp = @ \/ givesUp]

Caught(w) ==
    /\ ledger[element[w]].failures < MaxFailures
    /\ pc' = [pc EXCEPT ![w] = IF GivesUp(w) THEN "record" ELSE "release"]
    /\ ledger' = [ledger EXCEPT ![element[w]] = FailedEntry(@, GivesUp(w))]
    /\ UNCHANGED <<store, failedJobs, local, dropped>>

Fail(w) ==
    /\ pc[w] = "run"
    /\ Caught(w)
    /\ UNCHANGED pushing

\* pushRaw() of what is left of the chain.
PushNext(w) ==
    /\ pc[w] = "chain"
    /\ TakeId(w, Tail(envelope[w].payload), FALSE)
    /\ UNCHANGED <<store, failedJobs, pc, local, dropped>>

PushedNext(w) ==
    /\ pushing[w].at = "link"
    /\ Link(w)
    /\ Step(w, "chain", "find")
    /\ UNCHANGED <<envelopes, failedJobs, local, dropped>>

\* deleteJob(), after a success and after a job was given up: GET ...
FindForDelete(w) ==
    /\ element[w] \in DOMAIN envelopes
    /\ Step(w, "find", "del") \/ Step(w, "discard", "discardDel")
    /\ UNCHANGED <<store, failedJobs, pushing, local, ledger, dropped>>

FindNothing(w) ==
    /\ element[w] \notin DOMAIN envelopes
    /\ Step(w, "find", "loop") \/ Step(w, "discard", "loop") \/ Step(w, "release", "loop")
    /\ LetGo(w)
    /\ UNCHANGED <<store, failedJobs, pushing, ledger, dropped>>

\* ... DEL ...
Delete(w) ==
    /\ Step(w, "del", "clear") \/ Step(w, "discardDel", "discardClear")
    /\ envelopes' = DeleteRow(envelopes, element[w])
    /\ UNCHANGED <<ready, delayed, failedJobs, pushing, local, ledger, dropped>>

\* ... and ZREM, from the reserved and then from the delayed ids.
Clear(w) ==
    /\ Step(w, "clear", "loop") \/ Step(w, "discardClear", "loop")
    /\ delayed' = DeleteRow(delayed, element[w])
    /\ LetGo(w)
    /\ UNCHANGED <<envelopes, ready, failedJobs, pushing, ledger, dropped>>

\* failedJobs.record().
RecordFailed(w) ==
    /\ Step(w, "record", "discard")
    /\ failedJobs' = failedJobs \cup {envelope[w].payload}
    /\ UNCHANGED <<store, pushing, local, ledger, dropped>>

\* release(): GET ...
FindForRelease(w) ==
    /\ element[w] \in DOMAIN envelopes
    /\ Step(w, "release", "rewrite")
    /\ envelope' = [envelope EXCEPT ![w] = envelopes[element[w]]]
    /\ UNCHANGED <<store, failedJobs, pushing, element, todo, quit, ledger, dropped>>

\* ... SET, with one attempt more, and ZREM from the reserved ids ...
Rewrite(w) ==
    /\ Step(w, "rewrite", "delay")
    /\ envelopes' = InsertRow(envelopes, element[w], [envelope[w] EXCEPT !.attempts = @ + 1])
    /\ UNCHANGED <<ready, delayed, failedJobs, pushing, local, ledger, dropped>>

\* Mutant: a released job is left where it was.
ReleaseNowhere(w) ==
    /\ Step(w, "delay", "loop")
    /\ LetGo(w)
    /\ UNCHANGED <<store, failedJobs, pushing, ledger, dropped>>

\* ... and ZADD to the delayed ones.
ReleaseDelayed(w) ==
    /\ Step(w, "delay", "loop")
    /\ Delay(element[w], RetryAfter = 0)
    /\ LetGo(w)
    /\ UNCHANGED <<envelopes, ready, failedJobs, pushing, ledger, dropped>>
-----------------------------------------------------------------------------
(***************************************************************************)
(* What may go wrong around a worker.                                      *)
(***************************************************************************)
Popping  == {"loop", "promote", "promoted", "pop", "load", "reserve", "index"}
Finishing == {"chain", "find", "del", "clear"}
Catching == {"record", "discard", "discardDel", "discardClear",
             "release", "rewrite", "delay"}

Signal(w) ==
    /\ "signal" \in QueueFaults
    /\ pc[w] # "stopped" /\ ~quit[w]
    /\ quit' = [quit EXCEPT ![w] = TRUE]
    /\ UNCHANGED <<store, failedJobs, pushing, pc, element, envelope, todo, ledger, dropped>>

Drops(w) ==
    /\ dropped' = dropped \cup ({element[w], pushing[w].id} \ {0})
    /\ pushing' = [pushing EXCEPT ![w] = NotPushing]

Stop(w) ==
    /\ pc' = [pc EXCEPT ![w] = "stopped"]
    /\ Drops(w)
    /\ element' = [element EXCEPT ![w] = 0]
    /\ envelope' = [envelope EXCEPT ![w] = Nothing]
    /\ todo' = [todo EXCEPT ![w] = {}]
    /\ quit' = [quit EXCEPT ![w] = FALSE]
    /\ UNCHANGED <<store, failedJobs, ledger>>

CrashWorker(w) ==
    /\ "crash" \in QueueFaults
    /\ pc[w] # "stopped"
    /\ Stop(w)

\* A command of pop() fails: the loop sleeps and starts over, without the id
\* it had taken from the list.
PopFails(w) ==
    /\ "redis" \in QueueFaults
    /\ pc[w] \in Popping
    /\ pc[w] = "loop" => ~quit[w]
    /\ pc' = [pc EXCEPT ![w] = "asleep"]
    /\ Drops(w)
    /\ LetGo(w)
    /\ UNCHANGED <<store, failedJobs, ledger>>

\* A command after the job's success fails: that is a failed attempt.
FinishFails(w) ==
    /\ "redis" \in QueueFaults
    /\ pc[w] \in Finishing
    /\ pushing' = [pushing EXCEPT ![w] = NotPushing]
    /\ Caught(w)

\* A command of the catch block fails: the error leaves run().
CatchFails(w) ==
    /\ "redis" \in QueueFaults
    /\ pc[w] \in Catching
    /\ Stop(w)
-----------------------------------------------------------------------------
Produce ==
    \/ \E p \in Dispatches, later \in BOOLEAN : Dispatch(p, later)
    \/ SaveNew(App) \/ Dispatched \/ DispatchFails
    \/ \E i \in DOMAIN delayed : Elapse(i)

PopStep(w) ==
    \/ Start(w) \/ Exit(w) \/ FindDue(w) \/ Undelay(w) \/ Promote(w) \/ AllPromoted(w)
    \/ Pop(w) \/ PopNothing(w) \/ LoadNothing(w) \/ Load(w) \/ Reserve(w) \/ Index(w)
    \/ Wake(w)

JobStep(w) ==
    \/ Succeed(w) \/ Fail(w) \/ PushNext(w) \/ SaveNew(w) \/ PushedNext(w)
    \/ FindForDelete(w) \/ FindNothing(w) \/ Delete(w) \/ Clear(w)
    \/ RecordFailed(w) \/ FindForRelease(w) \/ Rewrite(w) \/ ReleaseDelayed(w)

WorkerStep(w) == PopStep(w) \/ JobStep(w)

Fault(w) == Signal(w) \/ CrashWorker(w) \/ PopFails(w) \/ FinishFails(w) \/ CatchFails(w)

Next == Produce \/ \E w \in Worker : WorkerStep(w) \/ Fault(w)

Spec == Init /\ [][Next]_vars
-----------------------------------------------------------------------------
(***************************************************************************)
(* Properties.                                                             *)
(***************************************************************************)
Queued(i) == i \in DOMAIN delayed \/ \E k \in DOMAIN ready : ready[k] = i

InHand(i) == {w \in Worker : element[w] = i}

\* The job ran and what its chain still held was pushed.
Completed(i) ==
    /\ ledger[i].handled
    /\ Len(ledger[i].payload) > 1 =>
          \E j \in DOMAIN ledger : /\ ledger[j].payload = Tail(ledger[i].payload)
                                  /\ ledger[j].pushed

\* Runs of this very id used up its attempts, and failed_jobs has its payload.
Recorded(i) == ledger[i].givenUp /\ ledger[i].payload \in failedJobs

\* Once push() returned, the job stays within reach of the workers, its
\* envelope in place, until it ran or was recorded as failed: only an id a
\* worker had in hand when it died, or when redis refused it a command, can
\* be lost.
OnlyHeldJobsAreLost ==
    \A i \in DOMAIN ledger :
        \/ ~ledger[i].pushed
        \/ i \in DOMAIN envelopes /\ (Queued(i) \/ InHand(i) # {})
        \/ Completed(i) \/ Recorded(i) \/ i \in dropped

\* A job is given up only after MaxAttempts runs of it failed, although two
\* workers may have promoted, popped and released it at once.
GivenUpOnlyAfterMaxAttempts ==
    \A i \in DOMAIN ledger : ledger[i].givenUp => ledger[i].failures >= MaxAttempts

DeliveryInv == OnlyHeldJobsAreLost /\ GivenUpOnlyAfterMaxAttempts

\* What was pushed is the queue of module LossyQueue: each command is one step
\* of that queue or none.
Pushed == {i \in DOMAIN ledger : ledger[i].pushed}

Outcome(e) == [payload |-> e.payload, failures |-> e.failures,
               handled |-> e.handled, givenUp |-> e.givenUp]

Entries == [i \in Pushed |-> Outcome(ledger[i])]

Waiting == {i \in Pushed : i \in DOMAIN envelopes /\ (Queued(i) \/ InHand(i) # {})}

Lost == dropped \cap Pushed

Promised == INSTANCE LossyQueue WITH entries <- Entries, queued <- Waiting, hand <- element,
                                     lost <- Lost, Process <- Worker, Nobody <- 0

ImplementsLossyQueue == Promised!LossySpec

\* With one worker an id is in one place at a time: ready, delayed or in the
\* worker's hands.
InOnePlace ==
    \A i \in DOMAIN ledger :
        Cardinality({k \in DOMAIN ready : ready[k] = i})
          + Cardinality({i} \cap DOMAIN delayed)
          + Cardinality(InHand(i)) <= 1

\* With one worker a job that ran successfully is not run again, unless a
\* command failed after its run.
RerunsOnlyAfterFailures ==
    \A w \in Worker : pc[w] = "index" /\ pc'[w] = "run" =>
        \/ ~ledger[element[w]].handled
        \/ ledger[element[w]].failures > 0
-----------------------------------------------------------------------------
(***************************************************************************)
(* What the safety properties rest on: the invariants of RedisQueue's      *)
(* proofs (module RedisQueueProofs).                                       *)
(***************************************************************************)
\* Where a worker has no id in hand, and where it has an envelope.
EmptyHanded == {"stopped", "loop", "asleep", "promote", "pop"}
Loaded == PcStates \ (EmptyHanded \cup {"promoted", "load"})

\* The id a push took is its own until the push links it.
PushLinked(a) ==
    IF pushing[a].at = "idle" THEN pushing[a].id = 0
    ELSE /\ pushing[a].id \in DOMAIN ledger
         /\ ~ledger[pushing[a].id].pushed
         /\ pushing[a].at = "link" => pushing[a].id \in DOMAIN envelopes
         /\ \A b \in Worker \cup {App} : b # a /\ pushing[b].at # "idle" =>
                pushing[b].id # pushing[a].id

\* The only push of a worker is the one of its chain's rest.
ChainLinked(w) ==
    pushing[w].at # "idle" =>
        /\ pc[w] = "chain"
        /\ ledger[pushing[w].id].payload = Tail(envelope[w].payload)

WorkerLinked(w) ==
    /\ pc[w] \in EmptyHanded <=> element[w] = 0
    /\ element[w] # 0 => ledger[element[w]].pushed
    /\ \A i \in todo[w] : ledger[i].pushed
    /\ pc[w] \in Loaded => /\ envelope[w] \in Envelope
                           /\ envelope[w].payload = ledger[element[w]].payload
    /\ pc[w] = "chain" => Chained(w)
    /\ ChainLinked(w)

\* Whatever the workers can reach is an id whose push has come to its end, and
\* an envelope has the payload its id was given out for.
Linked ==
    /\ \A i \in DOMAIN envelopes : envelopes[i].payload = ledger[i].payload
    /\ \A i \in DOMAIN delayed : ledger[i].pushed
    /\ \A k \in DOMAIN ready : ledger[ready[k]].pushed
    /\ \A a \in Worker \cup {App} : PushLinked(a)
    /\ \A w \in Worker : WorkerLinked(w)

\* What a worker relies on when it deletes an envelope.
Noted(w) ==
    /\ pc[w] = "chain" => ledger[element[w]].handled
    /\ pc[w] \in {"find", "del", "clear"} => Completed(element[w])
    /\ pc[w] = "record" => ledger[element[w]].givenUp
    /\ pc[w] \in {"discard", "discardDel", "discardClear"} => Recorded(element[w])

Safe(i) ==
    \/ i \in DOMAIN envelopes /\ (Queued(i) \/ InHand(i) # {})
    \/ Completed(i) \/ Recorded(i) \/ i \in dropped

EveryJobSafe ==
    /\ \A w \in Worker : Noted(w)
    /\ \A i \in DOMAIN ledger : ledger[i].pushed => Safe(i)

\* An id whose push has not come to its end was never run nor dropped, and the
\* application pushes nothing but what it dispatches.
PushKept(a) ==
    pushing[a].at # "idle" =>
        /\ pushing[a].id \notin dropped
        /\ a = App => ledger[pushing[a].id].payload \in Dispatches

Untouched(e) == e.failures = 0 /\ ~e.handled /\ ~e.givenUp

EveryPushKept ==
    /\ \A a \in Worker \cup {App} : PushKept(a)
    /\ \A i \in DOMAIN ledger : ~ledger[i].pushed => Untouched(ledger[i])

\* The workers that counted a failed run of id i and have yet to write it back.
Releasing(i) == {w \in Worker : pc[w] \in {"release", "rewrite"} /\ element[w] = i}

\* Whatever count of attempts somebody may act on leaves a failed run for each
\* worker still to release the job: workers write back what they loaded, so
\* counts may be lost, but none is made up.
Earned(i, n) == n + Cardinality(Releasing(i)) <= ledger[i].failures

AttemptsEarned ==
    /\ \A i \in DOMAIN ledger : Earned(i, 0)
    /\ \A i \in DOMAIN envelopes : Earned(i, envelopes[i].attempts)
    /\ \A w \in Worker : pc[w] \in Loaded => Earned(element[w], envelope[w].attempts)
=============================================================================
