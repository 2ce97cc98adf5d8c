----------------------------- MODULE HttpClient -----------------------------
(***************************************************************************)
(* send() of a PendingRequest (packages/http/src/client.ts) with retries   *)
(* and a timeout.  Each attempt has a timer, which aborts the fetch that   *)
(* is under way when it fires, whichever attempt's that is.  The server    *)
(* carries an attempt out or does not, and what it has carried out stays   *)
(* done though nobody waits for the answer any more.                       *)
(***************************************************************************)
EXTENDS Naturals

CONSTANTS
    retryTimes,
    NoResponse

ASSUME ClientAssumption == retryTimes \in Nat /\ NoResponse \notin Nat

maxAttempts == retryTimes + 1
Try == 1 .. maxAttempts

VARIABLES
    timed,          \* timeout() was called; never changes
    place,          \* where the call is
    attempts,
    timers,         \* attempts whose timer is pending
    lastResponse,   \* the attempt it came from
    outcome,        \* what send() gives: the response of that attempt
    answers,        \* history: what came of each attempt
    carriedOut,     \* history: attempts the server has carried out
    cutShort        \* history: an attempt was aborted by the timer of another

clientVars == <<timed, place, attempts, timers, lastResponse, outcome, answers,
                carriedOut, cutShort>>

ClientTypeOK ==
    /\ place \in {"begin", "fetching", "delaying", "over", "failed"}
    /\ attempts \in 0 .. maxAttempts
    /\ timers \subseteq Try /\ carriedOut \subseteq Try
    /\ lastResponse \in Try \cup {NoResponse}
    /\ outcome \in Try \cup {NoResponse}
    /\ answers \in [Try -> {"none", "good", "bad", "lost"}]
    /\ {timed, cutShort} \subseteq BOOLEAN

ClientInit ==
    /\ timed \in BOOLEAN
    /\ place = "begin" /\ attempts = 0 /\ timers = {}
    /\ lastResponse = NoResponse /\ outcome = NoResponse
    /\ answers = [a \in Try |-> "none"]
    /\ carriedOut = {} /\ cutShort = FALSE
-----------------------------------------------------------------------------
\* Mutant: only the first attempt gets a timer.
TimersSetOnce == IF timed /\ attempts = 0 THEN {1} ELSE timers

\* setTimeout() at the beginning of each attempt.
TimersSet == IF timed THEN timers \cup {attempts + 1} ELSE timers

\* One round of the loop, up to fetch(), with a controller of its own.
BeginTry ==
    /\ place \in {"begin", "delaying"}
    /\ place' = "fetching"
    /\ attempts' = attempts + 1
    /\ timers' = TimersSet
    /\ UNCHANGED <<timed, lastResponse, outcome, answers, carriedOut, cutShort>>

\* The server carries a request out, whether or not it is still awaited.
CarryOut(a) ==
    /\ a \in 1 .. attempts \ carriedOut
    /\ carriedOut' = carriedOut \cup {a}
    /\ UNCHANGED <<timed, place, attempts, timers, lastResponse, outcome, answers,
                   cutShort>>

\* A status below 400 ends the call.
Succeeds ==
    /\ place = "fetching" /\ attempts \in carriedOut
    /\ answers' = [answers EXCEPT ![attempts] = "good"]
    /\ lastResponse' = attempts /\ outcome' = attempts
    /\ timers' = timers \ {attempts}
    /\ place' = "over"
    /\ UNCHANGED <<timed, attempts, carriedOut, cutShort>>

\* Mutant: an attempt that throws leaves its timer.
TimersKept == timers

\* clearTimeout() of the attempt that has thrown.
TimersLeft == timers \ {attempts}

\* The catch: it tries again after a while, or gives what it has.
Catch(answer, last, fired) ==
    /\ answers' = [answers EXCEPT ![attempts] = answer]
    /\ lastResponse' = last
    /\ timers' = TimersLeft \ fired
    /\ place' = IF attempts < maxAttempts THEN "delaying"
                ELSE IF last = NoResponse THEN "failed" ELSE "over"
    /\ outcome' = IF attempts < maxAttempts THEN outcome ELSE last
    /\ UNCHANGED <<timed, attempts, carriedOut>>

\* A status of 400 or more is thrown, but remembered.
AnswersBadly ==
    /\ place = "fetching" /\ attempts \in carriedOut
    /\ Catch("bad", attempts, {})
    /\ UNCHANGED cutShort

\* The connection fails, before or after the server carried the request out.
FetchFails ==
    /\ place = "fetching"
    /\ Catch("lost", lastResponse, {})
    /\ UNCHANGED cutShort

TimerAborts(a) ==
    /\ place = "fetching" /\ a \in timers
    /\ Catch("lost", lastResponse, {a})
    /\ cutShort' = (cutShort \/ a # attempts)

ClientNext ==
    \/ BeginTry \/ Succeeds \/ AnswersBadly \/ FetchFails
    \/ \E a \in Try : CarryOut(a) \/ TimerAborts(a)

\* The call goes on and timers fire; the server may never answer.
ClientSpec ==
    /\ ClientInit /\ [][ClientNext]_clientVars
    /\ WF_clientVars(BeginTry) /\ \A a \in Try : WF_clientVars(TimerAborts(a))
-----------------------------------------------------------------------------
\* Every attempt has its full time: none is aborted by a timer that an earlier
\* one has left.
TimersAreTheirOwn == ~cutShort

\* send() gives the answer to the last attempt that had one, an error only if
\* none had, and nothing is sent again once an attempt has succeeded.
LastAnswerCounts ==
    /\ LET answered == {a \in Try : answers[a] \in {"good", "bad"}}
       IN  /\ place = "failed" => answered = {}
           /\ place = "over" => outcome \in answered /\ \A a \in answered : a <= outcome
    /\ \A a \in Try : answers[a] = "good" => \A b \in Try : b > a => b \notin carriedOut

ClientInv == ClientTypeOK /\ TimersAreTheirOwn /\ LastAnswerCounts

\* With a timeout every call comes back, though the server never answers.
SendEnds == timed /\ place = "fetching" ~> place \in {"over", "failed"}
=============================================================================
