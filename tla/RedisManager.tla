---------------------------- MODULE RedisManager ----------------------------
(***************************************************************************)
(* packages/redis/src/redis-manager.ts: connection() and close() for one   *)
(* connection name.  An attempt is one promise of a connect and the client *)
(* it ends with.  A step runs up to the next await.                        *)
(***************************************************************************)
EXTENDS Naturals, FiniteSets

CONSTANTS
    Attempt,        \* bound: the connects there may be
    Caller,         \* calls of connection()
    NoAttempt

ASSUME RedisAssumption == IsFiniteSet(Attempt) /\ NoAttempt \notin Attempt

VARIABLES
    attempt,        \* unused, connecting, live, failed or quit
    stored,         \* clients map
    underway,       \* connecting map; a promise that failed stays in it
    awaited,        \* what each call of connection() awaits
    closing,        \* no, one (close(name)) or all (close())
    quitting,       \* the client of this name that close() awaits the quit() of
    overtaken,      \* history: attempts that were connecting during a close
    outlived        \* history: clients a close() that threw had sent QUIT

redisVars == <<attempt, stored, underway, awaited, closing, quitting, overtaken, outlived>>

MaybeAttempt == Attempt \cup {NoAttempt}

RedisTypeOK ==
    /\ attempt \in [Attempt -> {"unused", "connecting", "live", "failed", "quit"}]
    /\ stored \in MaybeAttempt /\ underway \in MaybeAttempt
    /\ awaited \in [Caller -> MaybeAttempt]
    /\ closing \in {"no", "one", "all"} /\ quitting \in MaybeAttempt
    /\ overtaken \subseteq Attempt /\ outlived \subseteq Attempt

RedisInit ==
    /\ attempt = [a \in Attempt |-> "unused"]
    /\ stored = NoAttempt /\ underway = NoAttempt
    /\ awaited = [c \in Caller |-> NoAttempt]
    /\ closing = "no" /\ quitting = NoAttempt
    /\ overtaken = {} /\ outlived = {}

Are(status) == {a \in Attempt : attempt[a] = status}
-----------------------------------------------------------------------------
\* connection() when another call's connect is under way, or has failed.
JoinConnect(c) ==
    /\ awaited[c] = NoAttempt /\ stored = NoAttempt
    /\ underway # NoAttempt
    /\ awaited' = [awaited EXCEPT ![c] = underway]
    /\ UNCHANGED <<attempt, stored, underway, closing, quitting, overtaken, outlived>>

\* Mutant: the connects under way are not looked at.
StartBlindly(c, a) ==
    /\ awaited[c] = NoAttempt /\ stored = NoAttempt
    /\ attempt[a] = "unused"
    /\ attempt' = [attempt EXCEPT ![a] = "connecting"]
    /\ underway' = a
    /\ awaited' = [awaited EXCEPT ![c] = a]
    /\ overtaken' = IF closing = "no" THEN overtaken ELSE overtaken \cup {a}
    /\ UNCHANGED <<stored, closing, quitting, outlived>>

\* connection() when there is neither a client nor a connect.
StartConnect(c, a) ==
    /\ awaited[c] = NoAttempt /\ stored = NoAttempt /\ underway = NoAttempt
    /\ attempt[a] = "unused"
    /\ attempt' = [attempt EXCEPT ![a] = "connecting"]
    /\ underway' = a
    /\ awaited' = [awaited EXCEPT ![c] = a]
    /\ overtaken' = IF closing = "no" THEN overtaken ELSE overtaken \cup {a}
    /\ UNCHANGED <<stored, closing, quitting, outlived>>

\* createClient() is done: the client is stored and the name is deleted from
\* the connects under way, whichever promise is there by now.
ConnectSucceeds(a) ==
    /\ attempt[a] = "connecting"
    /\ attempt' = [attempt EXCEPT ![a] = "live"]
    /\ stored' = a
    /\ underway' = NoAttempt
    /\ UNCHANGED <<awaited, closing, quitting, overtaken, outlived>>

ConnectFails(a) ==
    /\ attempt[a] = "connecting"
    /\ attempt' = [attempt EXCEPT ![a] = "failed"]
    /\ UNCHANGED <<stored, underway, awaited, closing, quitting, overtaken, outlived>>

\* The call returns the client, or throws.
Answered(c) ==
    /\ awaited[c] # NoAttempt
    /\ attempt[awaited[c]] # "connecting"
    /\ awaited' = [awaited EXCEPT ![c] = NoAttempt]
    /\ UNCHANGED <<attempt, stored, underway, closing, quitting, overtaken, outlived>>

\* close(name) or close(): quit() is sent to the client there is ...
StartClose(kind) ==
    /\ closing = "no"
    /\ closing' = kind /\ quitting' = stored
    /\ attempt' = [a \in Attempt |-> IF a = stored THEN "quit" ELSE attempt[a]]
    /\ overtaken' = overtaken \cup Are("connecting")
    /\ UNCHANGED <<stored, underway, awaited, outlived>>

\* ... and after the await the map is emptied, of whatever is in it by now.
EndClose ==
    /\ closing # "no"
    /\ closing' = "no" /\ quitting' = NoAttempt
    /\ stored' = NoAttempt
    /\ underway' = IF closing = "all" THEN NoAttempt ELSE underway
    /\ UNCHANGED <<attempt, awaited, overtaken, outlived>>

\* ... unless a quit() is rejected, which for close() may be that of another
\* name: it throws and leaves the maps as they are.
CloseThrows ==
    /\ closing = "all" \/ quitting # NoAttempt
    /\ closing' = "no" /\ quitting' = NoAttempt
    /\ outlived' = outlived \cup ({quitting} \ {NoAttempt})
    /\ UNCHANGED <<attempt, stored, underway, awaited, overtaken>>

RedisNext ==
    \/ \E c \in Caller :
          JoinConnect(c) \/ Answered(c) \/ \E a \in Attempt : StartConnect(c, a)
    \/ \E a \in Attempt : ConnectSucceeds(a) \/ ConnectFails(a)
    \/ \E kind \in {"one", "all"} : StartClose(kind)
    \/ EndClose \/ CloseThrows

RedisSpec == RedisInit /\ [][RedisNext]_redisVars
-----------------------------------------------------------------------------
\* A client that connection() hands out is one that has not been sent QUIT,
\* except while a close() is under way and after one that threw, which leaves
\* its client in the map; and the maps name no other attempts.
StoredIsLive ==
    /\ stored # NoAttempt => attempt[stored] \in {"live", "quit"}
    /\ stored # NoAttempt /\ closing = "no" => attempt[stored] = "live" \/ stored \in outlived
    /\ underway # NoAttempt => attempt[underway] \in {"connecting", "failed"}

\* Clients that are open and in no map, which nobody will ever quit, are no
\* more than the connects a close() overtook.
LeaksWereOvertaken ==
    Cardinality(Are("live") \ {stored}) <= Cardinality(overtaken)

\* What the code does with a connect that failed, which it leaves in the map:
\* its error is all the callers get from then on, until a close() of all
\* connections or an older connect comes through.
FailureSticks ==
    [][underway # NoAttempt /\ attempt[underway] = "failed" /\ underway' # underway
          => closing = "all" \/ \E a \in overtaken : attempt[a] # attempt'[a]]_redisVars

\* What the manager stores, leaks and never tries again.
ConnectionsAreKept == [](RedisTypeOK /\ StoredIsLive /\ LeaksWereOvertaken) /\ FailureSticks
=============================================================================
