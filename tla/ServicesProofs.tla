--------------------------- MODULE ServicesProofs ---------------------------
(***************************************************************************)
(* Proofs about the parts that serve requests and events (Services), for   *)
(* every number of connections, requests, providers, objects, updates and  *)
(* attempts.                                                               *)
(***************************************************************************)
EXTENDS Services, TemplateProofs, TLAPS, FiniteSetTheorems, SequenceTheorems

(***************************************************************************)
(* The connections to redis.  The attempts that are open or may become so  *)
(* are counted against those a close() overtook: there is one more of them *)
(* at most, which is the one in the maps.                                  *)
(***************************************************************************)
Alive == {a \in Attempt : attempt[a] \in {"connecting", "live"}}

\* No connect is under way that a close() has not overtaken.
AllOvertaken == Are("connecting") \subseteq overtaken

ConnectsAreKnown ==
    /\ closing # "no" => AllOvertaken
    /\ stored = NoAttempt \/ underway # NoAttempt
           => Are("connecting") \subseteq overtaken \cup {underway}
    /\ \A a \in overtaken : attempt[a] # "unused"

HasQuit == stored # NoAttempt /\ attempt[stored] = "quit"

AliveAreCounted ==
    /\ Cardinality(Alive) <= Cardinality(overtaken) + 1
    /\ closing # "no" \/ (stored = NoAttempt /\ AllOvertaken) \/ HasQuit
           => Cardinality(Alive) <= Cardinality(overtaken)

\* A client that was sent QUIT is in the map for a close() that awaits it, or
\* after one that threw.
QuitIsAwaited ==
    /\ stored # NoAttempt /\ attempt[stored] = "quit" => stored = quitting \/ stored \in outlived
    /\ quitting # NoAttempt => closing # "no"

RedisSafe ==
    RedisTypeOK /\ StoredIsLive /\ QuitIsAwaited /\ ConnectsAreKnown /\ AliveAreCounted

LEMMA RedisStarts == RedisInit => RedisSafe
<1> SUFFICES ASSUME RedisInit PROVE RedisSafe
  OBVIOUS
<1>1. RedisTypeOK
  BY DEF RedisInit, RedisTypeOK, MaybeAttempt
<1>2. StoredIsLive /\ ConnectsAreKnown
  BY DEF RedisInit, StoredIsLive, ConnectsAreKnown, AllOvertaken, Are
<1>3. Alive = {} /\ overtaken = {}
  BY DEF RedisInit, Alive
<1>4. AliveAreCounted
  BY <1>2, <1>3, FS_EmptySet DEF AliveAreCounted
<1> QED
  BY <1>1, <1>2, <1>4 DEF RedisInit, QuitIsAwaited, RedisSafe

\* What the counts of finite sets of attempts are.
LEMMA AliveIsFinite ==
    ASSUME RedisTypeOK
    PROVE  /\ IsFiniteSet(Alive) /\ IsFiniteSet(overtaken)
           /\ Cardinality(Alive) \in Nat /\ Cardinality(overtaken) \in Nat
<1>1. Alive \subseteq Attempt /\ overtaken \subseteq Attempt
  BY DEF Alive, RedisTypeOK
<1>2. IsFiniteSet(Alive) /\ IsFiniteSet(overtaken)
  BY <1>1, FS_Subset, RedisAssumption
<1> QED
  BY <1>2, FS_CardinalityType

LEMMA JoinConnectStep ==
    ASSUME RedisSafe, NEW c \in Caller, JoinConnect(c) \/ Answered(c)
    PROVE  RedisSafe'
<1>1. UNCHANGED <<attempt, stored, underway, closing, quitting, overtaken, outlived>>
  BY DEF JoinConnect, Answered
<1>2. RedisTypeOK'
  <2>1. awaited' \in [Caller -> MaybeAttempt]
    BY DEF JoinConnect, Answered, RedisSafe, RedisTypeOK, MaybeAttempt
  <2> QED
    BY <1>1, <2>1 DEF RedisSafe, RedisTypeOK, MaybeAttempt
<1> QED
  BY <1>1, <1>2 DEF RedisSafe, StoredIsLive, QuitIsAwaited, ConnectsAreKnown, AliveAreCounted,
     AllOvertaken, HasQuit, Alive, Are

LEMMA StartConnectStep ==
    ASSUME RedisSafe, NEW c \in Caller, NEW a \in Attempt, StartConnect(c, a)
    PROVE  RedisSafe'
<1> USE RedisAssumption
<1>1. /\ attempt[a] = "unused" /\ attempt' = [attempt EXCEPT ![a] = "connecting"]
      /\ stored = NoAttempt /\ underway = NoAttempt /\ underway' = a
      /\ awaited' = [awaited EXCEPT ![c] = a]
      /\ UNCHANGED <<stored, closing, quitting, outlived>>
  BY DEF StartConnect
<1>2. RedisTypeOK /\ a \notin Alive /\ a \notin overtaken
  BY <1>1 DEF RedisSafe, ConnectsAreKnown, Alive
<1>3. overtaken' = overtaken \/ overtaken' = overtaken \cup {a}
  BY DEF StartConnect
<1>4. RedisTypeOK'
  BY <1>1, <1>2, <1>3 DEF RedisTypeOK, MaybeAttempt
<1>5. StoredIsLive' /\ QuitIsAwaited'
  <2>1. StoredIsLive'
    BY <1>1, <1>2 DEF StoredIsLive, RedisTypeOK
  <2>2. QuitIsAwaited'
    BY <1>1 DEF RedisSafe, QuitIsAwaited
  <2> QED
    BY <2>1, <2>2
<1>6. AllOvertaken
  BY <1>1 DEF RedisSafe, ConnectsAreKnown, AllOvertaken, Are
<1>7. Alive' = Alive \cup {a}
  BY <1>1, <1>2 DEF Alive, RedisTypeOK
<1>8. Cardinality(Alive') = Cardinality(Alive) + 1
  BY <1>2, <1>7, AliveIsFinite, FS_AddElement
<1>9. Cardinality(Alive) <= Cardinality(overtaken)
  BY <1>1, <1>6 DEF RedisSafe, AliveAreCounted
<1>a. Are("connecting")' = Are("connecting") \cup {a}
  BY <1>1, <1>2 DEF Are, RedisTypeOK
<1>10. CASE closing = "no"
  <2>1. overtaken' = overtaken
    BY <1>10 DEF StartConnect
  <2>2. ConnectsAreKnown'
    BY <1>1, <1>2, <1>6, <1>10, <1>a, <2>1
       DEF RedisSafe, ConnectsAreKnown, AllOvertaken, RedisTypeOK
  <2>3. a \in Are("connecting")' /\ a \notin overtaken'
    BY <1>2, <1>a, <2>1
  <2>4. AliveAreCounted'
    BY <1>1, <1>2, <1>8, <1>9, <1>10, <2>1, <2>3, AliveIsFinite
       DEF AliveAreCounted, AllOvertaken, HasQuit
  <2> QED
    BY <1>4, <1>5, <2>2, <2>4 DEF RedisSafe
<1>11. CASE closing # "no"
  <2>1. overtaken' = overtaken \cup {a}
    BY <1>11 DEF StartConnect
  <2>2. ConnectsAreKnown'
    BY <1>1, <1>2, <1>6, <1>a, <2>1 DEF RedisSafe, ConnectsAreKnown, AllOvertaken, RedisTypeOK
  <2>3. Cardinality(overtaken') = Cardinality(overtaken) + 1
    BY <1>2, <2>1, AliveIsFinite, FS_AddElement
  <2>4. AliveAreCounted'
    BY <1>2, <1>8, <1>9, <2>3, AliveIsFinite DEF AliveAreCounted
  <2> QED
    BY <1>4, <1>5, <2>2, <2>4 DEF RedisSafe
<1> QED
  BY <1>10, <1>11

LEMMA ConnectSucceedsStep ==
    ASSUME RedisSafe, NEW a \in Attempt, ConnectSucceeds(a)
    PROVE  RedisSafe'
<1> USE RedisAssumption DEF ConnectSucceeds
<1>1. RedisTypeOK /\ RedisTypeOK'
  BY DEF RedisSafe, RedisTypeOK, MaybeAttempt
<1>2. StoredIsLive' /\ QuitIsAwaited'
  BY <1>1 DEF RedisSafe, StoredIsLive, QuitIsAwaited, RedisTypeOK
<1>3. Alive' = Alive /\ Are("connecting")' \subseteq Are("connecting")
  BY <1>1 DEF Alive, Are, RedisTypeOK
<1>4. ConnectsAreKnown'
  BY <1>1, <1>3 DEF RedisSafe, ConnectsAreKnown, AllOvertaken, RedisTypeOK
<1>5. AliveAreCounted'
  <2>1. stored' # NoAttempt /\ ~HasQuit'
    BY <1>1 DEF RedisTypeOK, HasQuit
  <2>2. UNCHANGED <<closing, overtaken>>
    OBVIOUS
  <2>3. RedisSafe => AliveAreCounted
    BY DEF RedisSafe
  <2> QED
    BY <1>3, <2>1, <2>2, <2>3 DEF AliveAreCounted
<1> QED
  BY <1>1, <1>2, <1>4, <1>5 DEF RedisSafe

LEMMA ConnectFailsStep ==
    ASSUME RedisSafe, NEW a \in Attempt, ConnectFails(a)
    PROVE  RedisSafe'
<1> USE RedisAssumption DEF ConnectFails
<1>1. RedisTypeOK /\ RedisTypeOK'
  BY DEF RedisSafe, RedisTypeOK, MaybeAttempt
<1>2. StoredIsLive' /\ QuitIsAwaited'
  BY <1>1 DEF RedisSafe, StoredIsLive, QuitIsAwaited, RedisTypeOK, MaybeAttempt
<1>3. Alive' = Alive \ {a} /\ a \in Alive /\ Are("connecting")' = Are("connecting") \ {a}
  BY <1>1 DEF Alive, Are, RedisTypeOK
<1>4. ConnectsAreKnown'
  BY <1>1, <1>3 DEF RedisSafe, ConnectsAreKnown, AllOvertaken, RedisTypeOK
<1>5. Cardinality(Alive') = Cardinality(Alive) - 1
  BY <1>1, <1>3, AliveIsFinite, FS_RemoveElement
<1>6. AliveAreCounted'
  <2>1. Cardinality(Alive) <= Cardinality(overtaken) + 1
    BY DEF RedisSafe, AliveAreCounted
  <2> QED
    BY <1>1, <1>5, <2>1, AliveIsFinite DEF AliveAreCounted
<1> QED
  BY <1>1, <1>2, <1>4, <1>6 DEF RedisSafe

LEMMA StartCloseStep ==
    ASSUME RedisSafe, NEW kind \in {"one", "all"}, StartClose(kind)
    PROVE  RedisSafe'
<1> USE RedisAssumption
<1>1. /\ closing = "no" /\ closing' = kind
      /\ attempt' = [a \in Attempt |-> IF a = stored THEN "quit" ELSE attempt[a]]
      /\ overtaken' = overtaken \cup Are("connecting")
      /\ quitting' = stored
      /\ UNCHANGED <<stored, underway, awaited, outlived>>
  BY DEF StartClose
<1>2. RedisTypeOK /\ Are("connecting") \subseteq Attempt
  BY DEF RedisSafe, Are
<1>3. RedisTypeOK'
  BY <1>1, <1>2 DEF RedisTypeOK, MaybeAttempt
<1>4. StoredIsLive' /\ QuitIsAwaited'
  BY <1>1, <1>2 DEF RedisSafe, StoredIsLive, QuitIsAwaited, RedisTypeOK, MaybeAttempt
<1>5. Are("connecting")' = Are("connecting")
  BY <1>1, <1>2 DEF RedisSafe, StoredIsLive, Are, RedisTypeOK, MaybeAttempt
<1>6. ConnectsAreKnown'
  BY <1>1, <1>2, <1>5 DEF RedisSafe, ConnectsAreKnown, AllOvertaken, RedisTypeOK, Are
<1>b. /\ IsFiniteSet(Alive') /\ IsFiniteSet(overtaken')
      /\ Cardinality(Alive') \in Nat /\ Cardinality(overtaken') \in Nat
  <2>1. Alive' \subseteq Attempt /\ overtaken' \subseteq Attempt
    BY <1>3 DEF Alive, RedisTypeOK
  <2>2. IsFiniteSet(Alive') /\ IsFiniteSet(overtaken')
    BY <2>1, FS_Subset
  <2> QED
    BY <2>2, FS_CardinalityType
<1>7. /\ IsFiniteSet(overtaken')
      /\ Cardinality(overtaken) <= Cardinality(overtaken')
      /\ ~AllOvertaken => Cardinality(overtaken) # Cardinality(overtaken')
  <2>1. IsFiniteSet(overtaken') /\ overtaken \subseteq overtaken'
    BY <1>1, <1>b
  <2> QED
    BY <1>1, <2>1, FS_Subset DEF AllOvertaken
<1>8. Cardinality(Alive') <= Cardinality(overtaken')
  <2>1. CASE stored = NoAttempt
    <3>1. Alive' = Alive
      BY <1>1, <2>1 DEF Alive
    <3> QED
      BY <1>2, <1>b, <1>7, <2>1, <3>1, AliveIsFinite DEF RedisSafe, AliveAreCounted
  <2>3. CASE stored # NoAttempt /\ attempt[stored] = "quit"
    <3>1. Alive' = Alive
      BY <1>1, <1>2, <2>3 DEF Alive, RedisTypeOK
    <3>2. Cardinality(Alive) <= Cardinality(overtaken)
      BY <2>3 DEF RedisSafe, AliveAreCounted, HasQuit
    <3> QED
      BY <1>2, <1>b, <1>7, <3>1, <3>2, AliveIsFinite
  <2>2. CASE stored # NoAttempt /\ attempt[stored] # "quit"
    <3>1. stored \in Alive /\ Alive' = Alive \ {stored}
      BY <1>1, <1>2, <2>2 DEF RedisSafe, StoredIsLive, Alive, RedisTypeOK, MaybeAttempt
    <3>2. Cardinality(Alive') = Cardinality(Alive) - 1
      BY <1>2, <3>1, AliveIsFinite, FS_RemoveElement
    <3>3. Cardinality(Alive) <= Cardinality(overtaken) + 1
      BY DEF RedisSafe, AliveAreCounted
    <3> QED
      BY <1>2, <1>b, <1>7, <3>2, <3>3, AliveIsFinite
  <2> QED
    BY <2>1, <2>2, <2>3
<1>9. AliveAreCounted'
  BY <1>b, <1>8 DEF AliveAreCounted
<1> QED
  BY <1>3, <1>4, <1>6, <1>9 DEF RedisSafe

LEMMA EndCloseStep == ASSUME RedisSafe, EndClose PROVE RedisSafe'
<1> USE RedisAssumption DEF EndClose
<1>1. RedisTypeOK /\ RedisTypeOK'
  BY DEF RedisSafe, RedisTypeOK, MaybeAttempt
<1>2. StoredIsLive' /\ QuitIsAwaited'
  BY <1>1 DEF RedisSafe, StoredIsLive, QuitIsAwaited
<1>3. Alive' = Alive /\ Are("connecting")' = Are("connecting") /\ AllOvertaken
  BY DEF RedisSafe, ConnectsAreKnown, Alive, Are
<1>4. ConnectsAreKnown'
  BY <1>3 DEF RedisSafe, ConnectsAreKnown, AllOvertaken
<1>5. AliveAreCounted'
  BY <1>1, <1>3, AliveIsFinite DEF RedisSafe, AliveAreCounted
<1> QED
  BY <1>1, <1>2, <1>4, <1>5 DEF RedisSafe

LEMMA CloseThrowsStep == ASSUME RedisSafe, CloseThrows PROVE RedisSafe'
<1> USE RedisAssumption DEF CloseThrows
<1>1. RedisTypeOK /\ RedisTypeOK'
  BY DEF RedisSafe, RedisTypeOK, MaybeAttempt
<1>2. QuitIsAwaited'
  BY <1>1 DEF RedisSafe, QuitIsAwaited
<1>3. StoredIsLive'
  BY <1>1, <1>2 DEF RedisSafe, StoredIsLive, QuitIsAwaited
<1>4. Alive' = Alive /\ Are("connecting")' = Are("connecting")
  BY DEF Alive, Are
<1>5. closing # "no"
  BY DEF RedisSafe, QuitIsAwaited
<1>6. ConnectsAreKnown'
  BY <1>4, <1>5 DEF RedisSafe, ConnectsAreKnown, AllOvertaken
<1>7. AliveAreCounted'
  BY <1>1, <1>4, <1>5, AliveIsFinite DEF RedisSafe, AliveAreCounted, HasQuit
<1> QED
  BY <1>1, <1>2, <1>3, <1>6, <1>7 DEF RedisSafe

LEMMA RedisStep == RedisSafe /\ [RedisNext]_redisVars => RedisSafe'
<1> SUFFICES ASSUME RedisSafe, [RedisNext]_redisVars PROVE RedisSafe'
  OBVIOUS
<1>1. CASE UNCHANGED redisVars
  BY <1>1 DEF redisVars, RedisSafe, RedisTypeOK, StoredIsLive, QuitIsAwaited, ConnectsAreKnown,
     AliveAreCounted, AllOvertaken, HasQuit, Alive, Are, MaybeAttempt
<1> QED
  BY <1>1, JoinConnectStep, StartConnectStep, ConnectSucceedsStep, ConnectFailsStep,
     StartCloseStep, EndCloseStep, CloseThrowsStep DEF RedisNext

LEMMA LeaksAreCounted == RedisSafe => LeaksWereOvertaken
<1> SUFFICES ASSUME RedisSafe PROVE LeaksWereOvertaken
  OBVIOUS
<1>1. RedisTypeOK
  BY DEF RedisSafe
<1> DEFINE Leaks == Are("live") \ {stored}
<1>2. Leaks \subseteq Alive
  BY DEF Are, Alive
<1>3. IsFiniteSet(Leaks) /\ Cardinality(Leaks) \in Nat
  BY <1>1, <1>2, AliveIsFinite, FS_Subset, FS_CardinalityType
<1>4. CASE \E a \in Alive : a \notin Leaks
  <2>1. Cardinality(Leaks) < Cardinality(Alive)
    BY <1>1, <1>2, <1>3, <1>4, AliveIsFinite, FS_Subset
  <2> QED
    BY <1>1, <1>3, <2>1, AliveIsFinite DEF RedisSafe, AliveAreCounted, LeaksWereOvertaken
<1>5. CASE Alive = Leaks
  <2>1. stored \notin Alive /\ Are("connecting") = {}
    BY <1>5 DEF Are, Alive
  <2>2. closing # "no" \/ stored = NoAttempt \/ HasQuit
    BY <1>1, <2>1 DEF HasQuit, RedisSafe, StoredIsLive, RedisTypeOK, MaybeAttempt, Alive
  <2> QED
    BY <1>5, <2>1, <2>2 DEF RedisSafe, AliveAreCounted, AllOvertaken, LeaksWereOvertaken
<1> QED
  BY <1>2, <1>4, <1>5

\* Only a connect that a close() overtook takes the place of one that failed.
LEMMA FailureSticksStep ==
    RedisSafe /\ [RedisNext]_redisVars =>
        [underway # NoAttempt /\ attempt[underway] = "failed" /\ underway' # underway
          => closing = "all" \/ \E a \in overtaken : attempt[a] # attempt'[a]]_redisVars
<1> SUFFICES ASSUME RedisSafe, RedisNext, underway # NoAttempt,
                    attempt[underway] = "failed", underway' # underway
             PROVE  closing = "all" \/ \E a \in overtaken : attempt[a] # attempt'[a]
  OBVIOUS
<1>1. ASSUME NEW a \in Attempt, ConnectSucceeds(a)
      PROVE  \E b \in overtaken : attempt[b] # attempt'[b]
  <2>1. a \in Are("connecting") /\ a # underway /\ attempt'[a] = "live"
    BY <1>1 DEF ConnectSucceeds, Are, RedisSafe, RedisTypeOK
  <2> QED
    BY <2>1 DEF RedisSafe, ConnectsAreKnown, Are
<1> QED
  BY <1>1 DEF RedisNext, JoinConnect, StartConnect, ConnectFails, Answered, StartClose, EndClose,
              CloseThrows

\* Whatever connects and closes overlap: what is stored is live unless a
\* close() is under way, or one that threw had sent it QUIT; clients that nobody
\* will ever quit are no more than the connects a close() overtook; and a connect
\* that failed stays until such a connect or a close() of all replaces it.
THEOREM RedisConnectionsAreKept == RedisSpec => ConnectionsAreKept
<1>1. RedisSafe => RedisTypeOK /\ StoredIsLive /\ LeaksWereOvertaken
  BY LeaksAreCounted DEF RedisSafe
<1> QED
  BY <1>1, RedisStarts, RedisStep, FailureSticksStep, PTL
     DEF RedisSpec, ConnectionsAreKept, FailureSticks
-----------------------------------------------------------------------------
(***************************************************************************)
(* The polling of a bot.  Whatever number Telegram may come to confirm,    *)
(* the handlers of all updates before it have ended.                       *)
(***************************************************************************)
Passed(n) == \A u \in UpdateId : u < n => handled[u] > 0

PollFlags == polling \in BOOLEAN /\ loopsMet \in BOOLEAN

PollCounts ==
    /\ arrived \in 0 .. MaxUpdates /\ confirmed \in 0 .. arrived
    /\ offset \in 0 .. arrived
    /\ loop \in [PollLoop -> {"none", "asking", "answered", "handling", "pausing"}]
    /\ next \in [PollLoop -> 0 .. MaxUpdates] /\ upTo \in [PollLoop -> 0 .. MaxUpdates]
    /\ handled \in [UpdateId -> Nat]
    /\ starts \in Nat /\ crashes \in Nat

PollTypes == PollFlags /\ PollCounts

LoopOK(l) ==
    /\ next[l] <= arrived /\ upTo[l] <= arrived
    /\ loop[l] = "answered" => next[l] <= upTo[l]
    /\ loop[l] = "handling" => next[l] < upTo[l]
    /\ Passed(next[l])

\* With one loop at a time, what it is at is where the offset is.
Alone ==
    /\ \A l, m \in PollLoop : loop[l] # "none" /\ loop[m] # "none" => l = m
    /\ confirmed <= offset
    /\ \A u \in UpdateId : handled[u] <= 1 /\ (u >= offset => handled[u] = 0)
    /\ \A l \in PollLoop :
          loop[l] \in {"asking", "answered", "handling"} => next[l] = offset

PollSafe ==
    /\ PollTypes
    /\ \A l \in PollLoop : LoopOK(l)
    /\ Passed(confirmed) /\ Passed(offset)
    /\ ~loopsMet /\ crashes = 0 => Alone

LEMMA PollStarts == PollInit => PollSafe
<1> SUFFICES ASSUME PollInit PROVE PollSafe
  OBVIOUS
<1> USE PollingAssumption DEF PollInit
<1>1. PollTypes
  <2>1. PollFlags
    BY Zenon DEF PollFlags
  <2>2. PollCounts
    BY DEF PollCounts, UpdateId
  <2> QED
    BY <2>1, <2>2 DEF PollTypes
<1>2. Passed(0)
  BY DEF Passed, UpdateId
<1>3. \A l \in PollLoop : LoopOK(l)
  BY <1>2 DEF LoopOK
<1>4. Alone
  BY DEF Alone, UpdateId
<1> QED
  BY <1>1, <1>2, <1>3, <1>4 DEF PollSafe

\* A loop goes on without having handled anything.
LEMMA LoopMoves ==
    ASSUME PollSafe, NEW l \in PollLoop,
           RequestFails(l) \/ Conflict(l) \/ ReceiveBatch(l)
    PROVE  PollSafe'
<1> USE PollingAssumption
<1>1. UNCHANGED <<arrived, confirmed, offset, next, upTo, starts, crashes, loopsMet, handled>>
  BY DEF RequestFails, Conflict, ReceiveBatch, BotFixed, ServerFixed, StartsFixed
<1>f. PollFlags'
  <2>1. polling' = polling \/ polling' = FALSE
    BY DEF RequestFails, Conflict, ReceiveBatch, BotFixed, ServerFixed
  <2> QED
    BY <1>1, <2>1, Zenon DEF PollFlags, PollSafe, PollTypes
<1>2. PICK to \in {"none", "pausing", "handling"} :
        /\ loop' = [loop EXCEPT ![l] = to]
        /\ to = "handling" => loop[l] = "answered" /\ next[l] # upTo[l]
        /\ loop[l] # "none"
  BY DEF RequestFails, Conflict, ReceiveBatch, Pauses, Handles
<1>3. PollTypes'
  BY <1>1, <1>2, <1>f DEF PollSafe, PollTypes, PollCounts
<1>4. ASSUME NEW m \in PollLoop PROVE LoopOK(m)'
  <2>1. LoopOK(m) /\ next[m] \in Nat /\ upTo[m] \in Nat
    BY DEF PollSafe, PollTypes, PollCounts
  <2> QED
    BY <1>1, <1>2, <2>1 DEF LoopOK, Passed, PollSafe, PollTypes, PollCounts
<1>5. Alone => Alone'
  BY <1>1, <1>2 DEF Alone, PollSafe, PollTypes, PollCounts
<1> QED
  BY <1>1, <1>3, <1>4, <1>5 DEF PollSafe, Passed

LEMMA GetUpdatesStep ==
    ASSUME PollSafe, NEW l \in PollLoop, GetUpdates(l)
    PROVE  PollSafe'
<1> USE PollingAssumption
<1>1. /\ loop[l] = "asking" /\ loop' = [loop EXCEPT ![l] = "answered"]
      /\ confirmed' = IF next[l] > confirmed THEN next[l] ELSE confirmed
      /\ next' = [next EXCEPT ![l] = confirmed']
      /\ upTo' = [upTo EXCEPT ![l] =
            IF arrived < confirmed' + BatchLimit THEN arrived ELSE confirmed' + BatchLimit]
      /\ UNCHANGED <<arrived, polling, offset, starts, crashes, loopsMet, handled>>
  BY DEF GetUpdates, BotFixed, StartsFixed
<1>2. PollTypes /\ LoopOK(l) /\ confirmed \in Nat /\ next[l] \in Nat /\ arrived \in Nat
  BY DEF PollSafe, PollTypes, PollCounts
<1>3. confirmed' \in 0 .. arrived /\ arrived <= MaxUpdates
  BY <1>1, <1>2 DEF LoopOK, PollTypes, PollCounts
<1>4. PICK end \in confirmed' .. arrived : upTo' = [upTo EXCEPT ![l] = end]
  <2>1. PICK k \in 0 .. arrived : k = confirmed'
    BY <1>3
  <2> DEFINE e == IF arrived < k + BatchLimit THEN arrived ELSE k + BatchLimit
  <2>2. upTo' = [upTo EXCEPT ![l] = e]
    BY <1>1, <2>1
  <2>3. e \in k .. arrived
    BY <1>2
  <2> HIDE DEF e
  <2> QED
    BY <2>1, <2>2, <2>3
<1>5. PollTypes'
  <2>1. next' \in [PollLoop -> 0 .. MaxUpdates] /\ upTo' \in [PollLoop -> 0 .. MaxUpdates]
    BY <1>1, <1>2, <1>3, <1>4 DEF PollTypes, PollCounts
  <2>2. loop' \in [PollLoop -> {"none", "asking", "answered", "handling", "pausing"}]
    BY <1>1, <1>2 DEF PollTypes, PollCounts
  <2>3. PollFlags'
    BY <1>1, <1>2, Zenon DEF PollFlags, PollTypes
  <2> QED
    BY <1>1, <1>2, <1>3, <2>1, <2>2, <2>3 DEF PollTypes, PollCounts
<1>6. Passed(confirmed)'
  BY <1>1, <1>2 DEF PollSafe, LoopOK, Passed
<1>7. ASSUME NEW m \in PollLoop PROVE LoopOK(m)'
  <2>1. LoopOK(m)
    BY DEF PollSafe
  <2>2. CASE m = l
    BY <1>1, <1>2, <1>3, <1>4, <1>6, <2>2 DEF LoopOK, Passed, PollTypes, PollCounts
  <2>3. CASE m # l
    BY <1>1, <1>2, <2>1, <2>3 DEF LoopOK, Passed, PollTypes, PollCounts
  <2> QED
    BY <2>2, <2>3
<1>8. Alone => Alone'
  <2> SUFFICES ASSUME Alone PROVE Alone'
    OBVIOUS
  <2>1. next[l] = offset /\ confirmed <= offset /\ offset \in Nat
    BY <1>1, <1>2 DEF Alone, PollTypes, PollCounts
  <2>2. confirmed' = offset
    BY <1>1, <1>2, <2>1
  <2> QED
    BY <1>1, <1>2, <2>1, <2>2 DEF Alone, PollTypes, PollCounts
<1> QED
  BY <1>1, <1>5, <1>6, <1>7, <1>8 DEF PollSafe, Passed

LEMMA HandlerEndsStep ==
    ASSUME PollSafe, NEW l \in PollLoop, HandlerEnds(l)
    PROVE  PollSafe'
<1> USE PollingAssumption
<1>1. PICK to \in {"pausing", "none", "handling"} :
        /\ loop[l] = "handling" /\ loop' = [loop EXCEPT ![l] = to]
        /\ to = "handling" => next[l] + 1 # upTo[l]
  BY DEF HandlerEnds, Pauses, Handles
<1>2. /\ handled' = [handled EXCEPT ![next[l]] = @ + 1]
      /\ offset' = next[l] + 1
      /\ next' = [next EXCEPT ![l] = @ + 1]
      /\ UNCHANGED <<arrived, confirmed, polling, upTo, starts, crashes, loopsMet>>
  BY DEF HandlerEnds, OffsetAfter, ServerFixed, StartsFixed
<1>3. /\ PollTypes /\ LoopOK(l) /\ next[l] \in Nat /\ upTo[l] \in Nat
      /\ arrived \in 0 .. MaxUpdates
  BY DEF PollSafe, PollTypes, PollCounts
<1>4. next[l] \in UpdateId /\ next[l] + 1 <= arrived
  BY <1>1, <1>3 DEF LoopOK, UpdateId
<1>5. PollTypes'
  <2>1. next' \in [PollLoop -> 0 .. MaxUpdates]
    BY <1>2, <1>3, <1>4 DEF PollTypes, PollCounts
  <2>2. loop' \in [PollLoop -> {"none", "asking", "answered", "handling", "pausing"}]
    BY <1>1, <1>3 DEF PollTypes, PollCounts
  <2>3. handled' \in [UpdateId -> Nat]
    BY <1>2, <1>3, <1>4 DEF PollTypes, PollCounts
  <2>4. PollFlags'
    BY <1>2, <1>3, Zenon DEF PollFlags, PollTypes
  <2> QED
    BY <1>2, <1>3, <1>4, <2>1, <2>2, <2>3, <2>4 DEF PollTypes, PollCounts
<1>6. \A n \in Nat : Passed(n) => Passed(n)'
  BY <1>2, <1>3, <1>4 DEF Passed, PollTypes, PollCounts
<1>7. Passed(offset)'
  <2>1. ASSUME NEW u \in UpdateId, u < offset' PROVE handled'[u] > 0
    <3>1. u \in Int /\ (u < next[l] \/ u = next[l])
      BY <1>2, <1>3, <2>1 DEF UpdateId, PollTypes, PollCounts
    <3>2. handled[u] \in Nat /\ handled[next[l]] \in Nat
      BY <1>3, <1>4 DEF PollTypes, PollCounts
    <3>3. u < next[l] => handled[u] > 0
      BY <1>3 DEF LoopOK, Passed
    <3> QED
      BY <1>2, <1>3, <1>4, <3>1, <3>2, <3>3 DEF PollTypes, PollCounts
  <2> QED
    BY <2>1 DEF Passed
<1>8. ASSUME NEW m \in PollLoop PROVE LoopOK(m)'
  <2>1. LoopOK(m) /\ next[m] \in Nat /\ upTo[m] \in Nat
    BY <1>3 DEF PollSafe, PollTypes, PollCounts
  <2>2. CASE m = l
    <3>1. next'[m] = next[l] + 1 /\ upTo'[m] = upTo[l]
      BY <1>2, <1>3, <2>2 DEF PollTypes, PollCounts
    <3>2. Passed(next[m])'
      BY <1>2, <1>7, <2>2, <3>1 DEF Passed
    <3> QED
      BY <1>1, <1>2, <1>3, <1>4, <2>2, <3>1, <3>2 DEF LoopOK, PollTypes, PollCounts
  <2>3. CASE m # l
    <3>1. next'[m] = next[m] /\ upTo'[m] = upTo[m] /\ loop'[m] = loop[m]
      BY <1>1, <1>2, <1>3, <2>3 DEF PollTypes, PollCounts
    <3>2. Passed(next[m])'
      BY <1>6, <2>1, <3>1 DEF Passed, LoopOK
    <3> QED
      BY <1>2, <2>1, <3>1, <3>2 DEF LoopOK
  <2> QED
    BY <2>2, <2>3
<1>9. Passed(confirmed)' /\ Passed(offset)'
  <2>1. confirmed \in Nat /\ Passed(confirmed)
    BY <1>3 DEF PollSafe, PollTypes, PollCounts
  <2> QED
    BY <1>2, <1>3, <1>6, <1>7, <2>1 DEF Passed, PollTypes, PollCounts
<1>10. Alone => Alone'
  <2> SUFFICES ASSUME Alone PROVE Alone'
    OBVIOUS
  <2>1. next[l] = offset /\ confirmed <= offset /\ confirmed \in Nat /\ handled[next[l]] = 0
    BY <1>1, <1>3, <1>4 DEF Alone, PollTypes, PollCounts
  <2>2. ASSUME NEW u \in UpdateId
        PROVE  handled'[u] <= 1 /\ (u >= offset' => handled'[u] = 0)
    <3>1. u \in Int /\ handled[u] \in Nat /\ handled[u] <= 1 /\ (u >= offset => handled[u] = 0)
      BY <1>3 DEF Alone, UpdateId, PollTypes, PollCounts
    <3> QED
      BY <1>2, <1>3, <1>4, <2>1, <3>1 DEF PollTypes, PollCounts
  <2>3. confirmed' <= offset'
    BY <1>2, <1>3, <2>1
  <2>4. \A m, k \in PollLoop : loop'[m] # "none" /\ loop'[k] # "none" => m = k
    BY <1>1, <1>3 DEF Alone, PollTypes, PollCounts
  <2>5. ASSUME NEW m \in PollLoop, loop'[m] \in {"asking", "answered", "handling"}
        PROVE  next'[m] = offset'
    <3>1. m = l
      BY <1>1, <1>3, <2>5 DEF Alone, PollTypes, PollCounts
    <3> QED
      BY <1>2, <1>3, <3>1 DEF PollTypes, PollCounts
  <2> QED
    BY <2>2, <2>3, <2>4, <2>5 DEF Alone
<1> QED
  BY <1>2, <1>5, <1>8, <1>9, <1>10 DEF PollSafe

LEMMA AsksStep ==
    ASSUME PollSafe, NEW l \in PollLoop, PollAgain(l) \/ StartPolling(l)
    PROVE  PollSafe'
<1> USE PollingAssumption
<1>f. PollFlags'
  <2>1. polling \in BOOLEAN /\ loopsMet \in BOOLEAN
    BY Zenon DEF PollSafe, PollTypes, PollFlags
  <2>2. polling' = polling \/ polling' = TRUE
    BY DEF PollAgain, StartPolling, BotFixed
  <2>3. loopsMet' \in BOOLEAN
    <3>1. CASE PollAgain(l)
      BY <2>1, <3>1, Zenon DEF PollAgain, BotFixed, StartsFixed
    <3>2. CASE StartPolling(l)
      <4>1. loopsMet' = (loopsMet \/ \E other \in PollLoop : loop[other] # "none")
        BY <3>2 DEF StartPolling
      <4> QED
        BY <4>1, Zenon
    <3> QED
      BY <3>1, <3>2
  <2> QED
    BY <2>1, <2>2, <2>3, Zenon DEF PollFlags
<1>1. /\ UNCHANGED <<arrived, confirmed, offset, upTo, crashes, handled>>
      /\ starts' \in Nat
      /\ loopsMet => loopsMet'
  <2>1. starts \in Nat
    BY DEF PollSafe, PollTypes, PollCounts
  <2>2. CASE PollAgain(l)
    BY <2>1, <2>2 DEF PollAgain, BotFixed, ServerFixed, StartsFixed
  <2>3. CASE StartPolling(l)
    <3>1. loopsMet => loopsMet'
      BY <2>3, Zenon DEF StartPolling
    <3>2. starts' \in Nat
      BY <2>1, <2>3 DEF StartPolling
    <3>3. UNCHANGED <<arrived, confirmed, offset, upTo, crashes, handled>>
      BY <2>3 DEF StartPolling, ServerFixed
    <3> QED
      BY <3>1, <3>2, <3>3
  <2> QED
    BY <2>2, <2>3
<1>2. PICK to \in {"asking", "none"} :
        /\ loop' = [loop EXCEPT ![l] = to]
        /\ to = "asking" => next' = [next EXCEPT ![l] = offset]
        /\ to = "none" => next' = next
        /\ ~loopsMet' /\ loop[l] = "none" => \A m \in PollLoop : loop[m] = "none"
  <2>1. CASE PollAgain(l)
    <3>1. next = [next EXCEPT ![l] = next[l]]
      BY DEF PollSafe, PollTypes, PollCounts
    <3> QED
      BY <2>1, <3>1 DEF PollAgain
  <2>2. CASE StartPolling(l)
    BY <2>2 DEF StartPolling
  <2> QED
    BY <2>1, <2>2
<1>3. PollTypes /\ offset \in 0 .. MaxUpdates /\ offset <= arrived
  BY DEF PollSafe, PollTypes, PollCounts
<1>4. PollTypes'
  <2>1. loop' \in [PollLoop -> {"none", "asking", "answered", "handling", "pausing"}]
    BY <1>2, <1>3 DEF PollTypes, PollCounts
  <2>2. next' \in [PollLoop -> 0 .. MaxUpdates]
    BY <1>2, <1>3 DEF PollTypes, PollCounts
  <2> QED
    BY <1>1, <1>3, <1>f, <2>1, <2>2 DEF PollTypes, PollCounts
<1>5. ASSUME NEW m \in PollLoop PROVE LoopOK(m)'
  <2>1. LoopOK(m) /\ Passed(offset)
    BY DEF PollSafe
  <2>2. next'[m] = next[m] \/ (next'[m] = offset /\ loop'[m] = "asking")
    BY <1>2, <1>3 DEF PollTypes, PollCounts
  <2>3. loop'[m] = loop[m] \/ loop'[m] \in {"asking", "none"}
    BY <1>2, <1>3 DEF PollTypes, PollCounts
  <2> QED
    BY <1>1, <1>3, <2>1, <2>2, <2>3 DEF LoopOK, Passed
<1>6. ~loopsMet' /\ Alone => Alone'
  BY <1>1, <1>2, <1>3 DEF Alone, PollTypes, PollCounts
<1> QED
  BY <1>1, <1>4, <1>5, <1>6 DEF PollSafe, Passed

LEMMA PollStep == PollSafe /\ [PollNext]_pollVars => PollSafe'
<1> SUFFICES ASSUME PollSafe, [PollNext]_pollVars PROVE PollSafe'
  OBVIOUS
<1> USE PollingAssumption
<1>1. CASE UpdateArrives
  <2>1. /\ arrived' = arrived + 1 /\ arrived < MaxUpdates
        /\ UNCHANGED <<confirmed, polling, offset, loop, next, upTo, starts, crashes,
                       loopsMet, handled>>
    BY <1>1 DEF UpdateArrives, BotFixed, StartsFixed
  <2>f. PollFlags'
    BY <2>1, Zenon DEF PollFlags, PollSafe, PollTypes
  <2>2. PollTypes'
    BY <2>1, <2>f DEF PollSafe, PollTypes, PollCounts
  <2>3. ASSUME NEW m \in PollLoop PROVE LoopOK(m)'
    BY <2>1 DEF PollSafe, LoopOK, Passed, PollTypes, PollCounts
  <2> QED
    BY <2>1, <2>2, <2>3 DEF PollSafe, Passed, Alone
<1>2. CASE StopPolling
  <2>1. /\ polling' = FALSE
        /\ UNCHANGED <<arrived, confirmed, offset, loop, next, upTo, starts, crashes,
                       loopsMet, handled>>
    BY <1>2 DEF StopPolling, ServerFixed, StartsFixed
  <2>f. PollFlags'
    BY <2>1, Zenon DEF PollFlags, PollSafe, PollTypes
  <2>2. PollTypes'
    BY <2>1, <2>f DEF PollSafe, PollTypes, PollCounts
  <2> QED
    BY <2>1, <2>2 DEF PollSafe, LoopOK, Passed, Alone
<1>3. CASE CrashPolling
  <2>1. /\ crashes' = crashes + 1 /\ polling' = FALSE /\ offset' = 0
        /\ loop' = [l \in PollLoop |-> "none"]
        /\ next' = [l \in PollLoop |-> 0] /\ upTo' = [l \in PollLoop |-> 0]
        /\ UNCHANGED <<arrived, confirmed, starts, loopsMet, handled>>
    BY <1>3 DEF CrashPolling, ServerFixed
  <2>f. PollFlags'
    BY <2>1, Zenon DEF PollFlags, PollSafe, PollTypes
  <2>2. PollTypes'
    BY <2>1, <2>f DEF PollSafe, PollTypes, PollCounts
  <2>3. Passed(0)'
    BY DEF Passed, UpdateId
  <2>4. ASSUME NEW m \in PollLoop PROVE LoopOK(m)'
    BY <2>1, <2>3 DEF PollSafe, PollTypes, PollCounts, LoopOK, Passed
  <2>5. crashes' # 0
    BY <2>1 DEF PollSafe, PollTypes, PollCounts
  <2> QED
    BY <2>1, <2>2, <2>3, <2>4, <2>5 DEF PollSafe, Passed
<1>4. CASE UNCHANGED pollVars
  <2>1. UNCHANGED <<polling, loopsMet>>
    BY <1>4 DEF pollVars
  <2>2. PollFlags'
    BY <2>1, Zenon DEF PollFlags, PollSafe, PollTypes
  <2> QED
    BY <1>4, <2>2 DEF pollVars, PollSafe, PollTypes, PollCounts, LoopOK, Passed, Alone
<1> QED
  BY <1>1, <1>2, <1>3, <1>4, LoopMoves, GetUpdatesStep, HandlerEndsStep, AsksStep DEF PollNext

\* Telegram forgets no update whose handler has not ended, however loops
\* overlap and processes die, and none is handled twice as long as they don't.
THEOREM NoUpdateIsLost == PollSpec => []PollingInv
<1>1. PollSafe => PollingInv
  BY DEF PollSafe, PollTypes, PollFlags, PollCounts, PollTypeOK, PollingInv, NoUpdateIsSkipped, HandledOnce, Passed, Alone
<1> QED
  BY <1>1, PollStarts, PollStep, PTL DEF PollSpec
-----------------------------------------------------------------------------
(***************************************************************************)
(* The client for HTTP.  An attempt's timer is gone when the next attempt  *)
(* begins, and the response that is remembered is the last there was.      *)
(***************************************************************************)
CallTypes ==
    /\ place \in {"begin", "fetching", "delaying", "over", "failed"}
    /\ attempts \in 0 .. maxAttempts
    /\ carriedOut \subseteq 1 .. attempts
    /\ lastResponse \in Try \cup {NoResponse}
    /\ outcome \in Try \cup {NoResponse}
    /\ answers \in [Try -> {"none", "good", "bad", "lost"}]

AttemptsCount ==
    /\ place = "delaying" => attempts < maxAttempts
    /\ place = "begin" => attempts = 0
    /\ place \in {"fetching", "over", "failed"} => attempts >= 1
    /\ timers \subseteq {attempts}
    /\ place # "fetching" => timers = {}

HasAnswer(a) == answers[a] \in {"good", "bad"}

LastIsRemembered ==
    /\ \A a \in Try : a > attempts => answers[a] = "none"
    /\ place = "fetching" => answers[attempts] = "none"
    /\ \A a \in Try : answers[a] = "good" => a = attempts /\ place = "over"
    /\ \A a \in Try : HasAnswer(a) => lastResponse # NoResponse /\ a <= lastResponse
    /\ lastResponse # NoResponse => HasAnswer(lastResponse)
    /\ place = "failed" => lastResponse = NoResponse
    /\ place = "over" => lastResponse # NoResponse /\ outcome = lastResponse

CallSafe ==
    /\ CallTypes /\ AttemptsCount /\ LastIsRemembered
    /\ timed \in BOOLEAN /\ cutShort = FALSE

LEMMA CallStarts == ClientInit => CallSafe
<1> SUFFICES ASSUME ClientInit PROVE CallSafe
  OBVIOUS
<1> USE ClientAssumption DEF ClientInit, maxAttempts, Try
<1>1. CallTypes
  BY DEF CallTypes
<1>2. AttemptsCount /\ LastIsRemembered
  BY DEF AttemptsCount, LastIsRemembered, HasAnswer
<1>3. timed \in BOOLEAN /\ cutShort = FALSE
  BY Zenon
<1> QED
  BY <1>1, <1>2, <1>3 DEF CallSafe

LEMMA BeginTryStep == ASSUME CallSafe, BeginTry PROVE CallSafe'
<1> USE ClientAssumption DEF maxAttempts, Try
<1>1. /\ place \in {"begin", "delaying"} /\ place' = "fetching"
      /\ attempts' = attempts + 1
      /\ UNCHANGED <<lastResponse, outcome, answers, carriedOut>>
  BY DEF BeginTry
<1>2. CallTypes /\ AttemptsCount /\ LastIsRemembered /\ attempts < maxAttempts
  BY <1>1 DEF CallSafe, AttemptsCount
<1>3. CallTypes'
  BY <1>1, <1>2 DEF CallTypes
<1>4. timers' \subseteq {attempts + 1}
  BY <1>1, <1>2 DEF BeginTry, TimersSet, AttemptsCount
<1>5. AttemptsCount'
  BY <1>1, <1>2, <1>4 DEF AttemptsCount, CallTypes
<1>6. LastIsRemembered'
  BY <1>1, <1>2 DEF LastIsRemembered, CallTypes, HasAnswer
<1>7. timed' \in BOOLEAN /\ cutShort' = FALSE
  BY Zenon DEF CallSafe, BeginTry
<1> QED
  BY <1>3, <1>5, <1>6, <1>7 DEF CallSafe

LEMMA SucceedsStep == ASSUME CallSafe, Succeeds PROVE CallSafe'
<1> USE ClientAssumption DEF maxAttempts, Try
<1>1. /\ place = "fetching" /\ place' = "over"
      /\ answers' = [answers EXCEPT ![attempts] = "good"]
      /\ lastResponse' = attempts /\ outcome' = attempts
      /\ timers' = timers \ {attempts}
      /\ UNCHANGED <<attempts, carriedOut>>
  BY DEF Succeeds
<1>2. CallTypes /\ AttemptsCount /\ LastIsRemembered /\ attempts \in Try
  BY <1>1 DEF CallSafe, AttemptsCount, CallTypes
<1>3. CallTypes'
  BY <1>1, <1>2 DEF CallTypes
<1>4. AttemptsCount'
  BY <1>1, <1>2 DEF AttemptsCount
<1>5. LastIsRemembered'
  BY <1>1, <1>2 DEF LastIsRemembered, CallTypes, HasAnswer
<1>6. timed' \in BOOLEAN /\ cutShort' = FALSE
  BY Zenon DEF CallSafe, Succeeds
<1> QED
  BY <1>3, <1>4, <1>5, <1>6 DEF CallSafe

\* What an attempt that throws leaves: its answer was bad and is remembered,
\* or lost.
LEMMA CatchStep ==
    ASSUME CallSafe, place = "fetching",
           NEW answer \in {"bad", "lost"}, NEW last \in Try \cup {NoResponse},
           last = IF answer = "bad" THEN attempts ELSE lastResponse,
           NEW fired, Catch(answer, last, fired)
    PROVE  CallTypes' /\ AttemptsCount' /\ LastIsRemembered'
<1> USE ClientAssumption DEF maxAttempts, Try
<1>1. CallTypes /\ AttemptsCount /\ LastIsRemembered /\ attempts \in Try
  BY DEF CallSafe, AttemptsCount, CallTypes
<1>2. /\ answers' = [answers EXCEPT ![attempts] = answer]
      /\ lastResponse' = last
      /\ timers' = {}
      /\ UNCHANGED <<attempts, carriedOut>>
  BY <1>1 DEF Catch, TimersLeft, AttemptsCount
<1>3. /\ place' = IF attempts < maxAttempts THEN "delaying"
                  ELSE IF last = NoResponse THEN "failed" ELSE "over"
      /\ outcome' = IF attempts < maxAttempts THEN outcome ELSE last
  BY DEF Catch
<1>4. CallTypes'
  BY <1>1, <1>2, <1>3 DEF CallTypes
<1>5. AttemptsCount'
  BY <1>1, <1>2, <1>3 DEF AttemptsCount, CallTypes
<1>6. LastIsRemembered'
  <2>1. \A a \in Try : answers'[a] = IF a = attempts THEN answer ELSE answers[a]
    BY <1>1, <1>2 DEF CallTypes
  <2>2. CASE answer = "bad"
    BY <1>1, <1>2, <1>3, <2>1, <2>2 DEF LastIsRemembered, CallTypes, HasAnswer
  <2>3. CASE answer = "lost"
    BY <1>1, <1>2, <1>3, <2>1, <2>3 DEF LastIsRemembered, CallTypes, HasAnswer
  <2> QED
    BY <2>2, <2>3
<1> QED
  BY <1>4, <1>5, <1>6

LEMMA CallStep == CallSafe /\ [ClientNext]_clientVars => CallSafe'
<1> SUFFICES ASSUME CallSafe, [ClientNext]_clientVars PROVE CallSafe'
  OBVIOUS
<1> USE ClientAssumption
<1>a. attempts \in Try \/ place # "fetching"
  BY DEF CallSafe, AttemptsCount, CallTypes, Try, maxAttempts
<1>b. lastResponse \in Try \cup {NoResponse}
  BY DEF CallSafe, CallTypes
<1>1. ASSUME NEW a \in Try, CarryOut(a) PROVE CallSafe'
  <2>1. UNCHANGED <<place, attempts, timers, lastResponse, outcome, answers>>
    BY <1>1 DEF CarryOut
  <2>2. carriedOut' \subseteq 1 .. attempts
    BY <1>1 DEF CarryOut, CallSafe, CallTypes
  <2>3. timed' \in BOOLEAN /\ cutShort' = FALSE
    BY <1>1, Zenon DEF CallSafe, CarryOut
  <2> QED
    BY <2>1, <2>2, <2>3 DEF CallSafe, CallTypes, AttemptsCount, LastIsRemembered, HasAnswer
<1>2. CASE AnswersBadly
  <2>1. place = "fetching" /\ Catch("bad", attempts, {})
    BY <1>2 DEF AnswersBadly
  <2>2. timed' \in BOOLEAN /\ cutShort' = FALSE
    BY <1>2, Zenon DEF CallSafe, AnswersBadly, Catch
  <2> QED
    BY <1>a, <2>1, <2>2, CatchStep DEF CallSafe
<1>3. CASE FetchFails
  <2>1. place = "fetching" /\ Catch("lost", lastResponse, {})
    BY <1>3 DEF FetchFails
  <2>2. timed' \in BOOLEAN /\ cutShort' = FALSE
    BY <1>3, Zenon DEF CallSafe, FetchFails, Catch
  <2> QED
    BY <1>b, <2>1, <2>2, CatchStep DEF CallSafe
<1>4. ASSUME NEW a \in Try, TimerAborts(a) PROVE CallSafe'
  <2>1. place = "fetching" /\ a \in timers /\ Catch("lost", lastResponse, {a})
    BY <1>4 DEF TimerAborts
  <2>2. a = attempts
    BY <2>1 DEF CallSafe, AttemptsCount
  <2>3. timed' \in BOOLEAN /\ cutShort' = FALSE
    BY <1>4, <2>2, Zenon DEF CallSafe, TimerAborts, Catch
  <2> QED
    BY <1>b, <2>1, <2>3, CatchStep DEF CallSafe
<1>5. CASE UNCHANGED clientVars
  <2>1. timed' \in BOOLEAN /\ cutShort' = FALSE
    BY <1>5, Zenon DEF CallSafe, clientVars
  <2> QED
    BY <1>5, <2>1 DEF clientVars, CallSafe, CallTypes, AttemptsCount, LastIsRemembered, HasAnswer
<1> QED
  BY <1>1, <1>2, <1>3, <1>4, <1>5, BeginTryStep, SucceedsStep DEF ClientNext

LEMMA CallSafety == CallSafe => ClientInv
<1> SUFFICES ASSUME CallSafe PROVE ClientInv
  OBVIOUS
<1> USE ClientAssumption DEF maxAttempts, Try
<1>1. {timed, cutShort} \subseteq BOOLEAN
  BY Zenon DEF CallSafe
<1>2. ClientTypeOK
  <2>1. timers \subseteq Try
    BY DEF CallSafe, CallTypes, AttemptsCount
  <2>2. carriedOut \subseteq Try
    BY DEF CallSafe, CallTypes
  <2> QED
    BY <1>1, <2>1, <2>2 DEF CallSafe, CallTypes, ClientTypeOK
<1>3. TimersAreTheirOwn
  BY DEF CallSafe, TimersAreTheirOwn
<1>4. LastAnswerCounts
  BY DEF CallSafe, CallTypes, LastIsRemembered, HasAnswer, LastAnswerCounts
<1> QED
  BY <1>2, <1>3, <1>4 DEF ClientInv

LEMMA ClientRuns == ClientSpec => ClientInit /\ [][ClientNext]_clientVars
  BY PTL DEF ClientSpec

\* A call of the HTTP client gives the answer of the last attempt that had
\* one, none is aborted by another's timer, and nothing is sent again once an
\* attempt has succeeded, whatever is lost, however often it retries.
THEOREM LastAnswerIsGiven == ClientSpec => []ClientInv
  BY CallStarts, CallStep, CallSafety, ClientRuns, PTL

\* Both clients: what comes from outside is given once and in order.
THEOREM ClientsAreServed == PollSpec /\ ClientSpec => []ClientsInv
<1>1. PollingInv /\ ClientInv => ClientsInv
  BY DEF ClientsInv
<1> QED
  BY <1>1, NoUpdateIsLost, LastAnswerIsGiven, PTL
-----------------------------------------------------------------------------
(***************************************************************************)
(* The server on Node.  A request that is under way has a connection it    *)
(* can be answered on; of two on one connection one is ahead of the other, *)
(* and what comes behind a request that came too late came too late.       *)
(***************************************************************************)
ServerTypes ==
    /\ peer \in [Peer -> {"new", "open", "ended", "gone"}]
    /\ exchange \in [Exchange -> Underway \cup {"new", "answered", "final", "refused", "cut"}]
    /\ via \in [Exchange -> Peer \cup {NoPeer}]
    /\ ahead \in [Exchange -> SUBSET Exchange]
    /\ guillotine \in {"off", "set", "fired"}
    /\ process \in {"running", "exited", "aborted"}
    /\ excused \subseteq Exchange /\ latecomers \subseteq excused

Carried(r) == exchange[r] \in Underway =>
    /\ via[r] \in Peer /\ peer[via[r]] = "open"
    /\ process # "exited"

KeptApart(r) ==
    /\ exchange[r] = "cut" => r \in excused \/ \E q \in ahead[r] : exchange[q] = "final"
    /\ r \in latecomers => exchange[r] \in {"turned", "refused", "cut"}
    /\ exchange[r] = "turned" => r \in latecomers
    /\ exchange[r] = "new" => via[r] = NoPeer

InLine(q, r) ==
    /\ via[q] \in Peer /\ via[q] = via[r] /\ q # r => q \in ahead[r] \/ r \in ahead[q]
    /\ q \in ahead[r] => via[q] # NoPeer /\ (q \in latecomers => r \in latecomers)

ServerSafe ==
    /\ ServerTypes
    /\ \A r \in Exchange : Carried(r) /\ KeptApart(r)
    /\ \A q, r \in Exchange : InLine(q, r)
    /\ down \in BOOLEAN
    /\ ~down => latecomers = {}

LEMMA ServerStarts == ServerInit => ServerSafe
<1> SUFFICES ASSUME ServerInit PROVE ServerSafe
  OBVIOUS
<1> USE ServerAssumption
<1>1. ServerTypes
  BY DEF ServerInit, ServerTypes, Underway
<1>2. \A r \in Exchange : Carried(r) /\ KeptApart(r)
  BY DEF ServerInit, Carried, KeptApart, Underway, Writable
<1>3. down \in BOOLEAN /\ latecomers = {}
  BY Zenon DEF ServerInit
<1>4. \A q, r \in Exchange : InLine(q, r)
  BY DEF ServerInit, InLine
<1> QED
  BY <1>1, <1>2, <1>3, <1>4 DEF ServerSafe

\* What a step that leaves the order of the requests alone has to keep.
LEMMA LineStays ==
    ASSUME ServerSafe, UNCHANGED <<via, ahead, latecomers>>
    PROVE  \A q, r \in Exchange : InLine(q, r)'
  BY DEF ServerSafe, InLine

\* Connections are cut off under the requests they carry.
LEMMA CutOffStep ==
    ASSUME ServerSafe, NEW gone \in SUBSET Peer, CutOff(gone),
           UNCHANGED <<down, via, ahead, latecomers>>,
           guillotine' \in {"off", "set", "fired"},
           process' \in {"running", "aborted"}
    PROVE  ServerSafe'
<1> USE ServerAssumption
<1>1. PICK lost \in SUBSET Exchange :
        /\ lost = UNION {ActiveOn(s) : s \in gone}
        /\ exchange' = [r \in Exchange |-> IF r \in lost THEN "cut" ELSE exchange[r]]
        /\ excused' = excused \cup lost
        /\ peer' = [s \in Peer |-> IF s \in gone THEN "gone" ELSE peer[s]]
  <2> DEFINE all == UNION {ActiveOn(s) : s \in gone}
  <2>1. all \in SUBSET Exchange
    BY DEF ActiveOn
  <2> QED
    BY <2>1 DEF CutOff
<1>2. \A r \in Exchange : r \in lost <=> via[r] \in gone /\ exchange[r] \in Underway
  BY <1>1 DEF ActiveOn
<1>3. ServerTypes'
  BY <1>1 DEF ServerSafe, ServerTypes
<1>4. ASSUME NEW r \in Exchange PROVE Carried(r)' /\ KeptApart(r)'
  <2>1. Carried(r) /\ KeptApart(r) /\ ahead[r] \subseteq Exchange
    BY DEF ServerSafe, ServerTypes
  <2>2. \A q \in Exchange : exchange[q] = "final" => exchange'[q] = "final"
    BY <1>1, <1>2 DEF Underway, Writable
  <2>3. Carried(r)'
    BY <1>1, <1>2, <2>1 DEF Carried, Underway, Writable
  <2> QED
    BY <1>1, <1>2, <2>1, <2>2, <2>3 DEF KeptApart, Underway, Writable
<1>5. down' \in BOOLEAN /\ (~down' => latecomers' = {})
  BY Zenon DEF ServerSafe
<1> QED
  BY <1>3, <1>4, <1>5, LineStays DEF ServerSafe

\* Connections that are made, or ended when nothing is under way on them.
LEMMA PeersStep ==
    ASSUME ServerSafe,
           (\E s \in Peer : Accept(s)) \/ CloseServer
    PROVE  ServerSafe'
<1> USE ServerAssumption
<1>1. UNCHANGED <<exchange, via, ahead, process, excused, latecomers>>
  BY DEF Accept, CloseServer
<1>2. \A s \in Peer : \/ peer'[s] = peer[s]
                      \/ peer[s] = "new" /\ peer'[s] = "open"
                      \/ ActiveOn(s) = {} /\ peer'[s] = "ended"
  BY DEF Accept, CloseServer, ServerSafe, ServerTypes
<1>3. ServerTypes'
  BY <1>1 DEF Accept, CloseServer, ServerSafe, ServerTypes
<1>4. ASSUME NEW r \in Exchange PROVE Carried(r)' /\ KeptApart(r)'
  <2>1. Carried(r) /\ KeptApart(r)
    BY DEF ServerSafe
  <2> QED
    BY <1>1, <1>2, <2>1 DEF Carried, KeptApart, ActiveOn
<1>5. down' \in BOOLEAN /\ (~down' => latecomers' = {})
  BY Zenon DEF ServerSafe, Accept, CloseServer
<1> QED
  BY <1>1, <1>3, <1>4, <1>5, LineStays DEF ServerSafe

\* A request joins the line of its connection.
LEMMA ComesStep ==
    ASSUME ServerSafe, NEW r \in Exchange, NEW s \in Peer, exchange[r] = "new", Comes(r, s),
           \/ ~down /\ latecomers' = latecomers
           \/ latecomers' = latecomers \cup {r}
    PROVE  \A q, x \in Exchange : InLine(q, x)'
<1> USE ServerAssumption
<1>1. via[r] = NoPeer /\ (~down => latecomers = {})
  BY DEF ServerSafe, KeptApart
<1>2. /\ via' = [via EXCEPT ![r] = s]
      /\ ahead' = [ahead EXCEPT ![r] = {q \in Exchange : via[q] = s}]
  BY DEF Comes
<1>3. ServerTypes
  BY DEF ServerSafe
<1> TAKE q, x \in Exchange
<1>4. InLine(q, x) /\ InLine(r, x)
  BY DEF ServerSafe
<1>5. CASE x = r
  <2>1. ahead'[x] = {y \in Exchange : via[y] = s} /\ via'[x] = s
    BY <1>2, <1>3, <1>5 DEF ServerTypes
  <2>2. q # r => via'[q] = via[q]
    BY <1>2, <1>3 DEF ServerTypes
  <2> QED
    BY <1>1, <1>3, <1>5, <2>1, <2>2 DEF InLine, ServerTypes
<1>6. CASE x # r
  <2>1. ahead'[x] = ahead[x] /\ via'[x] = via[x]
    BY <1>2, <1>3, <1>6 DEF ServerTypes
  <2>2. CASE q = r
    <3>1. r \notin ahead[x]
      BY <1>1, <1>4 DEF InLine
    <3>2. via'[r] = s /\ ahead'[r] = {y \in Exchange : via[y] = s}
      BY <1>2, <1>3 DEF ServerTypes
    <3> QED
      BY <2>1, <2>2, <3>1, <3>2 DEF InLine
  <2>3. CASE q # r
    <3>1. via'[q] = via[q] /\ ahead'[q] = ahead[q]
      BY <1>2, <1>3, <2>3 DEF ServerTypes
    <3> QED
      BY <1>1, <1>4, <1>6, <2>1, <2>3, <3>1 DEF InLine
  <2> QED
    BY <2>2, <2>3
<1> QED
  BY <1>5, <1>6

LEMMA ArriveStep ==
    ASSUME ServerSafe, NEW r \in Exchange, NEW s \in Peer, Arrive(r, s) \/ ArriveLate(r, s)
    PROVE  ServerSafe'
<1> USE ServerAssumption DEF Goes
<1>1. \E to \in {"body", "turned", "cut"} :
        /\ exchange' = [exchange EXCEPT ![r] = to] /\ exchange[r] = "new" /\ process = "running"
        /\ to # "cut" => peer[s] = "open"
        /\ to = "body" => ~down /\ UNCHANGED <<excused, latecomers>>
        /\ to # "body" => /\ down /\ excused' = excused \cup {r}
                          /\ latecomers' = latecomers \cup {r}
  BY Zenon DEF Arrive, ArriveLate
<1>2. PICK to \in {"body", "turned", "cut"} :
        /\ exchange' = [exchange EXCEPT ![r] = to] /\ exchange[r] = "new" /\ process = "running"
        /\ to # "cut" => peer[s] = "open"
        /\ to = "body" => ~down /\ UNCHANGED <<excused, latecomers>>
        /\ to # "body" => /\ down /\ excused' = excused \cup {r}
                          /\ latecomers' = latecomers \cup {r}
  BY <1>1
<1>3. Comes(r, s) /\ UNCHANGED <<down, peer, guillotine, process>>
  BY DEF Arrive, ArriveLate
<1>4. ServerTypes
  BY DEF ServerSafe
<1>5. \A q, x \in Exchange : InLine(q, x)'
  BY <1>2, <1>3, ComesStep
<1>6. ServerTypes'
  BY <1>2, <1>3, <1>4 DEF ServerTypes, Comes, Underway, Writable
<1>7. /\ via'[r] = s /\ exchange'[r] = to
      /\ \A q \in Exchange \ {r} : /\ via'[q] = via[q] /\ ahead'[q] = ahead[q]
                                   /\ exchange'[q] = exchange[q]
  BY <1>2, <1>3, <1>4 DEF ServerTypes, Comes
<1>8. ASSUME NEW q \in Exchange PROVE Carried(q)' /\ KeptApart(q)'
  <2>1. Carried(q) /\ KeptApart(q) /\ KeptApart(r) /\ ahead[q] \subseteq Exchange
    BY <1>4 DEF ServerSafe, ServerTypes
  <2>2. CASE q = r
    <3>1. Carried(r)'
      BY <1>2, <1>3, <1>7 DEF Carried, Underway, Writable
    <3>2. r \in latecomers => FALSE
      BY <1>2, <2>1 DEF KeptApart
    <3>3. to = "body" => r \notin latecomers'
      BY <1>2, <3>2
    <3>4. to # "body" => r \in latecomers' /\ r \in excused'
      BY <1>2
    <3> QED
      BY <1>2, <1>7, <2>2, <3>1, <3>3, <3>4 DEF KeptApart
  <2>3. CASE q # r
    <3>1. Carried(q)'
      BY <1>3, <1>7, <2>1, <2>3 DEF Carried
    <3>2. \A x \in Exchange : exchange[x] = "final" => exchange'[x] = "final"
      BY <1>2, <1>7
    <3>3. excused \subseteq excused' /\ (q \in latecomers' <=> q \in latecomers)
      BY <1>2, <2>3
    <3> QED
      BY <1>7, <2>1, <2>3, <3>1, <3>2, <3>3 DEF KeptApart
  <2> QED
    BY <2>2, <2>3
<1>9. down' \in BOOLEAN /\ (~down' => latecomers' = {})
  <2>1. down \in BOOLEAN /\ down' = down /\ (~down => latecomers = {})
    BY <1>3, Zenon DEF ServerSafe
  <2>2. CASE to = "body"
    BY <1>2, <2>1, <2>2, Zenon
  <2>3. CASE to # "body"
    BY <1>2, <2>1, <2>3, Zenon
  <2> QED
    BY <2>2, <2>3
<1> QED
  BY <1>5, <1>6, <1>8, <1>9 DEF ServerSafe

\* The response that is next on its connection is written.
LEMMA FinishStep ==
    ASSUME ServerSafe, NEW r \in Exchange, Finish(r) PROVE ServerSafe'
<1> USE ServerAssumption
<1> DEFINE behind == ActiveOn(via[r]) \ {r}
           last == exchange[r] # "keep"
<1>1. /\ process = "running" /\ IsNextOut(r)
      /\ exchange' = [q \in Exchange |-> IF q = r THEN Outcome(r)
                                        ELSE IF last /\ q \in behind THEN "cut" ELSE exchange[q]]
      /\ peer' = [peer EXCEPT ![via[r]] = IF last \/ (down /\ behind = {}) THEN "ended" ELSE @]
      /\ UNCHANGED <<down, via, ahead, guillotine, process, excused, latecomers>>
  BY DEF Finish
<1>2. ServerTypes /\ Carried(r) /\ KeptApart(r) /\ exchange[r] \in Writable
  BY <1>1 DEF ServerSafe, IsNextOut
<1>3. via[r] \in Peer /\ peer[via[r]] = "open"
  BY <1>2 DEF Carried, Underway
<1>4. /\ exchange[r] = "keep" => Outcome(r) = "answered"
      /\ exchange[r] = "close" => Outcome(r) = "final"
      /\ exchange[r] = "turned" => Outcome(r) = "refused"
  BY <1>3 DEF Outcome
<1>5. Outcome(r) \in {"answered", "final", "refused"}
  BY <1>2, <1>4 DEF Writable
<1>6. ServerTypes'
  BY <1>1, <1>2, <1>5 DEF ServerTypes
<1>7. \A q \in Exchange : q \in behind <=> q # r /\ via[q] = via[r] /\ exchange[q] \in Underway
  BY DEF ActiveOn
<1>8. \A q \in Exchange : exchange[q] = "final" => exchange'[q] = "final"
  BY <1>1, <1>2, <1>7 DEF Underway, Writable
<1>9. ASSUME NEW q \in behind
      PROVE  r \in ahead[q]
  <2>1. InLine(q, r) /\ q \in Exchange
    BY <1>7 DEF ServerSafe, ActiveOn
  <2>2. q \notin ahead[r]
    BY <1>1, <1>7, <2>1 DEF IsNextOut
  <2> QED
    BY <1>3, <1>7, <2>1, <2>2 DEF InLine
<1>10. ASSUME NEW q \in Exchange PROVE Carried(q)' /\ KeptApart(q)'
  <2>1. Carried(q) /\ KeptApart(q) /\ ahead[q] \subseteq Exchange
    BY <1>2 DEF ServerSafe, ServerTypes
  <2>2. CASE q = r
    <3>1. exchange'[q] = Outcome(r)
      BY <1>1, <2>2
    <3>2. Carried(q)'
      BY <1>5, <3>1 DEF Carried, Underway, Writable
    <3>3. r \in latecomers => exchange[r] = "turned"
      BY <1>2 DEF KeptApart, Writable
    <3> QED
      BY <1>1, <1>4, <1>5, <2>2, <3>1, <3>2, <3>3 DEF KeptApart
  <2>3. CASE q # r /\ last /\ q \in behind
    <3>1. exchange'[q] = "cut"
      BY <1>1, <2>3
    <3>2. Carried(q)'
      BY <3>1 DEF Carried, Underway, Writable
    <3>3. CASE exchange[r] = "close"
      <4>1. exchange'[r] = "final"
        BY <1>1, <1>4, <3>3
      <4> QED
        BY <1>1, <1>9, <2>3, <3>1, <3>2, <4>1 DEF KeptApart
    <3>4. CASE exchange[r] = "turned"
      <4>1. r \in latecomers /\ InLine(r, q)
        BY <1>2, <3>4 DEF KeptApart, ServerSafe
      <4>2. q \in excused
        BY <1>2, <1>9, <2>3, <4>1 DEF InLine, ServerTypes
      <4> QED
        BY <1>1, <3>1, <3>2, <4>2 DEF KeptApart
    <3> QED
      BY <1>2, <2>3, <3>3, <3>4 DEF Writable
  <2>4. CASE q # r /\ ~(last /\ q \in behind)
    <3>1. exchange'[q] = exchange[q]
      BY <1>1, <2>4
    <3>2. Carried(q)'
      <4>1. CASE via[q] = via[r] /\ exchange[q] \in Underway
        <5>1. q \in behind /\ ~last
          BY <1>7, <2>4, <4>1
        <5>2. peer'[via[r]] = peer[via[r]]
          BY <1>1, <1>2, <1>3, <5>1 DEF ServerTypes
        <5> QED
          BY <1>1, <2>1, <3>1, <4>1, <5>2 DEF Carried
      <4>2. CASE ~(via[q] = via[r] /\ exchange[q] \in Underway)
        <5>1. exchange[q] \in Underway => peer'[via[q]] = peer[via[q]]
          BY <1>1, <1>2, <2>1, <4>2 DEF ServerTypes, Carried
        <5> QED
          BY <1>1, <2>1, <3>1, <5>1 DEF Carried
      <4> QED
        BY <4>1, <4>2
    <3> QED
      BY <1>1, <1>8, <2>1, <3>1, <3>2 DEF KeptApart
  <2> QED
    BY <2>2, <2>3, <2>4
<1>11. down' \in BOOLEAN /\ (~down' => latecomers' = {})
  BY <1>1, Zenon DEF ServerSafe
<1> QED
  BY <1>1, <1>6, <1>10, <1>11, LineStays DEF ServerSafe

\* A request goes on, or the connection breaks under it.
LEMMA ExchangeStep ==
    ASSUME ServerSafe, NEW r \in Exchange,
           ReadBody(r) \/ Respond(r) \/ RejectBody(r) \/ BreakOff(r)
    PROVE  ServerSafe'
<1> USE ServerAssumption DEF Goes
<1>1. CASE \E to \in {"kernel", "keep", "close"} :
             /\ exchange[r] \in {"body", "kernel"} /\ exchange' = [exchange EXCEPT ![r] = to]
             /\ UNCHANGED <<down, peer, via, ahead, guillotine, process, excused, latecomers>>
  <2>1. PICK to \in {"kernel", "keep", "close"} :
             /\ exchange[r] \in {"body", "kernel"} /\ exchange' = [exchange EXCEPT ![r] = to]
             /\ UNCHANGED <<down, peer, via, ahead, guillotine, process, excused, latecomers>>
    BY <1>1
  <2>3. ServerTypes'
    BY <2>1 DEF ServerSafe, ServerTypes, Underway, Writable
  <2>4. ASSUME NEW q \in Exchange PROVE Carried(q)' /\ KeptApart(q)'
    <3>1. Carried(q) /\ KeptApart(q) /\ ServerTypes /\ ahead[q] \subseteq Exchange
      BY DEF ServerSafe, ServerTypes
    <3>2. \A x \in Exchange : exchange[x] = "final" => exchange'[x] = "final"
      BY <2>1, <3>1 DEF ServerTypes
    <3>3. CASE q = r
      <4>1. exchange'[q] = to /\ q \notin latecomers /\ exchange[q] \in Underway
        BY <2>1, <3>1, <3>3 DEF ServerTypes, KeptApart, Underway
      <4> QED
        BY <2>1, <3>1, <4>1 DEF Carried, KeptApart
    <3>4. CASE q # r
      <4>1. exchange'[q] = exchange[q]
        BY <2>1, <3>1, <3>4 DEF ServerTypes
      <4> QED
        BY <2>1, <3>1, <3>2, <4>1 DEF Carried, KeptApart
    <3> QED
      BY <3>3, <3>4
  <2>5. down' \in BOOLEAN /\ (~down' => latecomers' = {})
    BY <2>1, Zenon DEF ServerSafe
  <2> QED
    BY <2>1, <2>3, <2>4, <2>5, LineStays DEF ServerSafe
<1>2. CASE /\ CutOff({via[r]}) /\ exchange[r] \in Underway /\ process = "running"
           /\ UNCHANGED <<down, via, ahead, guillotine, process, latecomers>>
  <2>1. {via[r]} \in SUBSET Peer
    BY <1>2 DEF ServerSafe, Carried
  <2> QED
    BY <1>2, <2>1, CutOffStep DEF ServerSafe, ServerTypes
<1>3. CASE ReadBody(r) \/ Respond(r)
  BY <1>1, <1>3 DEF ReadBody, Respond
<1>4. CASE RejectBody(r)
  BY <1>1, <1>2, <1>4 DEF RejectBody, Underway
<1>5. CASE BreakOff(r)
  BY <1>2, <1>5 DEF BreakOff, IsNextOut, Underway
<1> QED
  BY <1>3, <1>4, <1>5

LEMMA ServerStep == ServerSafe /\ [ServerNext]_serverVars => ServerSafe'
<1> SUFFICES ASSUME ServerSafe, [ServerNext]_serverVars PROVE ServerSafe'
  OBVIOUS
<1> USE ServerAssumption
<1>a. guillotine \in {"off", "set", "fired"} /\ Connected \in SUBSET Peer
  BY DEF ServerSafe, ServerTypes, Connected
<1>1. ASSUME NEW s \in Peer, PeerLeaves(s) PROVE ServerSafe'
  BY <1>1, <1>a, CutOffStep DEF PeerLeaves
<1>2. CASE TimerFires
  BY <1>2, <1>a, CutOffStep DEF TimerFires
<1>3. CASE SecondSignal
  BY <1>3, <1>a, CutOffStep DEF SecondSignal
<1>4. CASE Closes
  <2>1. /\ Connected = {} /\ process' = "exited"
        /\ UNCHANGED <<down, peer, exchange, via, ahead, guillotine, excused, latecomers>>
    BY <1>4 DEF Closes
  <2>2. ASSUME NEW r \in Exchange PROVE exchange[r] \notin Underway
    <3>1. Carried(r)
      BY DEF ServerSafe
    <3> QED
      BY <2>1, <3>1 DEF Carried, Connected
  <2>3. down' \in BOOLEAN /\ (~down' => latecomers' = {})
    BY <2>1, Zenon DEF ServerSafe
  <2>4. \A r \in Exchange : Carried(r)' /\ KeptApart(r)'
    BY <2>1, <2>2 DEF ServerSafe, Carried, KeptApart
  <2>5. ServerTypes'
    BY <2>1 DEF ServerSafe, ServerTypes
  <2> QED
    BY <2>1, <2>3, <2>4, <2>5, LineStays DEF ServerSafe
<1>5. CASE UNCHANGED serverVars
  <2>1. down' \in BOOLEAN /\ (~down' => latecomers' = {})
    BY <1>5, Zenon DEF ServerSafe, serverVars
  <2>2. \A r \in Exchange : Carried(r)' /\ KeptApart(r)'
    BY <1>5 DEF serverVars, ServerSafe, Carried, KeptApart
  <2>3. ServerTypes'
    BY <1>5 DEF serverVars, ServerSafe, ServerTypes
  <2> QED
    BY <1>5, <2>1, <2>2, <2>3, LineStays DEF serverVars, ServerSafe
<1> QED
  BY <1>1, <1>2, <1>3, <1>4, <1>5, PeersStep, ArriveStep, FinishStep, ExchangeStep DEF ServerNext

LEMMA ServerRuns == ServerSpec => ServerInit /\ [][ServerNext]_serverVars
  BY PTL DEF ServerSpec

\* What was under way when the server was told to close is answered, but for
\* what is pipelined behind a response that says close, and nothing that comes
\* later is, whoever shares a connection with whom.
THEOREM ServersDrain == ServerSpec => []ServerInv
<1>1. ServerSafe => ServerInv
  <2> SUFFICES ASSUME ServerSafe PROVE ServerInv
    OBVIOUS
  <2>1. down \in BOOLEAN
    BY Zenon DEF ServerSafe
  <2>2. ServerTypeOK
    BY <2>1 DEF ServerSafe, ServerTypes, ServerTypeOK
  <2>3. RequestsDrain /\ NothingNewIsServed
    BY DEF ServerSafe, ServerTypes, Carried, KeptApart, RequestsDrain, NothingNewIsServed
  <2> QED
    BY <2>2, <2>3 DEF ServerInv
<1> QED
  BY <1>1, ServerStarts, ServerStep, ServerRuns, PTL
-----------------------------------------------------------------------------
(***************************************************************************)
(* The server on Bun.  While calls of close() wait, either there is one    *)
(* and the drain would wake it, or each of them was overlapped.            *)
(***************************************************************************)
Handling == {v \in Visit : visit[v] = "handling"}

BunTypes ==
    /\ visit \in [Visit -> {"new", "handling", "served", "cut"}]
    /\ IsFiniteSet(Handling) /\ inflight = Cardinality(Handling)
    /\ closer \in [Closer -> {"new", "waiting", "returned"}]
    /\ drainResolve \in Closer \cup {NoCloser}
    /\ bun \in {"serving", "stopped", "exited"}
    /\ overlapped \subseteq Closer

ClosersKnown ==
    /\ \A c, d \in WaitingClosers : c # d => c \in overlapped
    /\ \A c \in WaitingClosers \ overlapped : inflight > 0 /\ drainResolve = c

BunSafe ==
    /\ BunTypes /\ ClosersKnown
    /\ listening => \A c \in Closer : closer[c] = "new"
    /\ listening => drainResolve = NoCloser
    /\ listening \in BOOLEAN

LEMMA BunStarts == BunInit => BunSafe
<1> SUFFICES ASSUME BunInit PROVE BunSafe
  OBVIOUS
<1> USE DEF BunInit
<1>1. Handling = {}
  BY DEF Handling
<1>2. BunTypes
  BY <1>1, FS_EmptySet DEF BunTypes
<1>3. ClosersKnown /\ drainResolve = NoCloser /\ \A c \in Closer : closer[c] = "new"
  BY DEF ClosersKnown, WaitingClosers
<1>4. listening \in BOOLEAN
  BY Zenon
<1> QED
  BY <1>2, <1>3, <1>4 DEF BunSafe

\* A waiting close() is woken, be it by the last request or by its timer.
LEMMA ResumeStep ==
    ASSUME BunSafe, NEW c \in Closer, Resume(c),
           c \in WaitingClosers \/ WaitingClosers \subseteq overlapped
    PROVE  /\ closer' \in [Closer -> {"new", "waiting", "returned"}]
           /\ WaitingClosers' \subseteq WaitingClosers
           /\ WaitingClosers' \subseteq overlapped
           /\ ~(\A d \in Closer : closer'[d] = "new")
<1>1. closer' = [closer EXCEPT ![c] = "returned"]
  BY DEF Resume
<1>2. closer \in [Closer -> {"new", "waiting", "returned"}] /\ ClosersKnown
  BY DEF BunSafe, BunTypes
<1> QED
  BY <1>1, <1>2 DEF ClosersKnown, WaitingClosers

LEMMA FetchStep == ASSUME BunSafe, NEW v \in Visit, Fetch(v) PROVE BunSafe'
<1>1. /\ visit[v] = "new" /\ visit' = [visit EXCEPT ![v] = "handling"]
      /\ inflight' = inflight + 1
      /\ UNCHANGED <<closer, drainResolve, listening, bun, overlapped>>
  BY DEF Fetch
<1>2. BunTypes /\ inflight \in Nat
  BY FS_CardinalityType DEF BunSafe, BunTypes
<1>3. Handling' = Handling \cup {v} /\ v \notin Handling
  BY <1>1, <1>2 DEF Handling, BunTypes
<1>4. IsFiniteSet(Handling') /\ inflight' = Cardinality(Handling')
  BY <1>1, <1>2, <1>3, FS_AddElement DEF BunTypes
<1>5. BunTypes'
  BY <1>1, <1>2, <1>4 DEF BunTypes
<1>6. ClosersKnown'
  BY <1>1, <1>2 DEF BunSafe, ClosersKnown, WaitingClosers
<1>7. listening' \in BOOLEAN
  BY <1>1, Zenon DEF BunSafe
<1>8. listening' => drainResolve' = NoCloser /\ \A c \in Closer : closer'[c] = "new"
  BY <1>1 DEF BunSafe
<1> QED
  BY <1>5, <1>6, <1>7, <1>8 DEF BunSafe

LEMMA RequestSettledStep == ASSUME BunSafe, NEW v \in Visit, RequestSettled(v) PROVE BunSafe'
<1> USE BunAssumption
<1>1. /\ visit[v] = "handling" /\ visit' = [visit EXCEPT ![v] = "served"]
      /\ inflight' = inflight - 1
      /\ UNCHANGED <<listening, overlapped>>
  BY DEF RequestSettled
<1>2. BunTypes /\ inflight \in Nat
  BY FS_CardinalityType DEF BunSafe, BunTypes
<1>3. Handling' = Handling \ {v} /\ v \in Handling
  BY <1>1, <1>2 DEF Handling, BunTypes
<1>4. IsFiniteSet(Handling') /\ inflight' = Cardinality(Handling') /\ inflight' \in Nat
  <2>1. /\ IsFiniteSet(Handling \ {v})
        /\ Cardinality(Handling \ {v}) = Cardinality(Handling) - 1
    BY <1>2, <1>3, FS_RemoveElement DEF BunTypes
  <2>2. Cardinality(Handling \ {v}) \in Nat
    BY <2>1, FS_CardinalityType
  <2> QED
    BY <1>1, <1>2, <1>3, <2>1, <2>2 DEF BunTypes
<1>5. listening' \in BOOLEAN
  BY <1>1, Zenon DEF BunSafe
<1>6. CASE inflight = 1 /\ drainResolve # NoCloser
  <2>1. drainResolve \in Closer /\ Resume(drainResolve)
    BY <1>2, <1>6 DEF RequestSettled, BunTypes
  <2>2. drainResolve \in WaitingClosers \/ WaitingClosers \subseteq overlapped
    BY DEF BunSafe, ClosersKnown
  <2>3. /\ closer' \in [Closer -> {"new", "waiting", "returned"}]
        /\ WaitingClosers' \subseteq overlapped
        /\ ~(\A d \in Closer : closer'[d] = "new")
    BY <2>1, <2>2, ResumeStep
  <2>4. BunTypes'
    BY <1>1, <1>2, <1>4, <2>1, <2>3 DEF BunTypes, Resume
  <2>5. ClosersKnown'
    BY <1>1, <2>3 DEF ClosersKnown
  <2>6. ~listening'
    <3>1. ~listening
      BY <1>6 DEF BunSafe
    <3> QED
      BY <1>1, <3>1
  <2> QED
    BY <1>5, <2>4, <2>5, <2>6 DEF BunSafe
<1>7. CASE ~(inflight = 1 /\ drainResolve # NoCloser)
  <2>1. UNCHANGED <<closer, drainResolve, bun>>
    BY <1>7 DEF RequestSettled
  <2>2. BunTypes'
    BY <1>1, <1>2, <1>4, <2>1 DEF BunTypes
  <2>3. ClosersKnown'
    BY <1>1, <1>2, <1>4, <1>7, <2>1 DEF BunSafe, ClosersKnown, WaitingClosers, BunTypes
  <2>4. listening' => drainResolve' = NoCloser /\ \A c \in Closer : closer'[c] = "new"
    BY <1>1, <2>1 DEF BunSafe
  <2> QED
    BY <1>5, <2>2, <2>3, <2>4 DEF BunSafe
<1> QED
  BY <1>6, <1>7

LEMMA CloseBunStep == ASSUME BunSafe, NEW c \in Closer, CloseBun(c) PROVE BunSafe'
<1> USE BunAssumption
<1>1. /\ closer[c] = "new" /\ listening' = FALSE
      /\ UNCHANGED <<visit, inflight>>
  BY DEF CloseBun
<1>2. BunTypes /\ inflight \in Nat
  BY FS_CardinalityType DEF BunSafe, BunTypes
<1>3. Handling' = Handling
  BY <1>1 DEF Handling
<1>4. listening' \in BOOLEAN /\ ~listening'
  BY <1>1, Zenon
<1>5. CASE inflight > 0
  <2>1. /\ closer' = [closer EXCEPT ![c] = "waiting"] /\ drainResolve' = c
        /\ UNCHANGED bun
        /\ overlapped' = overlapped \cup
               (IF WaitingClosers # {} THEN WaitingClosers \cup {c} ELSE {})
    BY <1>5 DEF CloseBun
  <2>2. WaitingClosers' = WaitingClosers \cup {c} /\ WaitingClosers \subseteq Closer
    BY <1>1, <1>2, <2>1 DEF WaitingClosers, BunTypes
  <2>3. BunTypes'
    BY <1>1, <1>2, <1>3, <2>1, <2>2 DEF BunTypes
  <2>4. ClosersKnown'
    BY <1>1, <1>5, <2>1, <2>2 DEF BunSafe, ClosersKnown
  <2> QED
    BY <1>4, <2>3, <2>4 DEF BunSafe
<1>6. CASE ~(inflight > 0)
  <2>1. /\ closer' = [closer EXCEPT ![c] = "returned"] /\ bun' = "stopped"
        /\ UNCHANGED drainResolve /\ overlapped' = overlapped
    BY <1>6 DEF CloseBun
  <2>2. WaitingClosers' = WaitingClosers
    BY <1>1, <1>2, <2>1 DEF WaitingClosers, BunTypes
  <2>3. BunTypes'
    BY <1>1, <1>2, <1>3, <2>1 DEF BunTypes
  <2>4. ClosersKnown'
    BY <1>1, <2>1, <2>2 DEF BunSafe, ClosersKnown
  <2> QED
    BY <1>4, <2>3, <2>4 DEF BunSafe
<1> QED
  BY <1>5, <1>6

LEMMA BunStep == BunSafe /\ [BunNext]_bunVars => BunSafe'
<1> SUFFICES ASSUME BunSafe, [BunNext]_bunVars PROVE BunSafe'
  OBVIOUS
<1>1. ASSUME NEW c \in Closer, GiveUpWaiting(c) PROVE BunSafe'
  <2>1. c \in WaitingClosers /\ Resume(c) /\ UNCHANGED <<visit, inflight, listening, overlapped>>
    BY <1>1 DEF GiveUpWaiting
  <2>2. /\ closer' \in [Closer -> {"new", "waiting", "returned"}]
        /\ WaitingClosers' \subseteq overlapped
    BY <2>1, ResumeStep
  <2>3. Handling' = Handling
    BY <2>1 DEF Handling
  <2>4. BunTypes'
    BY <2>1, <2>2, <2>3 DEF BunSafe, BunTypes, Resume
  <2>5. ClosersKnown'
    BY <2>1, <2>2 DEF ClosersKnown
  <2>6. ~listening
    BY <2>1 DEF BunSafe, WaitingClosers
  <2>7. listening' \in BOOLEAN /\ ~listening'
    BY <2>1, <2>6, Zenon DEF BunSafe
  <2> QED
    BY <2>4, <2>5, <2>7 DEF BunSafe
<1>2. CASE SignalBun
  <2>1. /\ listening /\ bun' = "exited" /\ inflight' = 0
        /\ visit' = [v \in Visit |-> IF visit[v] = "handling" THEN "cut" ELSE visit[v]]
        /\ UNCHANGED <<closer, drainResolve, listening, overlapped>>
    BY <1>2 DEF SignalBun
  <2>2. Handling' = {}
    BY <2>1 DEF Handling
  <2>3. BunTypes'
    BY <2>1, <2>2, FS_EmptySet DEF BunSafe, BunTypes
  <2>4. ClosersKnown'
    BY <2>1 DEF BunSafe, ClosersKnown, WaitingClosers
  <2>5. listening' \in BOOLEAN
    BY <2>1, Zenon DEF BunSafe
  <2>6. drainResolve' = NoCloser /\ \A c \in Closer : closer'[c] = "new"
    BY <2>1 DEF BunSafe
  <2> QED
    BY <2>3, <2>4, <2>5, <2>6 DEF BunSafe
<1>3. CASE UNCHANGED bunVars
  <2>1. listening' \in BOOLEAN
    BY <1>3, Zenon DEF BunSafe, bunVars
  <2>2. BunTypes' /\ ClosersKnown'
    BY <1>3 DEF bunVars, BunSafe, BunTypes, Handling, ClosersKnown, WaitingClosers
  <2> QED
    BY <1>3, <2>1, <2>2 DEF bunVars, BunSafe
<1> QED
  BY <1>1, <1>2, <1>3, FetchStep, RequestSettledStep, CloseBunStep DEF BunNext

\* A close() of the server on Bun waits for the requests in flight and, unless
\* another close() overlapped it, no longer, for any number of either.
THEOREM ClosersComeBack == BunSpec => []BunInv
<1>1. BunSafe => BunInv
  <2> SUFFICES ASSUME BunSafe PROVE BunInv
    OBVIOUS
  <2>1. listening \in BOOLEAN
    BY Zenon DEF BunSafe
  <2> QED
    BY <2>1 DEF BunSafe, BunTypes, Handling, ClosersKnown, BunInv, BunTypeOK, ClosersAreWoken
<1> QED
  BY <1>1, BunStarts, BunStep, PTL DEF BunSpec

\* Both servers: requests in flight when one is to close are answered, but on
\* Node for those behind a response that ends the connection.
THEOREM ServersAnswer == ServerSpec /\ BunSpec => []ServersInv
<1>1. ServerInv /\ BunInv => ServersInv
  BY DEF ServersInv
<1> QED
  BY <1>1, ServersDrain, ClosersComeBack, PTL
-----------------------------------------------------------------------------
(***************************************************************************)
(* The providers of the application.  A hook has run as often as starts    *)
(* got past it; a lazy provider that somebody began to boot is ready, is   *)
(* broken, or is the one a call under way is at.                           *)
(***************************************************************************)

BootTypes ==
    /\ starter \in [Starter -> 0 .. 2 * Providers + 1]
    /\ hooked \in [Hooks -> Nat]

BootFlags == booted \in BOOLEAN /\ bootTrouble \in BOOLEAN

Beyond(h) == {b \in Starter : starter[b] > h}

RunOnce ==
    /\ \A b, c \in Starting : b = c
    /\ booted => Starting = {}
    /\ \A h \in Hooks : hooked[h] <= 1
    /\ ~booted => \A h \in Hooks : (\A b \in Starting : h >= starter[b]) => hooked[h] = 0

BootSafe ==
    /\ BootTypes /\ BootFlags
    /\ \A h \in Hooks : hooked[h] <= Cardinality(Beyond(h))
    /\ \A b \in Starting : \A h \in Hooks : h < starter[b] => hooked[h] > 0
    /\ booted => \A h \in Hooks : hooked[h] > 0
    /\ ~bootTrouble => RunOnce

LEMMA BootStarts == ProvidersInit => BootSafe
<1> SUFFICES ASSUME ProvidersInit PROVE BootSafe
  OBVIOUS
<1> USE ProvidersAssumption DEF ProvidersInit, Hooks
<1>1. BootTypes
  BY DEF BootTypes
<1>2. BootFlags
  BY Zenon DEF BootFlags
<1>3. Starting = {}
  BY DEF Starting
<1>4. ASSUME NEW h \in Hooks PROVE hooked[h] = 0 /\ hooked[h] <= Cardinality(Beyond(h))
  <2>1. Beyond(h) = {}
    BY DEF Beyond
  <2> QED
    BY <2>1, FS_EmptySet
<1>5. RunOnce
  BY <1>3, <1>4 DEF RunOnce
<1> QED
  BY <1>1, <1>2, <1>3, <1>4, <1>5 DEF BootSafe

LEMMA StartAppStep == ASSUME BootSafe, NEW b \in Starter, StartApp(b) PROVE BootSafe'
<1> USE ProvidersAssumption DEF Hooks
<1>1. starter[b] = 0 /\ UNCHANGED <<booted, hooked>>
  BY DEF StartApp
<1>2. BootTypes /\ BootFlags
  BY DEF BootSafe
<1>3. PICK to \in {1, 2 * Providers + 1} :
        /\ starter' = [starter EXCEPT ![b] = to]
        /\ to = 1 <=> ~booted
  <2>1. 2 * Providers + 1 # 1
    OBVIOUS
  <2> QED
    BY <2>1 DEF StartApp
<1>4. BootTypes'
  BY <1>1, <1>2, <1>3 DEF BootTypes
<1>5. BootFlags'
  <2>1. bootTrouble' \in BOOLEAN
    <3>1. CASE booted
      BY <1>2, <3>1, Zenon DEF StartApp, BootFlags
    <3>2. CASE ~booted
      <4>1. bootTrouble' = (bootTrouble \/ Starting # {})
        BY <3>2 DEF StartApp
      <4> QED
        BY <4>1, Zenon
    <3> QED
      BY <3>1, <3>2
  <2> QED
    BY <1>1, <1>2, <2>1, Zenon DEF BootFlags
<1>6. ASSUME NEW h \in Hooks PROVE hooked'[h] <= Cardinality(Beyond(h)')
  <2>1. Beyond(h) \subseteq Beyond(h)' /\ Beyond(h)' \subseteq Starter
    BY <1>1, <1>2, <1>3 DEF Beyond, BootTypes
  <2>2. IsFiniteSet(Beyond(h)')
    BY <2>1, FS_Subset
  <2>3. /\ Cardinality(Beyond(h)) <= Cardinality(Beyond(h)')
        /\ Cardinality(Beyond(h)) \in Nat /\ Cardinality(Beyond(h)') \in Nat
    BY <2>1, <2>2, FS_Subset, FS_CardinalityType
  <2>4. hooked[h] \in Nat /\ hooked[h] <= Cardinality(Beyond(h))
    BY DEF BootSafe, BootTypes
  <2> QED
    BY <1>1, <2>3, <2>4
<1>7. ASSUME NEW c \in Starting' PROVE \A h \in Hooks : h < starter'[c] => hooked'[h] > 0
  BY <1>1, <1>2, <1>3 DEF BootSafe, BootTypes, Starting
<1>8. ~bootTrouble' => RunOnce'
  <2> SUFFICES ASSUME ~bootTrouble' PROVE RunOnce'
    OBVIOUS
  <2>1. ~bootTrouble /\ (~booted => Starting = {})
    BY DEF StartApp
  <2>2. RunOnce
    BY <2>1 DEF BootSafe
  <2>3. Starting' = IF booted THEN Starting ELSE {b}
    BY <1>1, <1>2, <1>3, <2>1 DEF Starting, BootTypes
  <2> QED
    BY <1>1, <1>2, <1>3, <2>1, <2>2, <2>3 DEF RunOnce, BootTypes
<1>9. booted' => \A h \in Hooks : hooked'[h] > 0
  BY <1>1 DEF BootSafe
<1> QED
  BY <1>4, <1>5, <1>6, <1>7, <1>8, <1>9 DEF BootSafe

LEMMA HookFailsStep == ASSUME BootSafe, NEW b \in Starter, HookFails(b) PROVE BootSafe'
<1> USE ProvidersAssumption DEF Hooks
<1>1. /\ starter[b] \in Hooks /\ starter' = [starter EXCEPT ![b] = 2 * Providers + 1]
      /\ bootTrouble' = TRUE /\ UNCHANGED <<booted, hooked>>
  BY DEF HookFails
<1>2. BootTypes /\ BootFlags
  BY DEF BootSafe
<1>3. BootTypes'
  BY <1>1, <1>2 DEF BootTypes
<1>4. BootFlags'
  BY <1>1, <1>2, Zenon DEF BootFlags
<1>5. ASSUME NEW h \in Hooks PROVE hooked'[h] <= Cardinality(Beyond(h)')
  <2>1. Beyond(h) \subseteq Beyond(h)' /\ Beyond(h)' \subseteq Starter
    BY <1>1, <1>2 DEF Beyond, BootTypes
  <2>2. IsFiniteSet(Beyond(h)')
    BY <2>1, FS_Subset
  <2>3. /\ Cardinality(Beyond(h)) <= Cardinality(Beyond(h)')
        /\ Cardinality(Beyond(h)) \in Nat /\ Cardinality(Beyond(h)') \in Nat
    BY <2>1, <2>2, FS_Subset, FS_CardinalityType
  <2>4. hooked[h] \in Nat /\ hooked[h] <= Cardinality(Beyond(h))
    BY DEF BootSafe, BootTypes
  <2> QED
    BY <1>1, <2>3, <2>4
<1>6. ASSUME NEW c \in Starting' PROVE \A h \in Hooks : h < starter'[c] => hooked'[h] > 0
  BY <1>1, <1>2 DEF BootSafe, BootTypes, Starting
<1>7. booted' => \A h \in Hooks : hooked'[h] > 0
  BY <1>1 DEF BootSafe
<1> QED
  BY <1>1, <1>3, <1>4, <1>5, <1>6, <1>7 DEF BootSafe

LEMMA HookEndsStep == ASSUME BootSafe, NEW b \in Starter, HookEnds(b) PROVE BootSafe'
<1> USE ProvidersAssumption
<1>1. PICK k \in Hooks :
        /\ starter[b] = k /\ starter' = [starter EXCEPT ![b] = k + 1]
        /\ hooked' = [hooked EXCEPT ![k] = @ + 1]
        /\ UNCHANGED bootTrouble
  BY DEF HookEnds
<1>2. booted' <=> booted \/ k = 2 * Providers
  BY <1>1 DEF HookEnds
<1>3. BootTypes /\ BootFlags /\ k \in 1 .. 2 * Providers
  BY DEF BootSafe, Hooks
<1>4. BootTypes'
  BY <1>1, <1>3 DEF BootTypes, Hooks
<1>5. BootFlags'
  <2>1. booted' = (booted \/ k = 2 * Providers)
    BY <1>1 DEF HookEnds
  <2>2. booted' \in BOOLEAN
    BY <2>1, Zenon
  <2> QED
    BY <1>1, <1>3, <2>2, Zenon DEF BootFlags
<1>6. \A h \in Hooks : hooked'[h] = IF h = k THEN hooked[h] + 1 ELSE hooked[h]
  BY <1>1, <1>3 DEF BootTypes
<1>7. ASSUME NEW h \in Hooks PROVE hooked'[h] <= Cardinality(Beyond(h)')
  <2>1. Beyond(h) \subseteq Starter /\ IsFiniteSet(Beyond(h))
    BY FS_Subset DEF Beyond
  <2>2. Cardinality(Beyond(h)) \in Nat /\ hooked[h] \in Nat
        /\ hooked[h] <= Cardinality(Beyond(h))
    BY <2>1, FS_CardinalityType DEF BootSafe, BootTypes
  <2>3. CASE h = k
    <3>1. Beyond(h)' = Beyond(h) \cup {b} /\ b \notin Beyond(h)
      BY <1>1, <1>3, <2>3 DEF Beyond, BootTypes
    <3>2. Cardinality(Beyond(h) \cup {b}) = Cardinality(Beyond(h)) + 1
      BY <2>1, <3>1, FS_AddElement
    <3> QED
      BY <1>6, <2>2, <2>3, <3>1, <3>2
  <2>4. CASE h # k
    <3>1. Beyond(h)' = Beyond(h)
      BY <1>1, <1>3, <2>4 DEF Beyond, BootTypes, Hooks
    <3> QED
      BY <1>6, <2>2, <2>4, <3>1
  <2> QED
    BY <2>3, <2>4
<1>8. \A h \in Hooks : h < k => hooked[h] > 0
  BY <1>1 DEF BootSafe, Starting
<1>9. ASSUME NEW h \in Hooks, h <= k \/ hooked[h] > 0 PROVE hooked'[h] > 0
  <2>1. hooked[h] \in Nat /\ h \in Int
    BY <1>3 DEF BootTypes, Hooks
  <2> QED
    BY <1>3, <1>6, <1>8, <1>9, <2>1
<1>10. ASSUME NEW c \in Starting', NEW h \in Hooks, h < starter'[c] PROVE hooked'[h] > 0
  <2>1. CASE c = b
    BY <1>1, <1>3, <1>9, <1>10, <2>1 DEF BootTypes, Hooks
  <2>2. CASE c # b
    BY <1>1, <1>3, <1>9, <1>10, <2>2 DEF BootSafe, BootTypes, Starting
  <2> QED
    BY <2>1, <2>2
<1>11. ASSUME booted', NEW h \in Hooks PROVE hooked'[h] > 0
  <2>1. booted \/ h <= k
    BY <1>2, <1>11 DEF Hooks
  <2> QED
    BY <1>9, <2>1 DEF BootSafe
<1>12. ASSUME ~bootTrouble' PROVE RunOnce'
  <2>1. RunOnce /\ b \in Starting
    BY <1>1, <1>12 DEF BootSafe, Starting
  <2>2. ~booted /\ Starting = {b}
    BY <2>1 DEF RunOnce
  <2>3. Starting' \subseteq {b} /\ (k < 2 * Providers => Starting' = {b} /\ starter'[b] = k + 1)
        /\ (k = 2 * Providers => Starting' = {})
    BY <1>1, <1>3, <2>2 DEF Starting, BootTypes, Hooks
  <2>4. ASSUME NEW h \in Hooks PROVE /\ h >= k => hooked[h] = 0
                                     /\ hooked[h] <= 1 /\ hooked[h] \in Nat /\ h \in Int
    BY <1>1, <1>3, <2>1, <2>2 DEF RunOnce, BootTypes, Hooks
  <2>5. ASSUME NEW h \in Hooks PROVE hooked'[h] <= 1
    BY <1>3, <1>6, <2>4
  <2>6. ~booted' => k < 2 * Providers
    BY <1>2, <1>3
  <2>7. ASSUME ~booted', NEW h \in Hooks, \A c \in Starting' : h >= starter'[c]
        PROVE  hooked'[h] = 0
    <3>1. h >= k + 1
      BY <2>3, <2>6, <2>7
    <3> QED
      BY <1>3, <1>6, <2>4, <3>1
  <2>8. booted' => Starting' = {}
    BY <1>2, <2>2, <2>3
  <2> QED
    BY <2>3, <2>5, <2>7, <2>8 DEF RunOnce
<1> QED
  BY <1>4, <1>5, <1>7, <1>10, <1>11, <1>12 DEF BootSafe

LEMMA BootQuiet == ASSUME BootSafe, UNCHANGED bootVars PROVE BootSafe'
<1>1. UNCHANGED <<booted, starter, hooked, bootTrouble>>
  BY DEF bootVars
<1>2. BootFlags'
  BY <1>1, Zenon DEF BootSafe, BootFlags
<1>3. BootTypes' /\ (~bootTrouble' => RunOnce')
  BY <1>1 DEF BootSafe, BootTypes, RunOnce, Starting
<1> QED
  BY <1>1, <1>2, <1>3 DEF BootSafe, Beyond, Starting

LazyTypes ==
    /\ asker \in [LazyCall -> InHook \cup {"new", "scan", "dispatched", "failed"}]
    /\ wants \in [LazyCall -> SUBSET Lazy]
    /\ cursor \in [LazyCall -> 1 .. LazyProviders + 1]
    /\ readied \subseteq bootedLazyProviders /\ bootedLazyProviders \subseteq Lazy
    /\ broken \subseteq Lazy /\ crossed \subseteq LazyCall

LazySafe ==
    /\ LazyTypes
    /\ \A c \in LazyCall : asker[c] = "new" => cursor[c] = 1
    /\ \A c \in LazyCall : asker[c] \in InHook => cursor[c] \in bootedLazyProviders
    /\ \A c, d \in LazyCall :
          asker[c] \in InHook /\ asker[d] \in InHook /\ c # d => cursor[c] # cursor[d]
    /\ \A p \in bootedLazyProviders :
          \/ p \in readied \cup broken
          \/ \E c \in LazyCall : asker[c] \in InHook /\ cursor[c] = p
    /\ \A c \in Asking \ crossed : Asking = {c}
    /\ \A c \in LazyCall : \A p \in wants[c] : p < cursor[c] => p \in bootedLazyProviders
    /\ \A c \in LazyCall : asker[c] = "dispatched" /\ c \notin crossed
                           => wants[c] \subseteq readied \cup broken

LEMMA LazyStarts == ProvidersInit => LazySafe
BY ProvidersAssumption DEF ProvidersInit, LazySafe, LazyTypes, Lazy, InHook, Asking

LEMMA AskProvidersStep ==
    ASSUME LazySafe, NEW c \in LazyCall, NEW matched \in SUBSET Lazy, AskProviders(c, matched)
    PROVE  LazySafe'
<1>1. /\ asker[c] = "new" /\ asker' = [asker EXCEPT ![c] = "scan"]
      /\ wants' = [wants EXCEPT ![c] = matched]
      /\ crossed' = crossed \cup (IF Asking = {} THEN {} ELSE Asking \cup {c})
      /\ UNCHANGED <<bootedLazyProviders, readied, cursor, broken>>
  BY DEF AskProviders
<1>2. LazyTypes /\ cursor[c] = 1
  BY <1>1 DEF LazySafe
<1>3. Asking' = Asking \cup {c} /\ Asking \subseteq LazyCall
  BY <1>1, <1>2 DEF Asking, LazyTypes
<1>4. LazyTypes'
  BY <1>1, <1>2, <1>3 DEF LazyTypes
<1>5. \A d \in LazyCall : /\ d # c => asker'[d] = asker[d] /\ wants'[d] = wants[d]
                          /\ d = c => asker'[d] = "scan" /\ wants'[d] = matched
  BY <1>1, <1>2 DEF LazyTypes
<1>6. \A d \in LazyCall : (asker'[d] \in InHook <=> asker[d] \in InHook)
  BY <1>1, <1>5 DEF InHook
<1>7. \A d \in Asking' \ crossed' : Asking' = {d}
  BY <1>1, <1>3 DEF LazySafe
<1>8. ASSUME NEW d \in LazyCall, NEW p \in wants'[d], p < cursor'[d]
      PROVE  p \in bootedLazyProviders'
  <2>1. CASE d # c
    BY <1>1, <1>5, <1>8, <2>1 DEF LazySafe
  <2>2. CASE d = c
    <3>1. p \in Lazy /\ p < 1
      BY <1>1, <1>2, <1>5, <1>8, <2>2
    <3>2. p \in Nat \ {0}
      BY <3>1, ProvidersAssumption DEF Lazy
    <3> QED
      BY <3>1, <3>2
  <2> QED
    BY <2>1, <2>2
<1>9. ASSUME NEW d \in LazyCall, asker'[d] = "dispatched", d \notin crossed'
      PROVE  wants'[d] \subseteq readied' \cup broken'
  BY <1>1, <1>5, <1>9 DEF LazySafe
<1> QED
  BY <1>1, <1>4, <1>5, <1>6, <1>7, <1>8, <1>9 DEF LazySafe

\* A call the others never met finds the loop's end with all it wants begun.
LEMMA ScanStep == ASSUME LazySafe, NEW c \in LazyCall, Scan(c) PROVE LazySafe'
<1>1. asker[c] = "scan" /\ UNCHANGED <<readied, wants, broken, crossed>>
  BY DEF Scan
<1>2. LazyTypes /\ c \in Asking
  BY <1>1 DEF LazySafe, Asking
<1>3. CASE NextLazy(c) = {}
  <2>1. /\ asker' = [asker EXCEPT ![c] = "dispatched"]
        /\ UNCHANGED <<bootedLazyProviders, cursor>>
    BY <1>3 DEF Scan
  <2>2. LazyTypes'
    BY <1>1, <1>2, <2>1 DEF LazyTypes
  <2>3. \A d \in LazyCall : asker'[d] = IF d = c THEN "dispatched" ELSE asker[d]
    BY <1>2, <2>1 DEF LazyTypes
  <2>4. \A d \in LazyCall : (asker'[d] \in InHook <=> asker[d] \in InHook)
    BY <1>1, <2>3 DEF InHook
  <2>5. Asking' = Asking \ {c}
    BY <1>2, <2>3 DEF Asking, InHook
  <2>6. wants[c] \subseteq bootedLazyProviders
    <3>1. ASSUME NEW p \in wants[c], p \notin bootedLazyProviders PROVE FALSE
      <4>1. p \in Int /\ cursor[c] \in Int
        BY <1>2 DEF LazyTypes, Lazy
      <4>2. ~(p >= cursor[c]) /\ ~(p < cursor[c])
        BY <1>3, <3>1 DEF NextLazy, LazySafe
      <4> QED
        BY <4>1, <4>2
    <3> QED
      BY <3>1
  <2>7. ASSUME c \notin crossed PROVE wants[c] \subseteq readied \cup broken
    <3>1. \A d \in LazyCall : asker[d] \notin InHook
      BY <1>1, <1>2, <2>7 DEF LazySafe, Asking, InHook
    <3> QED
      BY <2>6, <3>1 DEF LazySafe
  <2>8. \A d \in Asking' \ crossed' : Asking' = {d}
    BY <1>1, <1>2, <2>5 DEF LazySafe
  <2>9. \A d \in LazyCall : asker'[d] = "dispatched" /\ d \notin crossed'
                            => wants'[d] \subseteq readied' \cup broken'
    BY <1>1, <2>3, <2>7 DEF LazySafe
  <2> QED
    BY <1>1, <2>1, <2>2, <2>3, <2>4, <2>8, <2>9 DEF LazySafe
<1>4. CASE NextLazy(c) # {}
  <2>1. PICK m : m = Min(NextLazy(c))
    OBVIOUS
  <2>2. /\ bootedLazyProviders' = bootedLazyProviders \cup {m}
        /\ cursor' = [cursor EXCEPT ![c] = m]
        /\ asker' = [asker EXCEPT ![c] = "register"]
    BY <1>4, <2>1 DEF Scan
  <2>3. NextLazy(c) \subseteq Nat
    BY <1>2 DEF NextLazy, LazyTypes, Lazy
  <2>4. m \in NextLazy(c) /\ \A y \in NextLazy(c) : m <= y
    BY <1>4, <2>1, <2>3, SmallestNumber
  <2>5. m \in wants[c] /\ m \notin bootedLazyProviders /\ m \in Lazy /\ m \in Nat
    BY <1>2, <2>3, <2>4 DEF NextLazy, LazyTypes
  <2>6. LazyTypes'
    BY <1>1, <1>2, <2>2, <2>5, ProvidersAssumption DEF LazyTypes, Lazy, InHook
  <2>7. \A d \in LazyCall : /\ d # c => asker'[d] = asker[d] /\ cursor'[d] = cursor[d]
                            /\ d = c => asker'[d] = "register" /\ cursor'[d] = m
    BY <1>2, <2>2 DEF LazyTypes
  <2>8. Asking' = Asking
    BY <1>1, <2>7 DEF Asking, InHook
  <2>9. ASSUME NEW p \in wants[c], p < m PROVE p \in bootedLazyProviders
    <3>1. p \in Int /\ cursor[c] \in Int
      BY <1>2 DEF LazyTypes, Lazy
    <3>2. CASE p < cursor[c]
      BY <3>2 DEF LazySafe
    <3>3. CASE p >= cursor[c]
      <4>1. p \notin NextLazy(c)
        BY <2>4, <2>5, <2>9, <3>1
      <4> QED
        BY <3>3, <4>1 DEF NextLazy
    <3> QED
      BY <3>1, <3>2, <3>3
  <2>10. \A d \in LazyCall : asker'[d] \in InHook => cursor'[d] \in bootedLazyProviders'
    BY <2>2, <2>7 DEF LazySafe
  <2>11. \A d, e \in LazyCall :
            asker'[d] \in InHook /\ asker'[e] \in InHook /\ d # e => cursor'[d] # cursor'[e]
    BY <2>5, <2>7 DEF LazySafe
  <2>12. ASSUME NEW p \in bootedLazyProviders'
         PROVE  \/ p \in readied' \cup broken'
                \/ \E d \in LazyCall : asker'[d] \in InHook /\ cursor'[d] = p
    <3>1. CASE p = m
      BY <2>7, <3>1 DEF InHook
    <3>2. CASE p # m
      <4>1. p \in bootedLazyProviders
        BY <2>2, <2>12, <3>2
      <4>2. CASE p \in readied \cup broken
        BY <1>1, <4>2
      <4>3. CASE \E d \in LazyCall : asker[d] \in InHook /\ cursor[d] = p
        <5>1. PICK d \in LazyCall : asker[d] \in InHook /\ cursor[d] = p
          BY <4>3
        <5>2. d # c
          BY <1>1, <5>1 DEF InHook
        <5> QED
          BY <2>7, <5>1, <5>2
      <4> QED
        BY <4>1, <4>2, <4>3 DEF LazySafe
    <3> QED
      BY <3>1, <3>2
  <2>13. \A d \in LazyCall : \A p \in wants'[d] : p < cursor'[d] => p \in bootedLazyProviders'
    BY <1>1, <2>2, <2>7, <2>9 DEF LazySafe
  <2>14. \A d \in LazyCall : asker'[d] = "new" => cursor'[d] = 1
    BY <2>7 DEF LazySafe
  <2>15. \A d \in LazyCall : asker'[d] = "dispatched" /\ d \notin crossed'
                             => wants'[d] \subseteq readied' \cup broken'
    BY <1>1, <2>7 DEF LazySafe
  <2>16. \A d \in Asking' \ crossed' : Asking' = {d}
    BY <1>1, <2>8 DEF LazySafe
  <2> QED
    BY <2>6, <2>10, <2>11, <2>12, <2>13, <2>14, <2>15, <2>16 DEF LazySafe
<1> QED
  BY <1>3, <1>4

LEMMA RegisteredStep == ASSUME LazySafe, NEW c \in LazyCall, Registered(c) PROVE LazySafe'
<1>1. /\ asker[c] = "register" /\ asker' = [asker EXCEPT ![c] = "boot"]
      /\ UNCHANGED <<bootedLazyProviders, readied, wants, cursor, broken, crossed>>
  BY DEF Registered
<1>2. LazyTypes
  BY DEF LazySafe
<1>3. LazyTypes'
  BY <1>1, <1>2 DEF LazyTypes, InHook
<1>4. \A d \in LazyCall : asker'[d] = IF d = c THEN "boot" ELSE asker[d]
  BY <1>1, <1>2 DEF LazyTypes
<1>5. \A d \in LazyCall : (asker'[d] \in InHook <=> asker[d] \in InHook)
  BY <1>1, <1>4 DEF InHook
<1>6. Asking' = Asking
  BY <1>1, <1>4 DEF Asking, InHook
<1>7. \A d \in LazyCall : /\ asker'[d] = "new" => asker[d] = "new"
                          /\ asker'[d] = "dispatched" => asker[d] = "dispatched"
  BY <1>4
<1> QED
  BY <1>1, <1>3, <1>5, <1>6, <1>7 DEF LazySafe

LEMMA ReadyStep == ASSUME LazySafe, NEW c \in LazyCall, Ready(c) PROVE LazySafe'
<1>1. /\ asker[c] = "boot" /\ asker' = [asker EXCEPT ![c] = "scan"]
      /\ readied' = readied \cup {cursor[c]}
      /\ cursor' = [cursor EXCEPT ![c] = @ + 1]
      /\ UNCHANGED <<bootedLazyProviders, wants, broken, crossed>>
  BY DEF Ready
<1>2. LazyTypes /\ cursor[c] \in bootedLazyProviders
  BY <1>1 DEF LazySafe, InHook
<1>3. cursor[c] \in 1 .. LazyProviders
  BY <1>2 DEF LazyTypes, Lazy
<1>4. LazyTypes'
  BY <1>1, <1>2, <1>3, ProvidersAssumption DEF LazyTypes
<1>5. \A d \in LazyCall : /\ d # c => asker'[d] = asker[d] /\ cursor'[d] = cursor[d]
                          /\ d = c => asker'[d] = "scan" /\ cursor'[d] = cursor[c] + 1
  BY <1>1, <1>2 DEF LazyTypes
<1>6. \A d \in LazyCall : asker'[d] \in InHook => asker[d] \in InHook /\ d # c
  BY <1>5 DEF InHook
<1>7. Asking' = Asking
  BY <1>1, <1>5 DEF Asking, InHook
<1>8. \A d \in LazyCall : asker'[d] \in InHook => cursor'[d] \in bootedLazyProviders'
  BY <1>1, <1>5, <1>6 DEF LazySafe
<1>9. \A d, e \in LazyCall :
         asker'[d] \in InHook /\ asker'[e] \in InHook /\ d # e => cursor'[d] # cursor'[e]
  BY <1>5, <1>6 DEF LazySafe
<1>10. ASSUME NEW p \in bootedLazyProviders'
       PROVE  \/ p \in readied' \cup broken'
              \/ \E d \in LazyCall : asker'[d] \in InHook /\ cursor'[d] = p
  <2>1. CASE p \in readied \cup broken
    BY <1>1, <2>1
  <2>2. CASE \E d \in LazyCall : asker[d] \in InHook /\ cursor[d] = p
    BY <1>1, <1>5, <2>2
  <2> QED
    BY <1>1, <1>10, <2>1, <2>2 DEF LazySafe
<1>11. ASSUME NEW d \in LazyCall, NEW p \in wants'[d], p < cursor'[d]
       PROVE  p \in bootedLazyProviders'
  <2>1. p \in wants[d] /\ p \in Int /\ cursor[d] \in Int
    BY <1>1, <1>2, <1>11 DEF LazyTypes, Lazy
  <2>2. p < cursor[d] \/ (d = c /\ p = cursor[c])
    BY <1>5, <1>11, <2>1
  <2> QED
    BY <1>1, <1>2, <2>1, <2>2 DEF LazySafe
<1>12. \A d \in LazyCall : asker'[d] = "new" => cursor'[d] = 1
  BY <1>5 DEF LazySafe
<1>13. \A d \in LazyCall : asker'[d] = "dispatched" /\ d \notin crossed'
                           => wants'[d] \subseteq readied' \cup broken'
  BY <1>1, <1>5 DEF LazySafe
<1>14. \A d \in Asking' \ crossed' : Asking' = {d}
  BY <1>1, <1>7 DEF LazySafe
<1> QED
  BY <1>4, <1>8, <1>9, <1>10, <1>11, <1>12, <1>13, <1>14 DEF LazySafe

LEMMA LazyFailsStep == ASSUME LazySafe, NEW c \in LazyCall, LazyFails(c) PROVE LazySafe'
<1>1. /\ asker[c] \in InHook /\ asker' = [asker EXCEPT ![c] = "failed"]
      /\ broken' = broken \cup {cursor[c]}
      /\ UNCHANGED <<bootedLazyProviders, readied, wants, cursor, crossed>>
  BY DEF LazyFails
<1>2. LazyTypes /\ cursor[c] \in bootedLazyProviders
  BY <1>1 DEF LazySafe
<1>3. LazyTypes'
  BY <1>1, <1>2 DEF LazyTypes
<1>4. \A d \in LazyCall : asker'[d] = IF d = c THEN "failed" ELSE asker[d]
  BY <1>1, <1>2 DEF LazyTypes
<1>5. \A d \in LazyCall : asker'[d] \in InHook <=> asker[d] \in InHook /\ d # c
  BY <1>4 DEF InHook
<1>6. Asking' = Asking \ {c}
  BY <1>4 DEF Asking, InHook
<1>7. ASSUME NEW p \in bootedLazyProviders'
      PROVE  \/ p \in readied' \cup broken'
             \/ \E d \in LazyCall : asker'[d] \in InHook /\ cursor'[d] = p
  <2>1. CASE p \in readied \cup broken
    BY <1>1, <2>1
  <2>2. CASE \E d \in LazyCall : asker[d] \in InHook /\ cursor[d] = p
    BY <1>1, <1>5, <2>2
  <2> QED
    BY <1>1, <1>7, <2>1, <2>2 DEF LazySafe
<1>8. \A d \in LazyCall : /\ asker'[d] = "new" => asker[d] = "new"
                          /\ asker'[d] = "dispatched" => asker[d] = "dispatched"
  BY <1>4
<1>9. \A d \in Asking' \ crossed' : Asking' = {d}
  BY <1>1, <1>6 DEF LazySafe
<1>10. \A d \in LazyCall : asker'[d] = "dispatched" /\ d \notin crossed'
                           => wants'[d] \subseteq readied' \cup broken'
  BY <1>1, <1>8 DEF LazySafe
<1> QED
  BY <1>1, <1>3, <1>5, <1>7, <1>8, <1>9, <1>10 DEF LazySafe

LEMMA LazyQuiet == ASSUME LazySafe, UNCHANGED lazyVars PROVE LazySafe'
BY DEF lazyVars, LazySafe, LazyTypes, Asking

LEMMA ProvidersStep ==
    BootSafe /\ LazySafe /\ [ProvidersNext]_providerVars => (BootSafe /\ LazySafe)'
<1> SUFFICES ASSUME BootSafe, LazySafe, [ProvidersNext]_providerVars
             PROVE  (BootSafe /\ LazySafe)'
  OBVIOUS
<1>1. ASSUME NEW b \in Starter, StartApp(b) PROVE (BootSafe /\ LazySafe)'
  <2>1. UNCHANGED lazyVars
    BY <1>1 DEF StartApp
  <2> QED
    BY <1>1, <2>1, StartAppStep, LazyQuiet
<1>2. ASSUME NEW b \in Starter, HookEnds(b) PROVE (BootSafe /\ LazySafe)'
  <2>1. UNCHANGED lazyVars
    BY <1>2 DEF HookEnds
  <2> QED
    BY <1>2, <2>1, HookEndsStep, LazyQuiet
<1>3. ASSUME NEW b \in Starter, HookFails(b) PROVE (BootSafe /\ LazySafe)'
  <2>1. UNCHANGED lazyVars
    BY <1>3 DEF HookFails
  <2> QED
    BY <1>3, <2>1, HookFailsStep, LazyQuiet
<1>4. ASSUME NEW c \in LazyCall, NEW matched \in SUBSET Lazy, AskProviders(c, matched)
      PROVE  (BootSafe /\ LazySafe)'
  <2>1. UNCHANGED bootVars
    BY <1>4 DEF AskProviders
  <2> QED
    BY <1>4, <2>1, AskProvidersStep, BootQuiet
<1>5. ASSUME NEW c \in LazyCall, Scan(c) PROVE (BootSafe /\ LazySafe)'
  <2>1. UNCHANGED bootVars
    BY <1>5 DEF Scan
  <2> QED
    BY <1>5, <2>1, ScanStep, BootQuiet
<1>6. ASSUME NEW c \in LazyCall, Registered(c) PROVE (BootSafe /\ LazySafe)'
  <2>1. UNCHANGED bootVars
    BY <1>6 DEF Registered
  <2> QED
    BY <1>6, <2>1, RegisteredStep, BootQuiet
<1>7. ASSUME NEW c \in LazyCall, Ready(c) PROVE (BootSafe /\ LazySafe)'
  <2>1. UNCHANGED bootVars
    BY <1>7 DEF Ready
  <2> QED
    BY <1>7, <2>1, ReadyStep, BootQuiet
<1>8. ASSUME NEW c \in LazyCall, LazyFails(c) PROVE (BootSafe /\ LazySafe)'
  <2>1. UNCHANGED bootVars
    BY <1>8 DEF LazyFails
  <2> QED
    BY <1>8, <2>1, LazyFailsStep, BootQuiet
<1>9. CASE UNCHANGED providerVars
  BY <1>9, BootQuiet, LazyQuiet DEF providerVars
<1> QED
  BY <1>1, <1>2, <1>3, <1>4, <1>5, <1>6, <1>7, <1>8, <1>9 DEF ProvidersNext

LEMMA ProvidersSafety == BootSafe /\ LazySafe => ProvidersInv
<1> SUFFICES ASSUME BootSafe, LazySafe PROVE ProvidersInv
  OBVIOUS
<1>1. ASSUME NEW h \in Hooks PROVE hooked[h] \in 0 .. Cardinality(Starter)
  <2>1. Beyond(h) \subseteq Starter
    BY DEF Beyond
  <2>2. /\ Cardinality(Beyond(h)) <= Cardinality(Starter) /\ IsFiniteSet(Beyond(h))
    BY <2>1, FS_Subset, ProvidersAssumption
  <2>3. Cardinality(Beyond(h)) \in Nat /\ Cardinality(Starter) \in Nat
    BY <2>2, FS_CardinalityType, ProvidersAssumption
  <2>4. hooked[h] \in Nat /\ hooked[h] <= Cardinality(Beyond(h))
    BY DEF BootSafe, BootTypes
  <2> QED
    BY <2>2, <2>3, <2>4
<1>2. hooked \in [Hooks -> 0 .. Cardinality(Starter)]
  BY <1>1 DEF BootSafe, BootTypes
<1>3. booted \in BOOLEAN /\ bootTrouble \in BOOLEAN
  BY Zenon DEF BootSafe, BootFlags
<1>4. starter \in [Starter -> 0 .. 2 * Providers + 1]
  BY DEF BootSafe, BootTypes
<1>5. ProvidersTypeOK
  BY <1>2, <1>3, <1>4, Zenon DEF ProvidersTypeOK, LazySafe, LazyTypes
<1>6. BootedOnce
  BY DEF BootedOnce, BootSafe, RunOnce
<1>7. CallsFindProviders
  BY DEF CallsFindProviders, LazySafe
<1> QED
  BY <1>5, <1>6, <1>7 DEF ProvidersInv

\* An application that booted ran every hook, and a request that met no other
\* one runs with all the lazy providers it matches: for any number of
\* providers, of requests, and of calls of boot().
THEOREM ProvidersAreReady == ProvidersSpec => []ProvidersInv
<1>1. ProvidersInit => BootSafe /\ LazySafe
  BY BootStarts, LazyStarts
<1> QED
  BY <1>1, ProvidersStep, ProvidersSafety, PTL DEF ProvidersSpec
-----------------------------------------------------------------------------
(***************************************************************************)
(* The pool of requests: an object wraps the request of the dispatch that  *)
(* runs with it, and what lies in the pool belongs to nobody.              *)
(***************************************************************************)
PoolSafe ==
    /\ PoolTypeOK
    /\ \A i, j \in 1 .. Len(pool) : pool[i] = pool[j] => i = j
    /\ \A i \in 1 .. Len(pool) : raw[pool[i]] # NoRun
    /\ \A d \in Run : progress[d] # "new" => object[d] \in Object /\ raw[object[d]] # NoRun
    /\ \A d \in Run : progress[d] = "running" => raw[object[d]] = d
    /\ \A d \in Run : progress[d] = "running" => \A i \in 1 .. Len(pool) : pool[i] # object[d]
    /\ \A d \in wroteLate : progress[d] \in {"lingering", "over"}
    /\ \A d \in Run : progress[d] = "running" =>
          user[object[d]] \in {d, NoRun} \cup {e \in wroteLate : object[e] = object[d]}

LEMMA PoolStarts == PoolInit => PoolSafe
BY PoolAssumption DEF PoolInit, PoolSafe, PoolTypeOK

\* What is left of the pool when its last object is taken.
LEMMA FrontOfPool ==
    ASSUME PoolTypeOK, pool # <<>>
    PROVE  /\ Len(pool) \in 1 .. maxSize /\ Last(pool) = pool[Len(pool)]
           /\ Last(pool) \in Object
           /\ Front(pool) \in Seq(Object) /\ Len(Front(pool)) = Len(pool) - 1
           /\ \A i \in 1 .. Len(pool) - 1 : Front(pool)[i] = pool[i]
<1>1. pool \in Seq(Object) /\ Len(pool) <= maxSize /\ maxSize \in Nat
  BY PoolAssumption DEF PoolTypeOK
<1>2. Len(pool) \in Nat \ {0}
  BY <1>1, EmptySeq
<1>3. \A i \in 1 .. Len(pool) : pool[i] \in Object
  BY <1>1, ElementOfSeq
<1>4. /\ SubSeq(pool, 1, Len(pool) - 1) \in Seq(Object)
      /\ Len(SubSeq(pool, 1, Len(pool) - 1)) = Len(pool) - 1
      /\ \A i \in 1 .. Len(pool) - 1 : SubSeq(pool, 1, Len(pool) - 1)[i] = pool[i]
  <2>1. \A i \in 1 .. Len(pool) - 1 : pool[i] \in Object
    BY <1>2, <1>3
  <2>2. Len(pool) - 1 \in Int /\ 1 \in Int
    BY <1>2
  <2> DEFINE n == Len(pool) - 1
  <2>3. /\ SubSeq(pool, 1, n) \in Seq(Object)
        /\ Len(SubSeq(pool, 1, n)) = IF 1 <= n THEN n - 1 + 1 ELSE 0
        /\ \A i \in 1 .. n - 1 + 1 : SubSeq(pool, 1, n)[i] = pool[1 + i - 1]
    <3>1. n \in Int /\ \A i \in 1 .. n : pool[i] \in Object
      BY <2>1, <2>2
    <3> HIDE DEF n
    <3> QED
      BY <2>2, <3>1, SubSeqProperties
  <2>4. n \in Nat
    BY <1>2
  <2> HIDE DEF n
  <2>5. Len(SubSeq(pool, 1, n)) = n
    <3>1. (IF 1 <= n THEN n - 1 + 1 ELSE 0) = n
      BY <2>4
    <3> QED
      BY <2>3, <3>1
  <2>6. ASSUME NEW i \in 1 .. n PROVE SubSeq(pool, 1, n)[i] = pool[i]
    <3>1. i \in 1 .. n - 1 + 1 /\ 1 + i - 1 = i
      BY <2>4
    <3> QED
      BY <2>3, <3>1
  <2>7. SubSeq(pool, 1, n) \in Seq(Object)
    BY <2>3
  <2> QED
    BY <2>5, <2>6, <2>7 DEF n
<1> QED
  BY <1>1, <1>2, <1>3, <1>4 DEF Last, Front

\* An object leaves the pool, or is new: nobody who still runs has it.
LEMMA AcquireStep == ASSUME PoolSafe, NEW d \in Run, Acquire(d) PROVE PoolSafe'
<1>1. PoolTypeOK /\ NoRun \notin Run /\ maxSize \in Nat
  BY PoolAssumption DEF PoolSafe
<1>2. PICK o \in Object :
        /\ IF pool # <<>>
           THEN o = Last(pool) /\ pool' = Front(pool)
           ELSE raw[o] = NoRun /\ UNCHANGED pool
        /\ user' = [user EXCEPT ![o] = NoRun]
        /\ raw' = [raw EXCEPT ![o] = d]
        /\ object' = [object EXCEPT ![d] = o]
  BY DEF Acquire, ResetMutableState
<1>3. /\ progress[d] = "new" /\ progress' = [progress EXCEPT ![d] = "running"]
      /\ UNCHANGED wroteLate
  BY DEF Acquire
<1>4. /\ pool' \in Seq(Object) /\ Len(pool') \in Nat
      /\ Len(pool') <= Len(pool) /\ Len(pool') <= maxSize /\ Len(pool) \in Nat
      /\ \A i \in 1 .. Len(pool') : pool'[i] = pool[i] /\ i \in 1 .. Len(pool)
      /\ \A i \in 1 .. Len(pool') : pool'[i] # o
  <2>1. CASE pool = <<>>
    <3>1. pool' = <<>> /\ Len(<<>>) = 0
      BY <1>2, <2>1
    <3> QED
      BY <1>1, <2>1, <3>1, EmptySeq DEF PoolTypeOK
  <2>2. CASE pool # <<>>
    <3>1. o = pool[Len(pool)] /\ pool' = Front(pool)
      BY <1>1, <1>2, <2>2, FrontOfPool
    <3>2. /\ Len(pool) \in 1 .. maxSize
          /\ Front(pool) \in Seq(Object) /\ Len(Front(pool)) = Len(pool) - 1
          /\ \A i \in 1 .. Len(pool) - 1 : Front(pool)[i] = pool[i]
      BY <1>1, <2>2, FrontOfPool
    <3>3. \A i, j \in 1 .. Len(pool) : pool[i] = pool[j] => i = j
      BY DEF PoolSafe
    <3>4. \A i \in 1 .. Len(pool) - 1 : pool[i] # pool[Len(pool)]
      BY <3>2, <3>3
    <3> QED
      BY <1>1, <3>1, <3>2, <3>4
  <2> QED
    BY <2>1, <2>2
<1>5. \A e \in Run : progress[e] = "running" => object[e] # o
  <2> SUFFICES ASSUME NEW e \in Run, progress[e] = "running" PROVE object[e] # o
    OBVIOUS
  <2>1. raw[object[e]] = e /\ \A i \in 1 .. Len(pool) : pool[i] # object[e]
    BY DEF PoolSafe
  <2>2. CASE pool = <<>>
    BY <1>1, <1>2, <2>1, <2>2
  <2>3. CASE pool # <<>>
    <3>1. Len(pool) \in 1 .. Len(pool) /\ o = pool[Len(pool)]
      BY <1>1, <1>2, <1>4, <2>3, FrontOfPool
    <3> QED
      BY <2>1, <3>1
  <2> QED
    BY <2>2, <2>3
<1>6. object' \in [Run -> Object \cup {NoRun}]
  BY <1>1, <1>2 DEF PoolTypeOK
<1>7. progress' \in [Run -> {"new", "running", "lingering", "over"}]
  BY <1>1, <1>3 DEF PoolTypeOK
<1>8. raw' \in [Object -> Run \cup {NoRun}] /\ user' \in [Object -> Run \cup {NoRun}]
  BY <1>1, <1>2 DEF PoolTypeOK
<1>9. PoolTypeOK'
  BY <1>1, <1>3, <1>4, <1>6, <1>7, <1>8 DEF PoolTypeOK
<1>10. \A e \in Run : /\ object'[e] = IF e = d THEN o ELSE object[e]
                      /\ progress'[e] = IF e = d THEN "running" ELSE progress[e]
  BY <1>1, <1>2, <1>3 DEF PoolTypeOK
<1>11. \A x \in Object : /\ raw'[x] = IF x = o THEN d ELSE raw[x]
                         /\ user'[x] = IF x = o THEN NoRun ELSE user[x]
  BY <1>1, <1>2 DEF PoolTypeOK
<1>12. \A i, j \in 1 .. Len(pool') : pool'[i] = pool'[j] => i = j
  BY <1>4 DEF PoolSafe
<1>13. \A i \in 1 .. Len(pool') : raw'[pool'[i]] # NoRun
  <2>1. ASSUME NEW i \in 1 .. Len(pool') PROVE raw'[pool'[i]] # NoRun
    <3>1. pool'[i] \in Object /\ pool'[i] = pool[i] /\ i \in 1 .. Len(pool) /\ pool[i] # o
      BY <1>4, ElementOfSeq
    <3>2. raw[pool[i]] # NoRun
      BY <3>1 DEF PoolSafe
    <3> QED
      BY <1>11, <3>1, <3>2
  <2> QED
    BY <2>1
<1>14. \A e \in Run : progress'[e] # "new" => object'[e] \in Object /\ raw'[object'[e]] # NoRun
  BY <1>1, <1>10, <1>11 DEF PoolSafe
<1>15. \A e \in Run : progress'[e] = "running" => raw'[object'[e]] = e
  BY <1>5, <1>10, <1>11 DEF PoolSafe
<1>16. \A e \in Run : progress'[e] = "running"
                      => \A i \in 1 .. Len(pool') : pool'[i] # object'[e]
  BY <1>4, <1>10 DEF PoolSafe
<1>17. \A e \in wroteLate' : progress'[e] \in {"lingering", "over"}
  BY <1>1, <1>3, <1>10 DEF PoolSafe, PoolTypeOK
<1>18. ASSUME NEW e \in Run, progress'[e] = "running"
       PROVE  user'[object'[e]] \in
                 {e, NoRun} \cup {f \in wroteLate' : object'[f] = object'[e]}
  <2>1. CASE e = d
    BY <1>10, <1>11, <2>1
  <2>2. CASE e # d
    <3>1. progress[e] = "running" /\ object'[e] = object[e] /\ object[e] # o
      BY <1>5, <1>10, <1>18, <2>2
    <3>2. object[e] \in Object
      BY <3>1 DEF PoolSafe
    <3>3. user'[object[e]] = user[object[e]]
      BY <1>11, <3>1, <3>2
    <3>4. user[object[e]] \in {e, NoRun} \cup {f \in wroteLate : object[f] = object[e]}
      BY <3>1 DEF PoolSafe
    <3>5. \A f \in wroteLate : f # d
      BY <1>3 DEF PoolSafe
    <3>6. \A f \in wroteLate : object'[f] = object[f]
      BY <1>1, <1>10, <3>5 DEF PoolTypeOK
    <3> QED
      BY <1>3, <3>1, <3>3, <3>4, <3>6
  <2> QED
    BY <2>1, <2>2
<1> QED
  BY <1>9, <1>12, <1>13, <1>14, <1>15, <1>16, <1>17, <1>18 DEF PoolSafe

LEMMA SetUserStep == ASSUME PoolSafe, NEW d \in Run, SetUser(d) PROVE PoolSafe'
<1>1. /\ PoolTypeOK /\ progress[d] \in {"running", "lingering"}
      /\ user' = [user EXCEPT ![object[d]] = d]
      /\ wroteLate' = IF progress[d] = "lingering" THEN wroteLate \cup {d} ELSE wroteLate
      /\ UNCHANGED <<pool, object, progress, raw>>
  BY DEF SetUser, PoolSafe
<1>2. object[d] \in Object
  BY <1>1 DEF PoolSafe
<1>3. PoolTypeOK'
  BY <1>1, <1>2 DEF PoolTypeOK
<1>4. \A e \in wroteLate' : progress'[e] \in {"lingering", "over"}
  BY <1>1 DEF PoolSafe
<1>5. ASSUME NEW e \in Run, progress'[e] = "running"
      PROVE  user'[object'[e]] \in
                {e, NoRun} \cup {f \in wroteLate' : object'[f] = object'[e]}
  <2>1. progress[e] = "running" /\ object[e] \in Object /\ raw[object[e]] = e
    BY <1>1, <1>5 DEF PoolSafe
  <2>2. CASE object[e] # object[d]
    <3>1. user'[object[e]] = user[object[e]] /\ wroteLate \subseteq wroteLate'
      BY <1>1, <1>2, <2>1, <2>2 DEF PoolTypeOK
    <3>2. user[object[e]] \in {e, NoRun} \cup {f \in wroteLate : object[f] = object[e]}
      BY <2>1 DEF PoolSafe
    <3> QED
      BY <1>1, <3>1, <3>2
  <2>3. CASE object[e] = object[d]
    <3>1. user'[object[e]] = d
      BY <1>1, <1>2, <2>3 DEF PoolTypeOK
    <3>2. CASE progress[d] = "running"
      <4>1. raw[object[d]] = d
        BY <3>2 DEF PoolSafe
      <4> QED
        BY <1>1, <2>1, <2>3, <3>1, <4>1
    <3>3. CASE progress[d] = "lingering"
      BY <1>1, <2>3, <3>1, <3>3
    <3> QED
      BY <1>1, <3>2, <3>3
  <2> QED
    BY <2>2, <2>3
<1> QED
  BY <1>1, <1>3, <1>4, <1>5 DEF PoolSafe

LEMMA ReleaseStep == ASSUME PoolSafe, NEW d \in Run, Release(d) PROVE PoolSafe'
<1>1. PICK rest \in {"lingering", "over"} : progress' = [progress EXCEPT ![d] = rest]
  BY DEF Release
<1>2. /\ PoolTypeOK /\ progress[d] = "running"
      /\ user' = [user EXCEPT ![object[d]] = NoRun]
      /\ pool' = IF Len(pool) < maxSize THEN Append(pool, object[d]) ELSE pool
      /\ UNCHANGED <<object, raw, wroteLate>>
  BY DEF Release, ResetMutableState, PoolSafe
<1>3. /\ object[d] \in Object /\ raw[object[d]] = d /\ d # NoRun
      /\ \A i \in 1 .. Len(pool) : pool[i] # object[d]
  BY <1>2, PoolAssumption DEF PoolSafe
<1>4. pool \in Seq(Object) /\ Len(pool) \in Nat /\ Len(pool) <= maxSize /\ maxSize \in Nat
  BY <1>2, LenProperties, PoolAssumption DEF PoolTypeOK
<1>5. /\ pool' \in Seq(Object) /\ Len(pool') \in Nat /\ Len(pool') <= maxSize
      /\ \A i \in 1 .. Len(pool') :
            \/ i \in 1 .. Len(pool) /\ pool'[i] = pool[i]
            \/ i = Len(pool) + 1 /\ pool'[i] = object[d]
  <2>1. CASE Len(pool) < maxSize
    <3>1. pool' = Append(pool, object[d])
      BY <1>2, <2>1
    <3>2. /\ Append(pool, object[d]) \in Seq(Object)
          /\ Len(Append(pool, object[d])) = Len(pool) + 1
          /\ \A i \in 1 .. Len(pool) : Append(pool, object[d])[i] = pool[i]
          /\ Append(pool, object[d])[Len(pool) + 1] = object[d]
      BY <1>3, <1>4, AppendProperties
    <3> QED
      BY <1>4, <2>1, <3>1, <3>2
  <2>2. CASE ~(Len(pool) < maxSize)
    BY <1>2, <1>4, <2>2
  <2> QED
    BY <2>1, <2>2
<1>6. user' \in [Object -> Run \cup {NoRun}]
  BY <1>2, <1>3 DEF PoolTypeOK
<1>7. progress' \in [Run -> {"new", "running", "lingering", "over"}]
  BY <1>1, <1>2 DEF PoolTypeOK
<1>8. PoolTypeOK'
  BY <1>2, <1>5, <1>6, <1>7 DEF PoolTypeOK
<1>9. \A e \in Run : progress'[e] = IF e = d THEN rest ELSE progress[e]
  BY <1>1, <1>2 DEF PoolTypeOK
<1>10. \A x \in Object : user'[x] = IF x = object[d] THEN NoRun ELSE user[x]
  BY <1>2, <1>3 DEF PoolTypeOK
<1>11. ASSUME NEW i \in 1 .. Len(pool'), NEW j \in 1 .. Len(pool'), pool'[i] = pool'[j]
       PROVE  i = j
  BY <1>3, <1>5, <1>11 DEF PoolSafe
<1>12. \A i \in 1 .. Len(pool') : raw'[pool'[i]] # NoRun
  BY <1>2, <1>3, <1>5 DEF PoolSafe
<1>13. \A e \in Run : progress'[e] # "new" => object'[e] \in Object /\ raw'[object'[e]] # NoRun
  BY <1>2, <1>9 DEF PoolSafe
<1>14. \A e \in Run : progress'[e] = "running" => progress[e] = "running" /\ object[e] # object[d]
  BY <1>1, <1>3, <1>9 DEF PoolSafe
<1>15. ASSUME NEW e \in Run, progress'[e] = "running"
       PROVE  \A i \in 1 .. Len(pool') : pool'[i] # object'[e]
  BY <1>2, <1>5, <1>14, <1>15 DEF PoolSafe
<1>16. ASSUME NEW e \in Run, progress'[e] = "running"
       PROVE  user'[object'[e]] \in
                 {e, NoRun} \cup {f \in wroteLate' : object'[f] = object'[e]}
  <2>1. progress[e] = "running" /\ object[e] \in Object /\ object[e] # object[d]
    BY <1>14, <1>16 DEF PoolSafe
  <2>2. user'[object[e]] = user[object[e]]
    BY <1>10, <2>1
  <2> QED
    BY <1>2, <2>1, <2>2 DEF PoolSafe
<1>17. \A e \in wroteLate' : progress'[e] \in {"lingering", "over"}
  BY <1>1, <1>2, <1>9 DEF PoolSafe, PoolTypeOK
<1> QED
  BY <1>2, <1>8, <1>11, <1>12, <1>13, <1>14, <1>15, <1>16, <1>17 DEF PoolSafe

LEMMA EndOfStreamStep == ASSUME PoolSafe, NEW d \in Run, EndOfStream(d) PROVE PoolSafe'
<1>1. /\ PoolTypeOK /\ progress[d] = "lingering"
      /\ progress' = [progress EXCEPT ![d] = "over"]
      /\ UNCHANGED <<pool, object, raw, user, wroteLate>>
  BY DEF EndOfStream, PoolSafe
<1>2. PoolTypeOK'
  BY <1>1 DEF PoolTypeOK
<1>3. \A e \in Run : progress'[e] = IF e = d THEN "over" ELSE progress[e]
  BY <1>1 DEF PoolTypeOK
<1>4. wroteLate \subseteq Run
  BY <1>1 DEF PoolTypeOK
<1> QED
  BY <1>1, <1>2, <1>3, <1>4 DEF PoolSafe

LEMMA PoolStep == PoolSafe /\ [PoolNext]_poolVars => PoolSafe'
<1> SUFFICES ASSUME PoolSafe, [PoolNext]_poolVars PROVE PoolSafe'
  OBVIOUS
<1>1. CASE UNCHANGED poolVars
  BY <1>1 DEF poolVars, PoolSafe, PoolTypeOK
<1> QED
  BY <1>1, AcquireStep, SetUserStep, ReleaseStep, EndOfStreamStep DEF PoolNext

LEMMA PoolSafety == PoolSafe => PoolInv
BY DEF PoolSafe, PoolInv, RequestsAreTheirOwn, Contains

\* A dispatch runs with its own request, however large the pool and however
\* many dispatches share its objects; what one sets on its object after its
\* response, the next on that object finds.
THEOREM RequestsStayTheirOwn == PoolSpec => []PoolInv
BY PoolStarts, PoolStep, PoolSafety, PTL DEF PoolSpec
-----------------------------------------------------------------------------
(***************************************************************************)
(* The hub of the websockets.  Its invariant is inductive as it stands;    *)
(* what needs an argument is the sum a client keeps: who joins or leaves   *)
(* changes the census by one, and is told to whoever keeps a sum.          *)
(***************************************************************************)
Roster == [Socket -> Person \cup {Nobody}]

LEMMA CensusType ==
    ASSUME NEW roster \in Roster
    PROVE  Census(roster) \in [Person -> Int] /\ Heads(roster) \in Int
<1>1. ASSUME NEW S, S \subseteq Socket PROVE Cardinality(S) \in Int
  <2>1. IsFiniteSet(S)
    BY <1>1, FS_Subset, HubAssumption
  <2>2. Cardinality(S) \in Nat
    BY <2>1, FS_CardinalityType
  <2> QED
    BY <2>2
<1>2. \A p \in Person : Cardinality({s \in Socket : roster[s] = p}) \in Int
  BY <1>1
<1>3. Cardinality({s \in Socket : roster[s] # Nobody}) \in Int
  BY <1>1
<1> QED
  BY <1>2, <1>3 DEF Census, Heads

LEMMA CensusOfOneMore ==
    ASSUME NEW roster \in Roster, NEW s \in Socket, NEW p \in Person, roster[s] = Nobody
    PROVE  /\ Census([roster EXCEPT ![s] = p]) = [Census(roster) EXCEPT ![p] = @ + 1]
           /\ Heads([roster EXCEPT ![s] = p]) = Heads(roster) + 1
<1>1. PICK more : more = [roster EXCEPT ![s] = p]
  OBVIOUS
<1>2. more[s] = p /\ \A t \in Socket : t # s => more[t] = roster[t]
  BY <1>1 DEF Roster
<1>3. p # Nobody
  BY HubAssumption
<1>4. ASSUME NEW S, S \subseteq Socket, s \notin S
      PROVE  Cardinality(S \cup {s}) = Cardinality(S) + 1
  BY <1>4, FS_Subset, FS_AddElement, HubAssumption
<1>5. Heads(more) = Heads(roster) + 1
  <2>1. {t \in Socket : more[t] # Nobody} = {t \in Socket : roster[t] # Nobody} \cup {s}
    BY <1>2, <1>3
  <2>2. s \notin {t \in Socket : roster[t] # Nobody}
    OBVIOUS
  <2> QED
    BY <1>4, <2>1, <2>2 DEF Heads
<1>6. Census(more)[p] = Census(roster)[p] + 1
  <2>1. {t \in Socket : more[t] = p} = {t \in Socket : roster[t] = p} \cup {s}
    BY <1>2
  <2>2. s \notin {t \in Socket : roster[t] = p}
    BY <1>3
  <2>3. Cardinality({t \in Socket : more[t] = p}) = Cardinality({t \in Socket : roster[t] = p}) + 1
    BY <1>4, <2>1, <2>2
  <2> QED
    BY <2>3 DEF Census
<1>7. ASSUME NEW q \in Person, q # p PROVE Census(more)[q] = Census(roster)[q]
  <2>1. {t \in Socket : more[t] = q} = {t \in Socket : roster[t] = q}
    BY <1>2, <1>7, HubAssumption
  <2> QED
    BY <2>1 DEF Census
<1>8. Census(more) = [Census(roster) EXCEPT ![p] = @ + 1]
  <2>1. Census(more) = [q \in Person |-> Census(more)[q]]
        /\ Census(roster) = [q \in Person |-> Census(roster)[q]]
    BY DEF Census
  <2> QED
    BY <1>6, <1>7, <2>1
<1> QED
  BY <1>1, <1>5, <1>8

LEMMA CensusOfOneLess ==
    ASSUME NEW roster \in Roster, NEW s \in Socket, roster[s] # Nobody
    PROVE  /\ Census([roster EXCEPT ![s] = Nobody])
                 = [Census(roster) EXCEPT ![roster[s]] = @ - 1]
           /\ Heads([roster EXCEPT ![s] = Nobody]) = Heads(roster) - 1
<1>1. PICK less : less = [roster EXCEPT ![s] = Nobody]
  OBVIOUS
<1>2. PICK p \in Person : p = roster[s]
  BY DEF Roster
<1>3. less \in Roster /\ less[s] = Nobody /\ roster = [less EXCEPT ![s] = p]
  BY <1>1, <1>2 DEF Roster
<1>4. /\ Census(roster) = [Census(less) EXCEPT ![p] = @ + 1]
      /\ Heads(roster) = Heads(less) + 1
  <2>1. /\ Census([less EXCEPT ![s] = p]) = [Census(less) EXCEPT ![p] = @ + 1]
        /\ Heads([less EXCEPT ![s] = p]) = Heads(less) + 1
    BY <1>3, CensusOfOneMore
  <2> QED
    BY <1>3, <2>1, Zenon
<1>5. Census(less) \in [Person -> Int] /\ Heads(less) \in Int
  BY <1>3, CensusType
<1>6. Census(less) = [Census(roster) EXCEPT ![p] = @ - 1]
  <2>1. ASSUME NEW f \in [Person -> Int], NEW g, g = [f EXCEPT ![p] = @ + 1]
        PROVE  f = [g EXCEPT ![p] = @ - 1]
    <3>1. g \in [Person -> Int] /\ g[p] - 1 = f[p] /\ \A q \in Person \ {p} : g[q] = f[q]
      BY <2>1
    <3> QED
      BY <3>1
  <2> QED
    BY <1>4, <1>5, <2>1
<1> QED
  BY <1>1, <1>2, <1>4, <1>5, <1>6

LEMMA HubStarts == HubInit => HubInv
<1> SUFFICES ASSUME HubInit PROVE HubInv
  OBVIOUS
<1>1. HubTypeOK /\ RostersAgree /\ ViewsAddUp
  BY DEF HubInit, HubTypeOK, RostersAgree, ViewsAddUp, IsMember, Hears
<1>2. clients = {} /\ Cardinality({}) <= MaxConnections
  BY FS_EmptySet, HubAssumption DEF HubInit
<1> QED
  BY <1>1, <1>2 DEF HubInv, OnlyErrorsLeaveGhosts

LEMMA RefuseStep == ASSUME HubInv, NEW s \in Socket, Refuse(s) PROVE HubInv'
<1>1. /\ wire[s] = "new" /\ wire' = [wire EXCEPT ![s] = "closed"]
      /\ UNCHANGED <<clients, subscriptions, presence, members, counted, heads, renamed>>
  BY DEF Refuse
<1>2. HubTypeOK /\ s \notin clients
  BY <1>1 DEF HubInv, OnlyErrorsLeaveGhosts
<1>3. HubTypeOK'
  BY <1>1, <1>2 DEF HubTypeOK
<1>4. \A t \in Socket : t # s => wire'[t] = wire[t]
  BY <1>1, <1>2 DEF HubTypeOK
<1>5. RostersAgree'
  BY <1>1 DEF HubInv, RostersAgree, IsMember
<1>6. ViewsAddUp'
  BY <1>1, <1>2, <1>4 DEF HubInv, ViewsAddUp, Hears
<1>7. OnlyErrorsLeaveGhosts'
  BY <1>1, <1>2, <1>4 DEF HubInv, OnlyErrorsLeaveGhosts, HubTypeOK
<1> QED
  BY <1>3, <1>5, <1>6, <1>7 DEF HubInv

LEMMA UpgradeStep == ASSUME HubInv, NEW s \in Socket, Upgrade(s) PROVE HubInv'
<1>1. /\ wire[s] = "new" /\ wire' = [wire EXCEPT ![s] = "open"]
      /\ Cardinality(clients) < MaxConnections
      /\ clients' = clients \cup {s}
      /\ UNCHANGED <<subscriptions, presence, members, counted, heads, renamed>>
  BY DEF Upgrade
<1>2. HubTypeOK /\ s \notin clients
  BY <1>1 DEF HubInv, OnlyErrorsLeaveGhosts
<1>3. HubTypeOK'
  BY <1>1, <1>2 DEF HubTypeOK
<1>4. wire'[s] = "open" /\ \A t \in Socket : t # s => wire'[t] = wire[t]
  BY <1>1, <1>2 DEF HubTypeOK
<1>5. presence[s] = {}
  BY <1>2 DEF HubInv, RostersAgree
<1>6. RostersAgree'
  BY <1>1 DEF HubInv, RostersAgree, IsMember
<1>7. ViewsAddUp'
  BY <1>1, <1>4, <1>5 DEF HubInv, ViewsAddUp, Hears
<1>8. Cardinality(clients') <= MaxConnections
  <2>1. IsFiniteSet(clients)
    BY <1>2, FS_Subset, HubAssumption DEF HubTypeOK
  <2>2. Cardinality(clients \cup {s}) = Cardinality(clients) + 1
    BY <1>2, <2>1, FS_AddElement
  <2>3. Cardinality(clients) \in Nat
    BY <2>1, FS_CardinalityType
  <2> QED
    BY <1>1, <2>2, <2>3, HubAssumption
<1>9. OnlyErrorsLeaveGhosts'
  BY <1>1, <1>2, <1>4, <1>8 DEF HubInv, OnlyErrorsLeaveGhosts, HubTypeOK
<1> QED
  BY <1>3, <1>6, <1>7, <1>9 DEF HubInv

LEMMA FailStep == ASSUME HubInv, NEW s \in Socket, Fail(s) PROVE HubInv'
<1>1. /\ wire[s] = "open" /\ wire' = [wire EXCEPT ![s] = "failed"]
      /\ UNCHANGED <<clients, subscriptions, presence, members, counted, heads, renamed>>
  BY DEF Fail
<1>2. HubTypeOK
  BY DEF HubInv
<1>3. HubTypeOK'
  BY <1>1, <1>2 DEF HubTypeOK
<1>4. wire'[s] = "failed" /\ \A t \in Socket : t # s => wire'[t] = wire[t]
  BY <1>1, <1>2 DEF HubTypeOK
<1>5. RostersAgree'
  BY <1>1 DEF HubInv, RostersAgree, IsMember
<1>6. ViewsAddUp'
  BY <1>1, <1>4 DEF HubInv, ViewsAddUp, Hears
<1>7. OnlyErrorsLeaveGhosts'
  BY <1>1, <1>2, <1>4 DEF HubInv, OnlyErrorsLeaveGhosts, HubTypeOK
<1> QED
  BY <1>3, <1>5, <1>6, <1>7 DEF HubInv

\* A newcomer is counted by everybody who hears of the channel, once; a
\* member that subscribes again changes nobody's number.
LEMMA JoinKeepsSums ==
    ASSUME HubTypeOK, ViewsAddUp, RostersAgree, NEW s \in Socket, NEW p \in Person,
           NEW ch \in PresenceChannel, Join(s, ch, p),
           NEW t \in Socket, Hears(t), NEW c \in PresenceChannel, c \in presence'[t]
    PROVE  /\ heads'[t][c] = Heads(members'[c])
           /\ c \notin renamed' => counted'[t][c] = Census(members'[c])
<1>1. /\ members' = [members EXCEPT ![ch][s] = p]
      /\ presence' = [presence EXCEPT ![s] = @ \cup {ch}]
      /\ renamed' = IF IsMember(s, ch) /\ members[ch][s] # p
                    THEN renamed \cup {ch} ELSE renamed
  BY DEF Join
<1>2. members[ch] \in Roster /\ members'[ch] = [members[ch] EXCEPT ![s] = p]
  BY <1>1 DEF HubTypeOK, Roster
<1>3. \A x \in PresenceChannel : x # ch => members'[x] = members[x]
  BY <1>1 DEF HubTypeOK
<1>4. CASE t = s /\ c = ch
  <2>1. counted'[s] = [counted[s] EXCEPT ![ch] = Census(members'[ch])]
        /\ heads'[s] = [heads[s] EXCEPT ![ch] = Heads(members'[ch])]
    BY DEF Join
  <2> QED
    BY <1>4, <2>1 DEF HubTypeOK
<1>5. CASE c # ch
  <2>1. c \in presence[t] /\ members'[c] = members[c]
    BY <1>1, <1>3, <1>5 DEF HubTypeOK
  <2>2. heads'[t][c] = heads[t][c]
    BY <1>5 DEF Join, HubTypeOK
  <2>3. counted'[t][c] = counted[t][c]
    BY <1>5 DEF Join, HubTypeOK
  <2>4. c \notin renamed' => c \notin renamed
    BY <1>1
  <2> QED
    BY <2>1, <2>2, <2>3, <2>4 DEF ViewsAddUp
<1>6. CASE t # s /\ c = ch
  <2>1. ch \in presence[t]
    BY <1>1, <1>6 DEF HubTypeOK
  <2>2. Reaches(s, t, ch)
    BY <1>6, <2>1 DEF Reaches, Hears, RostersAgree
  <2>3. /\ heads[t][ch] = Heads(members[ch])
        /\ ch \notin renamed => counted[t][ch] = Census(members[ch])
    BY <2>1 DEF ViewsAddUp
  <2>4. CASE ~IsMember(s, ch)
    <3>1. counted'[t] = [counted[t] EXCEPT ![ch][p] = @ + 1]
          /\ heads'[t] = [heads[t] EXCEPT ![ch] = @ + 1]
      BY <1>6, <2>2, <2>4 DEF Join
    <3>2. counted'[t][ch] = [counted[t][ch] EXCEPT ![p] = @ + 1]
          /\ heads'[t][ch] = heads[t][ch] + 1
      BY <3>1 DEF HubTypeOK
    <3>3. /\ Census(members'[ch]) = [Census(members[ch]) EXCEPT ![p] = @ + 1]
          /\ Heads(members'[ch]) = Heads(members[ch]) + 1
      BY <1>2, <2>4, CensusOfOneMore DEF IsMember
    <3>4. renamed' = renamed
      BY <1>1, <2>4
    <3> QED
      BY <1>6, <2>3, <3>2, <3>3, <3>4
  <2>5. CASE IsMember(s, ch)
    <3>1. counted'[t] = counted[t] /\ heads'[t] = heads[t]
      BY <1>6, <2>5 DEF Join
    <3>2. CASE members[ch][s] = p
      <4>1. members'[ch] = members[ch] /\ renamed' = renamed
        BY <1>1, <1>2, <3>2 DEF Roster
      <4> QED
        BY <1>6, <2>3, <3>1, <4>1
    <3>3. CASE members[ch][s] # p
      <4>1. ch \in renamed'
        BY <1>1, <2>5, <3>3
      <4>2. \A u \in Socket : members'[ch][u] # Nobody <=> members[ch][u] # Nobody
        BY <1>2, <2>5, HubAssumption DEF Roster, IsMember
      <4>3. {u \in Socket : members'[ch][u] # Nobody} = {u \in Socket : members[ch][u] # Nobody}
        BY <4>2
      <4>4. Heads(members'[ch]) = Heads(members[ch])
        BY <4>3 DEF Heads
      <4> QED
        BY <1>6, <2>3, <3>1, <4>1, <4>4
    <3> QED
      BY <3>2, <3>3
  <2> QED
    BY <2>4, <2>5
<1> QED
  BY <1>4, <1>5, <1>6

LEMMA JoinTypes ==
    ASSUME HubTypeOK, NEW s \in Socket, NEW p \in Person, NEW ch \in PresenceChannel,
           Join(s, ch, p)
    PROVE  /\ members' \in [PresenceChannel -> [Socket -> Person \cup {Nobody}]]
           /\ presence' \in [Socket -> SUBSET PresenceChannel]
           /\ counted' \in [Socket -> [PresenceChannel -> [Person -> Int]]]
           /\ heads' \in [Socket -> [PresenceChannel -> Int]]
           /\ renamed' \subseteq PresenceChannel
<1>1. members' = [members EXCEPT ![ch][s] = p]
  BY DEF Join
<1>2. members' \in [PresenceChannel -> [Socket -> Person \cup {Nobody}]]
  BY <1>1 DEF HubTypeOK
<1>3. presence' \in [Socket -> SUBSET PresenceChannel]
  BY DEF Join, HubTypeOK
<1>4. Census(members'[ch]) \in [Person -> Int] /\ Heads(members'[ch]) \in Int
  <2>1. PICK now : now = members'[ch]
    OBVIOUS
  <2>2. now \in Roster
    BY <1>2, <2>1 DEF Roster
  <2> QED
    BY <2>1, <2>2, CensusType
<1>5. \A t \in Socket : counted'[t] \in [PresenceChannel -> [Person -> Int]]
  <2>1. ASSUME NEW t \in Socket PROVE counted'[t] \in [PresenceChannel -> [Person -> Int]]
    <3>1. \/ counted'[t] = [counted[t] EXCEPT ![ch] = Census(members'[ch])]
          \/ counted'[t] = [counted[t] EXCEPT ![ch][p] = @ + 1]
          \/ counted'[t] = counted[t]
      BY DEF Join
    <3>2. counted[t] \in [PresenceChannel -> [Person -> Int]]
      BY DEF HubTypeOK
    <3>3. ASSUME NEW f \in [PresenceChannel -> [Person -> Int]], NEW g \in [Person -> Int]
          PROVE  /\ [f EXCEPT ![ch] = g] \in [PresenceChannel -> [Person -> Int]]
                 /\ [f EXCEPT ![ch][p] = @ + 1] \in [PresenceChannel -> [Person -> Int]]
      <4>1. [f[ch] EXCEPT ![p] = @ + 1] \in [Person -> Int]
        OBVIOUS
      <4> QED
        BY <4>1
    <3> QED
      BY <1>4, <3>1, <3>2, <3>3
  <2> QED
    BY <2>1
<1>6. \A t \in Socket : heads'[t] \in [PresenceChannel -> Int]
  <2>1. ASSUME NEW t \in Socket PROVE heads'[t] \in [PresenceChannel -> Int]
    <3>1. \/ heads'[t] = [heads[t] EXCEPT ![ch] = Heads(members'[ch])]
          \/ heads'[t] = [heads[t] EXCEPT ![ch] = @ + 1]
          \/ heads'[t] = heads[t]
      BY DEF Join
    <3>2. heads[t] \in [PresenceChannel -> Int] /\ heads[t][ch] + 1 \in Int
      BY DEF HubTypeOK
    <3> QED
      BY <1>4, <3>1, <3>2
  <2> QED
    BY <2>1
<1>7. counted' \in [Socket -> [PresenceChannel -> [Person -> Int]]]
  BY <1>5 DEF Join
<1>8. heads' \in [Socket -> [PresenceChannel -> Int]]
  BY <1>6 DEF Join
<1>9. renamed' \subseteq PresenceChannel
  BY DEF Join, HubTypeOK
<1> QED
  BY <1>2, <1>3, <1>7, <1>8, <1>9

LEMMA SubscribeStep ==
    ASSUME HubInv, NEW s \in Socket, NEW ch \in Channel, NEW p \in Person, Subscribe(s, ch, p)
    PROVE  HubInv'
<1>1. /\ Hears(s) /\ subscriptions' = [subscriptions EXCEPT ![s] = @ \cup {ch}]
      /\ UNCHANGED <<wire, clients>>
  BY DEF Subscribe
<1>2. HubTypeOK /\ RostersAgree /\ ViewsAddUp
  BY DEF HubInv
<1>3. subscriptions' \in [Socket -> SUBSET Channel]
  BY <1>1, <1>2 DEF HubTypeOK
<1>4. \A t \in Socket : subscriptions'[t] = IF t = s THEN subscriptions[t] \cup {ch}
                                            ELSE subscriptions[t]
  BY <1>1, <1>2 DEF HubTypeOK
<1>5. OnlyErrorsLeaveGhosts'
  BY <1>1 DEF HubInv, OnlyErrorsLeaveGhosts
<1>6. \A t \in Socket \ clients' : subscriptions'[t] = {}
  BY <1>1, <1>2, <1>4 DEF RostersAgree, Hears
<1>7. CASE ch \notin PresenceChannel
  <2>1. UNCHANGED <<presence, members, counted, heads, renamed>>
    BY <1>7 DEF Subscribe
  <2>2. HubTypeOK'
    BY <1>1, <1>2, <1>3, <2>1 DEF HubTypeOK
  <2>3. RostersAgree'
    BY <1>2, <1>4, <1>6, <2>1 DEF RostersAgree, IsMember
  <2>4. ViewsAddUp'
    BY <1>1, <1>2, <2>1 DEF ViewsAddUp, Hears
  <2> QED
    BY <1>5, <2>2, <2>3, <2>4 DEF HubInv
<1>8. CASE ch \in PresenceChannel
  <2>1. Join(s, ch, p)
    BY <1>8 DEF Subscribe
  <2>2. /\ members' = [members EXCEPT ![ch][s] = p]
        /\ presence' = [presence EXCEPT ![s] = @ \cup {ch}]
    BY <2>1 DEF Join
  <2>3. HubTypeOK'
    BY <1>1, <1>2, <1>3, <1>8, <2>1, JoinTypes DEF HubTypeOK
  <2>4. /\ \A t \in Socket : presence'[t] = IF t = s THEN presence[t] \cup {ch} ELSE presence[t]
        /\ \A c \in PresenceChannel, t \in Socket :
              members'[c][t] = IF c = ch /\ t = s THEN p ELSE members[c][t]
    BY <1>2, <1>8, <2>2 DEF HubTypeOK
  <2>5. \A t \in Socket, c \in PresenceChannel :
           members'[c][t] # Nobody <=> c \in presence'[t]
    <3>1. p # Nobody /\ \A t \in Socket, c \in PresenceChannel :
                            members[c][t] # Nobody <=> c \in presence[t]
      BY HubAssumption DEF HubInv, RostersAgree, IsMember
    <3>2. ASSUME NEW t \in Socket, NEW c \in PresenceChannel
          PROVE  members'[c][t] # Nobody <=> c \in presence'[t]
      <4>1. CASE c = ch /\ t = s
        BY <2>4, <3>1, <4>1
      <4>2. CASE ~(c = ch /\ t = s)
        <5>1. members'[c][t] = members[c][t] /\ (c \in presence'[t] <=> c \in presence[t])
          BY <2>4, <4>2
        <5> QED
          BY <3>1, <5>1
      <4> QED
        BY <4>1, <4>2
    <3> QED
      BY <3>2
  <2>6. \A t \in Socket : presence'[t] \subseteq subscriptions'[t]
    BY <1>2, <1>4, <2>4 DEF RostersAgree
  <2>7. RostersAgree'
    BY <1>6, <2>5, <2>6 DEF RostersAgree, IsMember
  <2>8. ASSUME NEW t \in Socket, Hears(t)', NEW c \in PresenceChannel, c \in presence'[t]
        PROVE  /\ heads'[t][c] = Heads(members'[c])
               /\ c \notin renamed' => counted'[t][c] = Census(members'[c])
    <3>1. Hears(t)
      BY <1>1, <2>8 DEF Hears
    <3> QED
      BY <1>2, <1>8, <2>1, <2>8, <3>1, JoinKeepsSums
  <2>9. ViewsAddUp'
    BY <2>8 DEF ViewsAddUp
  <2> QED
    BY <1>5, <2>3, <2>7, <2>9 DEF HubInv
<1> QED
  BY <1>7, <1>8

\* leavePresence() with the maps of the client: what a channel loses, each of
\* its other members is told of.
LEMMA LeaveStep ==
    ASSUME HubInv, NEW s \in Socket, NEW left \in SUBSET PresenceChannel, Leave(s, left),
           UNCHANGED renamed
    PROVE  /\ members' \in [PresenceChannel -> [Socket -> Person \cup {Nobody}]]
           /\ presence' \in [Socket -> SUBSET PresenceChannel]
           /\ counted' \in [Socket -> [PresenceChannel -> [Person -> Int]]]
           /\ heads' \in [Socket -> [PresenceChannel -> Int]]
           /\ \A t \in Socket, c \in PresenceChannel :
                 members'[c][t] # Nobody <=> c \in presence'[t]
           /\ \A t \in Socket :
                 presence'[t] = IF t = s THEN presence[t] \ left ELSE presence[t]
           /\ \A t \in Socket, c \in PresenceChannel :
                 Hears(t) /\ c \in presence'[t] =>
                    /\ heads'[t][c] = Heads(members'[c])
                    /\ c \notin renamed' => counted'[t][c] = Census(members'[c])
<1>1. HubTypeOK /\ RostersAgree /\ ViewsAddUp
  BY DEF HubInv
<1>2. /\ members' = [ch \in PresenceChannel |->
             IF ch \in left THEN [members[ch] EXCEPT ![s] = Nobody] ELSE members[ch]]
      /\ presence' = [presence EXCEPT ![s] = @ \ left]
  BY DEF Leave
<1>3. members' \in [PresenceChannel -> [Socket -> Person \cup {Nobody}]]
  BY <1>1, <1>2 DEF HubTypeOK
<1>4. presence' \in [Socket -> SUBSET PresenceChannel]
      /\ \A t \in Socket : presence'[t] = IF t = s THEN presence[t] \ left ELSE presence[t]
  BY <1>1, <1>2 DEF HubTypeOK
<1>5. \A c \in PresenceChannel, t \in Socket :
         members'[c][t] = IF c \in left /\ t = s THEN Nobody ELSE members[c][t]
  BY <1>1, <1>2 DEF HubTypeOK
<1>6. \A t \in Socket, c \in PresenceChannel : members'[c][t] # Nobody <=> c \in presence'[t]
  BY <1>1, <1>4, <1>5 DEF RostersAgree, IsMember
<1>7. ASSUME NEW t \in Socket, NEW c \in PresenceChannel
      PROVE  /\ counted'[t][c] = IF c \in left /\ t = s THEN [p \in Person |-> 0]
                     ELSE IF c \in left /\ IsMember(s, c) /\ Reaches(s, t, c)
                          THEN [counted[t][c] EXCEPT ![members[c][s]] = @ - 1]
                          ELSE counted[t][c]
             /\ heads'[t][c] = IF c \in left /\ t = s THEN 0
                     ELSE IF c \in left /\ IsMember(s, c) /\ Reaches(s, t, c)
                          THEN heads[t][c] - 1
                          ELSE heads[t][c]
  <2>1. counted' = [x \in Socket |-> [ch \in PresenceChannel |->
           IF ch \in left /\ x = s THEN [p \in Person |-> 0]
           ELSE IF ch \in left /\ IsMember(s, ch) /\ Reaches(s, x, ch)
                THEN [counted[x][ch] EXCEPT ![members[ch][s]] = @ - 1]
                ELSE counted[x][ch]]]
    BY DEF Leave
  <2>2. heads' = [x \in Socket |-> [ch \in PresenceChannel |->
           IF ch \in left /\ x = s THEN 0
           ELSE IF ch \in left /\ IsMember(s, ch) /\ Reaches(s, x, ch)
                THEN heads[x][ch] - 1
                ELSE heads[x][ch]]]
    BY DEF Leave
  <2> QED
    BY <2>1, <2>2
<1>8. \A t \in Socket, c \in PresenceChannel :
         counted'[t][c] \in [Person -> Int] /\ heads'[t][c] \in Int
  <2>1. ASSUME NEW t \in Socket, NEW c \in PresenceChannel
        PROVE  counted'[t][c] \in [Person -> Int] /\ heads'[t][c] \in Int
    <3>1. counted[t][c] \in [Person -> Int] /\ heads[t][c] \in Int
      BY <1>1 DEF HubTypeOK
    <3>2. ASSUME NEW f \in [Person -> Int], NEW q
          PROVE  [f EXCEPT ![q] = @ - 1] \in [Person -> Int]
      <4>1. CASE q \in Person
        BY <4>1
      <4>2. CASE q \notin Person
        BY <4>2
      <4> QED
        BY <4>1, <4>2
    <3>3. /\ [counted[t][c] EXCEPT ![members[c][s]] = @ - 1] \in [Person -> Int]
          /\ [q \in Person |-> 0] \in [Person -> Int]
      BY <3>1, <3>2
    <3>4. heads[t][c] - 1 \in Int
      BY <3>1
    <3>5. counted'[t][c] \in [Person -> Int]
      BY <1>7, <3>1, <3>3
    <3>6. heads'[t][c] \in Int
      <4>1. heads'[t][c] \in {0, heads[t][c] - 1, heads[t][c]}
        BY <1>7
      <4> QED
        BY <3>1, <3>4, <4>1
    <3> QED
      BY <3>5, <3>6
  <2> QED
    BY <2>1
<1>9. counted' \in [Socket -> [PresenceChannel -> [Person -> Int]]]
  <2>1. \A t \in Socket : counted'[t] \in [PresenceChannel -> [Person -> Int]]
    BY <1>8 DEF Leave
  <2> QED
    BY <2>1 DEF Leave
<1>10. heads' \in [Socket -> [PresenceChannel -> Int]]
  <2>1. \A t \in Socket : heads'[t] \in [PresenceChannel -> Int]
    BY <1>8 DEF Leave
  <2> QED
    BY <2>1 DEF Leave
<1>11. ASSUME NEW t \in Socket, NEW c \in PresenceChannel, Hears(t), c \in presence'[t]
       PROVE  /\ heads'[t][c] = Heads(members'[c])
              /\ c \notin renamed' => counted'[t][c] = Census(members'[c])
  <2>1. /\ c \in presence[t]
        /\ ~(c \in left /\ t = s)
    BY <1>4, <1>11
  <2>2. /\ heads[t][c] = Heads(members[c])
        /\ c \notin renamed => counted[t][c] = Census(members[c])
    BY <1>1, <1>11, <2>1 DEF ViewsAddUp
  <2>3. members[c] \in Roster
    BY <1>1 DEF HubTypeOK, Roster
  <2>4. CASE c \in left /\ IsMember(s, c)
    <3>1. Reaches(s, t, c)
      BY <1>1, <1>11, <2>1, <2>4 DEF Reaches, Hears, RostersAgree
    <3>2. /\ counted'[t][c] = [counted[t][c] EXCEPT ![members[c][s]] = @ - 1]
          /\ heads'[t][c] = heads[t][c] - 1
      BY <1>7, <2>1, <2>4, <3>1
    <3>3. members'[c] = [members[c] EXCEPT ![s] = Nobody]
      BY <1>2, <2>4
    <3>4. /\ Census(members'[c]) = [Census(members[c]) EXCEPT ![members[c][s]] = @ - 1]
          /\ Heads(members'[c]) = Heads(members[c]) - 1
      BY <2>3, <2>4, <3>3, CensusOfOneLess DEF IsMember
    <3> QED
      BY <2>2, <3>2, <3>4
  <2>5. CASE ~(c \in left /\ IsMember(s, c))
    <3>1. counted'[t][c] = counted[t][c] /\ heads'[t][c] = heads[t][c]
      BY <1>7, <2>1, <2>5
    <3>2. members'[c] = members[c]
      BY <1>2, <2>3, <2>5 DEF IsMember, Roster
    <3> QED
      BY <2>2, <3>1, <3>2
  <2> QED
    BY <2>4, <2>5
<1> QED
  BY <1>3, <1>4, <1>6, <1>9, <1>10, <1>11

LEMMA UnsubscribeStep ==
    ASSUME HubInv, NEW s \in Socket, NEW ch \in Channel, Unsubscribe(s, ch)
    PROVE  HubInv'
<1>1. PICK left \in SUBSET PresenceChannel : left = {ch} \cap PresenceChannel
  OBVIOUS
<1>2. /\ subscriptions' = [subscriptions EXCEPT ![s] = @ \ {ch}]
      /\ Leave(s, left) /\ UNCHANGED <<wire, clients, renamed>>
  BY <1>1 DEF Unsubscribe
<1>3. HubTypeOK /\ RostersAgree
  BY DEF HubInv
<1>4. subscriptions' \in [Socket -> SUBSET Channel]
      /\ \A t \in Socket : subscriptions'[t] = IF t = s THEN subscriptions[t] \ {ch}
                                               ELSE subscriptions[t]
  BY <1>2, <1>3 DEF HubTypeOK
<1>5. /\ members' \in [PresenceChannel -> [Socket -> Person \cup {Nobody}]]
      /\ presence' \in [Socket -> SUBSET PresenceChannel]
      /\ counted' \in [Socket -> [PresenceChannel -> [Person -> Int]]]
      /\ heads' \in [Socket -> [PresenceChannel -> Int]]
  BY <1>2, LeaveStep
<1>6. \A t \in Socket, c \in PresenceChannel : members'[c][t] # Nobody <=> c \in presence'[t]
  BY <1>2, LeaveStep
<1>7. \A t \in Socket : presence'[t] = IF t = s THEN presence[t] \ left ELSE presence[t]
  BY <1>2, LeaveStep
<1>8. \A t \in Socket, c \in PresenceChannel :
         Hears(t) /\ c \in presence'[t] =>
            /\ heads'[t][c] = Heads(members'[c])
            /\ c \notin renamed' => counted'[t][c] = Census(members'[c])
  BY <1>2, LeaveStep
<1>9. HubTypeOK'
  BY <1>2, <1>3, <1>4, <1>5 DEF HubTypeOK
<1>10. \A t \in Socket : presence'[t] \subseteq subscriptions'[t]
  <2>1. \A t \in Socket : presence[t] \subseteq subscriptions[t] \cap PresenceChannel
    BY <1>3 DEF RostersAgree, HubTypeOK
  <2> QED
    BY <1>1, <1>4, <1>7, <2>1
<1>11. RostersAgree'
  BY <1>2, <1>3, <1>4, <1>6, <1>10 DEF RostersAgree, IsMember
<1>12. ViewsAddUp'
  BY <1>2, <1>8 DEF ViewsAddUp, Hears
<1>13. OnlyErrorsLeaveGhosts'
  BY <1>2 DEF HubInv, OnlyErrorsLeaveGhosts
<1> QED
  BY <1>9, <1>11, <1>12, <1>13 DEF HubInv

LEMMA CloseStep == ASSUME HubInv, NEW s \in Socket, Close(s) PROVE HubInv'
<1>1. HubTypeOK /\ RostersAgree
  BY DEF HubInv
<1>2. PICK left \in SUBSET PresenceChannel : left = presence[s]
  BY <1>1 DEF HubTypeOK
<1>3. /\ wire' = [wire EXCEPT ![s] = "closed"] /\ clients' = clients \ {s}
      /\ subscriptions' = [subscriptions EXCEPT ![s] = {}]
      /\ Leave(s, left) /\ UNCHANGED renamed
  BY <1>2 DEF Close
<1>4. /\ wire' \in [Socket -> {"new", "open", "failed", "closed"}]
      /\ wire'[s] = "closed" /\ \A t \in Socket : t # s => wire'[t] = wire[t]
      /\ subscriptions' \in [Socket -> SUBSET Channel]
      /\ \A t \in Socket : subscriptions'[t] = IF t = s THEN {} ELSE subscriptions[t]
  BY <1>1, <1>3 DEF HubTypeOK
<1>5. /\ members' \in [PresenceChannel -> [Socket -> Person \cup {Nobody}]]
      /\ presence' \in [Socket -> SUBSET PresenceChannel]
      /\ counted' \in [Socket -> [PresenceChannel -> [Person -> Int]]]
      /\ heads' \in [Socket -> [PresenceChannel -> Int]]
  BY <1>3, LeaveStep
<1>6. \A t \in Socket, c \in PresenceChannel : members'[c][t] # Nobody <=> c \in presence'[t]
  BY <1>3, LeaveStep
<1>7. \A t \in Socket : presence'[t] = IF t = s THEN presence[t] \ left ELSE presence[t]
  BY <1>3, LeaveStep
<1>8. \A t \in Socket, c \in PresenceChannel :
         Hears(t) /\ c \in presence'[t] =>
            /\ heads'[t][c] = Heads(members'[c])
            /\ c \notin renamed' => counted'[t][c] = Census(members'[c])
  BY <1>3, LeaveStep
<1>9. HubTypeOK'
  BY <1>1, <1>3, <1>4, <1>5 DEF HubTypeOK
<1>10. presence'[s] = {}
  BY <1>2, <1>7
<1>11. RostersAgree'
  BY <1>1, <1>3, <1>4, <1>6, <1>7, <1>10 DEF RostersAgree, IsMember
<1>12. ViewsAddUp'
  BY <1>3, <1>4, <1>8 DEF ViewsAddUp, Hears
<1>13. OnlyErrorsLeaveGhosts'
  <2>1. IsFiniteSet(clients) /\ clients \ {s} \subseteq clients
    BY <1>1, FS_Subset, HubAssumption DEF HubTypeOK
  <2>2. Cardinality(clients \ {s}) <= Cardinality(clients) /\ IsFiniteSet(clients \ {s})
    BY <2>1, FS_Subset
  <2>3. Cardinality(clients) \in Nat /\ Cardinality(clients \ {s}) \in Nat
    BY <2>1, <2>2, FS_CardinalityType
  <2>4. Cardinality(clients) <= MaxConnections /\ \A t \in clients : wire[t] \in {"open", "failed"}
    BY DEF HubInv, OnlyErrorsLeaveGhosts
  <2>5. Cardinality(clients \ {s}) <= MaxConnections
    BY <2>2, <2>3, <2>4, HubAssumption
  <2> QED
    BY <1>1, <1>3, <1>4, <2>4, <2>5 DEF OnlyErrorsLeaveGhosts, HubTypeOK
<1> QED
  BY <1>9, <1>11, <1>12, <1>13 DEF HubInv

LEMMA HubStep == HubInv /\ [HubNext]_hubVars => HubInv'
<1> SUFFICES ASSUME HubInv, [HubNext]_hubVars PROVE HubInv'
  OBVIOUS
<1>1. CASE UNCHANGED hubVars
  <2>1. UNCHANGED <<wire, clients, subscriptions, presence, members, counted, heads, renamed>>
    BY <1>1 DEF hubVars
  <2>2. HubTypeOK' /\ RostersAgree'
    BY <2>1 DEF HubInv, HubTypeOK, RostersAgree, IsMember
  <2>3. ViewsAddUp' /\ OnlyErrorsLeaveGhosts'
    BY <2>1 DEF HubInv, ViewsAddUp, OnlyErrorsLeaveGhosts, Hears
  <2> QED
    BY <2>2, <2>3 DEF HubInv
<1> QED
  BY <1>1, RefuseStep, UpgradeStep, CloseStep, FailStep, UnsubscribeStep, SubscribeStep
     DEF HubNext

\* What a member of a presence channel was sent adds up to the members there
\* are, for any number of sockets, channels and people.
THEOREM PresenceAddsUp == HubSpec => []HubInv
BY HubStarts, HubStep, PTL DEF HubSpec
-----------------------------------------------------------------------------
(***************************************************************************)
(* Listeners of redis.  A topic somebody listens to is heard, is spoiled,  *)
(* or the call that found it new is still on its way; and only one call of *)
(* startRedisSubscriber() ever gets past the flag.                         *)
(***************************************************************************)
Wakes(t) == \E d \in listeners[t] \cap fresh : asks[d] \in {"waits", "sends"}

ListenersSafe ==
    /\ asks \in [Asker -> {"idle", "client", "waits", "sends", "done", "failed"}]
    /\ listeners \in [Topic -> SUBSET Asker]
    /\ fresh \subseteq Asker /\ heard \subseteq Topic /\ spoiled \subseteq Topic
    /\ duplicate \in {"none", "connecting", "up", "failed"}
    /\ subscriber \in {"unset", "open", "quitting"}
    /\ \A t \in Topic : \A c \in listeners[t] : asks[c] \notin {"idle", "client"}
    /\ \A t \in Topic \ spoiled : listeners[t] # {} => t \in heard \/ Wakes(t)

HubStartsOnce ==
    /\ ~started => \A c \in HubStart : asks[c] = "idle"
    /\ \A c, d \in HubStart : asks[c] # "idle" /\ asks[d] # "idle" => c = d

SubscriberSafe == ListenersSafe /\ HubStartsOnce /\ started \in BOOLEAN

LEMMA SubscriberStarts == SubscriberInit => SubscriberSafe
<1> SUFFICES ASSUME SubscriberInit PROVE SubscriberSafe
  OBVIOUS
<1>1. ListenersSafe
  <2>1. /\ asks \in [Asker -> {"idle", "client", "waits", "sends", "done", "failed"}]
        /\ listeners \in [Topic -> SUBSET Asker]
    BY DEF SubscriberInit
  <2>2. \A t \in Topic : listeners[t] = {}
    BY DEF SubscriberInit
  <2> QED
    BY <2>1, <2>2 DEF SubscriberInit, ListenersSafe
<1>2. started \in BOOLEAN
  BY Zenon DEF SubscriberInit
<1>3. \A c \in HubStart : asks[c] = "idle"
  BY DEF SubscriberInit, Asker
<1> QED
  BY <1>1, <1>2, <1>3 DEF SubscriberSafe, HubStartsOnce

\* What a call's own progress leaves of the calls that wake others.
LEMMA Progress ==
    ASSUME ListenersSafe, NEW c \in Asker, NEW from, NEW to, Asks(c, from, to)
    PROVE  /\ asks[c] = from /\ asks'[c] = to
           /\ \A d \in Asker : d # c => asks'[d] = asks[d]
           /\ to \in {"idle", "client", "waits", "sends", "done", "failed"} =>
                 asks' \in [Asker -> {"idle", "client", "waits", "sends", "done", "failed"}]
BY DEF Asks, ListenersSafe

LEMMA StartHubStep == ASSUME SubscriberSafe, NEW c \in HubStart, StartHub(c) PROVE SubscriberSafe'
<1>1. /\ ~started /\ started' = TRUE /\ Asks(c, "idle", "client")
      /\ UNCHANGED <<listeners, fresh, spoiled>> /\ UNCHANGED connection
  BY DEF StartHub
<1>2. ListenersSafe /\ HubStartsOnce /\ c \in Asker
  BY DEF SubscriberSafe, Asker
<1>3. UNCHANGED <<duplicate, subscriber, heard>>
  BY <1>1 DEF connection
<1>4. /\ asks[c] = "idle" /\ asks'[c] = "client"
      /\ \A d \in Asker : d # c => asks'[d] = asks[d]
      /\ asks' \in [Asker -> {"idle", "client", "waits", "sends", "done", "failed"}]
  BY <1>1, <1>2, Progress
<1>5. \A t \in Topic : c \notin listeners[t] /\ listeners[t] \subseteq Asker
  BY <1>2, <1>4 DEF ListenersSafe
<1>6. \A t \in Topic : \A d \in listeners[t] : asks'[d] = asks[d]
  BY <1>4, <1>5
<1>7. ListenersSafe'
  BY <1>1, <1>2, <1>3, <1>4, <1>6 DEF ListenersSafe, Wakes
<1>8. HubStartsOnce'
  BY <1>1, <1>2, <1>4 DEF HubStartsOnce, Asker
<1>9. started' \in BOOLEAN
  BY <1>1, Zenon
<1> QED
  BY <1>7, <1>8, <1>9 DEF SubscriberSafe

\* A call that was not idle stays one that is not.
LEMMA OnceGoesOn ==
    ASSUME HubStartsOnce, UNCHANGED started,
           \A c \in HubStart : asks'[c] # "idle" => asks[c] # "idle"
    PROVE  HubStartsOnce'
BY DEF HubStartsOnce

LEMMA NoClientStep == ASSUME SubscriberSafe, NEW c \in HubStart, NoClient(c) PROVE SubscriberSafe'
<1>1. /\ Asks(c, "client", "failed") /\ spoiled' = spoiled \cup {Broadcasts}
      /\ UNCHANGED <<started, listeners, fresh>> /\ UNCHANGED connection
  BY DEF NoClient
<1>2. ListenersSafe /\ HubStartsOnce /\ c \in Asker /\ started \in BOOLEAN
  BY DEF SubscriberSafe, Asker
<1>3. UNCHANGED <<duplicate, subscriber, heard>>
  BY <1>1 DEF connection
<1>4. /\ asks[c] = "client" /\ asks'[c] = "failed"
      /\ \A d \in Asker : d # c => asks'[d] = asks[d]
      /\ asks' \in [Asker -> {"idle", "client", "waits", "sends", "done", "failed"}]
  BY <1>1, <1>2, Progress
<1>5. \A t \in Topic : \A d \in listeners[t] : asks'[d] = asks[d]
  BY <1>2, <1>4 DEF ListenersSafe
<1>6. \A t \in Topic : Wakes(t) => Wakes(t)'
  BY <1>1, <1>5 DEF Wakes
<1>7. ListenersSafe'
  BY <1>1, <1>2, <1>3, <1>4, <1>5, <1>6, SubscriberAssumption DEF ListenersSafe
<1>8. HubStartsOnce'
  BY <1>1, <1>2, <1>4, OnceGoesOn DEF Asker
<1> QED
  BY <1>1, <1>2, <1>7, <1>8, Zenon DEF SubscriberSafe

LEMMA EnlistStep ==
    ASSUME SubscriberSafe, NEW c \in Asker, NEW t \in Topic, NEW from \in {"idle", "client"},
           Asks(c, from, "waits"), Enlist(c, t),
           UNCHANGED <<subscriber, heard, spoiled>>
    PROVE  ListenersSafe'
<1>1. /\ fresh' = IF listeners[t] = {} THEN fresh \cup {c} ELSE fresh
      /\ listeners' = [listeners EXCEPT ![t] = @ \cup {c}]
      /\ duplicate' = IF duplicate = "none" THEN "connecting" ELSE duplicate
  BY DEF Enlist
<1>2. ListenersSafe
  BY DEF SubscriberSafe
<1>3. /\ asks[c] = from /\ asks'[c] = "waits"
      /\ \A d \in Asker : d # c => asks'[d] = asks[d]
      /\ asks' \in [Asker -> {"idle", "client", "waits", "sends", "done", "failed"}]
  BY <1>2, Progress
<1>4. /\ listeners' \in [Topic -> SUBSET Asker]
      /\ \A x \in Topic : listeners'[x] = IF x = t THEN listeners[t] \cup {c} ELSE listeners[x]
  BY <1>1, <1>2 DEF ListenersSafe
<1>5. \A x \in Topic : c \notin listeners[x] /\ listeners[x] \subseteq Asker
  BY <1>2, <1>3 DEF ListenersSafe
<1>6. fresh' \subseteq Asker /\ fresh \subseteq fresh'
      /\ duplicate' \in {"none", "connecting", "up", "failed"}
  BY <1>1, <1>2 DEF ListenersSafe
<1>7. \A x \in Topic : \A d \in listeners'[x] : asks'[d] \notin {"idle", "client"}
  BY <1>2, <1>3, <1>4, <1>5 DEF ListenersSafe
<1>8. ASSUME NEW x \in Topic, Wakes(x) PROVE Wakes(x)'
  <2>1. PICK d \in listeners[x] \cap fresh : asks[d] \in {"waits", "sends"}
    BY <1>8 DEF Wakes
  <2>2. d \in listeners'[x] \cap fresh' /\ asks'[d] = asks[d]
    BY <1>3, <1>4, <1>5, <1>6, <2>1
  <2> QED
    BY <2>1, <2>2 DEF Wakes
<1>9. listeners[t] = {} => Wakes(t)'
  <2>1. listeners[t] = {} => c \in listeners'[t] \cap fresh' /\ asks'[c] = "waits"
    BY <1>1, <1>3, <1>4
  <2> QED
    BY <2>1 DEF Wakes
<1>10. \A x \in Topic \ spoiled' : listeners'[x] # {} => x \in heard' \/ Wakes(x)'
  BY <1>2, <1>4, <1>8, <1>9 DEF ListenersSafe
<1> QED
  BY <1>2, <1>3, <1>4, <1>6, <1>7, <1>10 DEF ListenersSafe

LEMMA HubSubscribesStep ==
    ASSUME SubscriberSafe, NEW c \in HubStart, HubSubscribes(c) PROVE SubscriberSafe'
<1>1. /\ Asks(c, "client", "waits") /\ Enlist(c, Broadcasts) /\ c \in Asker
      /\ UNCHANGED <<started, subscriber, heard, spoiled>>
  BY DEF HubSubscribes, Asker
<1>2. ListenersSafe'
  BY <1>1, EnlistStep, SubscriberAssumption
<1>3. asks[c] = "client" /\ \A d \in Asker : d # c => asks'[d] = asks[d]
  BY <1>1, Progress DEF SubscriberSafe
<1>4. HubStartsOnce'
  BY <1>1, <1>3, OnceGoesOn DEF SubscriberSafe, Asker
<1> QED
  BY <1>1, <1>2, <1>4, Zenon DEF SubscriberSafe

LEMMA SubscribesStep ==
    ASSUME SubscriberSafe, NEW c \in Listener, NEW t \in Topic, Subscribes(c, t)
    PROVE  SubscriberSafe'
<1>1. /\ Asks(c, "idle", "waits") /\ Enlist(c, t) /\ c \in Asker /\ c \notin HubStart
      /\ UNCHANGED <<started, subscriber, heard, spoiled>>
  BY SubscriberAssumption DEF Subscribes, Asker
<1>2. ListenersSafe'
  BY <1>1, EnlistStep
<1>3. \A d \in Asker : d # c => asks'[d] = asks[d]
  BY <1>1, Progress DEF SubscriberSafe
<1>4. HubStartsOnce'
  BY <1>1, <1>3, OnceGoesOn DEF SubscriberSafe, Asker
<1> QED
  BY <1>1, <1>2, <1>4, Zenon DEF SubscriberSafe

\* A call goes on that was not idle: the topics it wakes no more are spoiled,
\* or heard.
LEMMA GoesOn ==
    ASSUME SubscriberSafe, NEW c \in Asker,
           NEW from \in {"waits", "sends"}, NEW to \in {"sends", "done", "failed"},
           Asks(c, from, to), UNCHANGED <<started, listeners, fresh, duplicate, subscriber>>,
           heard \subseteq heard', heard' \subseteq Topic,
           spoiled \subseteq spoiled', spoiled' \subseteq Topic,
           \/ to = "sends" \/ c \notin fresh
           \/ Wanted(c) \subseteq heard' \cup spoiled'
    PROVE  SubscriberSafe'
<1>1. ListenersSafe /\ HubStartsOnce /\ started \in BOOLEAN
  BY DEF SubscriberSafe
<1>2. /\ asks[c] = from /\ asks'[c] = to
      /\ \A d \in Asker : d # c => asks'[d] = asks[d]
      /\ asks' \in [Asker -> {"idle", "client", "waits", "sends", "done", "failed"}]
  BY <1>1, Progress
<1>3. ASSUME NEW t \in Topic \ spoiled', listeners'[t] # {}
      PROVE  t \in heard' \/ Wakes(t)'
  <2>1. t \in heard \/ Wakes(t)
    BY <1>1, <1>3 DEF ListenersSafe
  <2>2. ASSUME Wakes(t), t \notin heard' PROVE Wakes(t)'
    <3>1. PICK d \in listeners[t] \cap fresh : asks[d] \in {"waits", "sends"}
      BY <2>2 DEF Wakes
    <3>2. d \in Asker
      BY <1>1, <3>1 DEF ListenersSafe
    <3>3. asks'[d] \in {"waits", "sends"}
      <4>1. d = c => t \in Wanted(c)
        BY <3>1 DEF Wanted
      <4> QED
        BY <1>2, <1>3, <2>2, <3>1, <3>2, <4>1
    <3> QED
      BY <3>1, <3>3 DEF Wakes
  <2> QED
    BY <2>1, <2>2
<1>4. \A t \in Topic : \A d \in listeners'[t] : asks'[d] \notin {"idle", "client"}
  BY <1>1, <1>2 DEF ListenersSafe
<1>5. ListenersSafe'
  BY <1>1, <1>2, <1>3, <1>4 DEF ListenersSafe
<1>6. HubStartsOnce'
  BY <1>1, <1>2, OnceGoesOn DEF Asker
<1> QED
  BY <1>1, <1>5, <1>6, Zenon DEF SubscriberSafe

LEMMA AwaitedStep == ASSUME SubscriberSafe, NEW c \in Asker, Awaited(c) PROVE SubscriberSafe'
<1>1. PICK to \in {"sends", "done", "failed"} :
        to = IF c \notin fresh THEN "done"
             ELSE IF subscriber = "unset" THEN "failed" ELSE "sends"
  OBVIOUS
<1>2. /\ Asks(c, "waits", to)
      /\ spoiled' = IF c \in fresh /\ subscriber = "unset"
                    THEN spoiled \cup Wanted(c) ELSE spoiled
      /\ UNCHANGED <<started, listeners, fresh, duplicate, subscriber, heard>>
  BY <1>1 DEF Awaited, connection
<1>3. Wanted(c) \subseteq Topic /\ heard \subseteq Topic /\ spoiled \subseteq Topic
  BY DEF Wanted, SubscriberSafe, ListenersSafe
<1>4. \/ to = "sends" \/ c \notin fresh
      \/ Wanted(c) \subseteq heard' \cup spoiled'
  BY <1>1, <1>2
<1>5. spoiled \subseteq spoiled' /\ spoiled' \subseteq Topic
  BY <1>2, <1>3
<1> QED
  BY <1>2, <1>3, <1>4, <1>5, GoesOn

LEMMA SubscribeFailsStep ==
    ASSUME SubscriberSafe, NEW c \in Asker, SubscribeFails(c) PROVE SubscriberSafe'
<1>1. PICK from \in {"waits", "sends"} : Asks(c, from, "failed")
  BY DEF SubscribeFails
<1>2. /\ spoiled' = spoiled \cup Wanted(c)
      /\ UNCHANGED <<started, listeners, fresh, duplicate, subscriber, heard>>
  BY DEF SubscribeFails, connection
<1>3. Wanted(c) \subseteq Topic /\ heard \subseteq Topic /\ spoiled \subseteq Topic
  BY DEF Wanted, SubscriberSafe, ListenersSafe
<1> QED
  BY <1>1, <1>2, <1>3, GoesOn

LEMMA SubscribedStep ==
    ASSUME SubscriberSafe, NEW c \in Asker, Subscribed(c) PROVE SubscriberSafe'
<1>1. /\ Asks(c, "sends", "done") /\ heard' = heard \cup Wanted(c)
      /\ UNCHANGED <<started, listeners, fresh, duplicate, subscriber, spoiled>>
  BY DEF Subscribed
<1>2. Wanted(c) \subseteq Topic /\ heard \subseteq Topic /\ spoiled \subseteq Topic
  BY DEF Wanted, SubscriberSafe, ListenersSafe
<1> QED
  BY <1>1, <1>2, GoesOn

\* The connection changes alone, or quit() gives up every topic.
LEMMA ConnectionStep ==
    ASSUME SubscriberSafe, DuplicateUp \/ DuplicateFails \/ StartQuit \/ EndQuit
    PROVE  SubscriberSafe'
<1>1. UNCHANGED <<started, asks, listeners, fresh>>
  BY DEF DuplicateUp, DuplicateFails, StartQuit, EndQuit
<1>2. /\ duplicate' \in {"none", "connecting", "up", "failed"}
      /\ subscriber' \in {"unset", "open", "quitting"}
  BY DEF SubscriberSafe, ListenersSafe, DuplicateUp, DuplicateFails, StartQuit, EndQuit
<1>3. (heard' = heard /\ spoiled' = spoiled) \/ (heard' = {} /\ spoiled' = Topic)
  BY DEF DuplicateUp, DuplicateFails, StartQuit, EndQuit
<1>4. \A t \in Topic : Wakes(t)' <=> Wakes(t)
  BY <1>1 DEF Wakes
<1>5. ListenersSafe'
  BY <1>1, <1>2, <1>3, <1>4 DEF SubscriberSafe, ListenersSafe
<1>6. HubStartsOnce'
  BY <1>1 DEF SubscriberSafe, HubStartsOnce
<1> QED
  BY <1>1, <1>5, <1>6, Zenon DEF SubscriberSafe

LEMMA SubscriberStep == SubscriberSafe /\ [SubscriberNext]_subscriberVars => SubscriberSafe'
<1> SUFFICES ASSUME SubscriberSafe, [SubscriberNext]_subscriberVars PROVE SubscriberSafe'
  OBVIOUS
<1>1. CASE UNCHANGED subscriberVars
  <2>1. UNCHANGED <<started, asks, listeners, fresh, duplicate, subscriber, heard, spoiled>>
    BY <1>1 DEF subscriberVars
  <2>2. ListenersSafe' /\ HubStartsOnce'
    BY <2>1 DEF SubscriberSafe, ListenersSafe, HubStartsOnce, Wakes
  <2> QED
    BY <2>1, <2>2, Zenon DEF SubscriberSafe
<1> QED
  BY <1>1, StartHubStep, NoClientStep, HubSubscribesStep, SubscribesStep, AwaitedStep,
     SubscribeFailsStep, SubscribedStep, ConnectionStep DEF SubscriberNext

LEMMA AtMostOne ==
    ASSUME NEW S, \A x, y \in S : x = y
    PROVE  Cardinality(S) <= 1
<1>1. CASE S = {}
  BY <1>1, FS_EmptySet
<1>2. CASE S # {}
  <2>1. PICK x : S = {x}
    BY <1>2
  <2> QED
    BY <2>1, FS_Singleton
<1> QED
  BY <1>1, <1>2

LEMMA SubscriberSafety == SubscriberSafe => SubscriberInv
<1> SUFFICES ASSUME SubscriberSafe PROVE SubscriberInv
  OBVIOUS
<1>1. ListenersSafe /\ HubStartsOnce
  BY DEF SubscriberSafe
<1>2. SubscriberTypeOK
  BY Zenon DEF SubscriberTypeOK, SubscriberSafe, ListenersSafe
<1>3. SubscribedAreHeard
  BY <1>1 DEF SubscribedAreHeard, ListenersSafe, Wakes, Wanted
<1>4. Cardinality({c \in HubStart : asks[c] # "idle"}) <= 1
  BY <1>1, AtMostOne DEF HubStartsOnce
<1>5. \A c \in listeners[Broadcasts] : asks[c] # "idle"
  BY <1>1, SubscriberAssumption DEF ListenersSafe
<1>6. Cardinality(listeners[Broadcasts] \cap HubStart) <= 1
  BY <1>1, <1>5, AtMostOne DEF HubStartsOnce
<1> QED
  BY <1>2, <1>3, <1>4, <1>6 DEF SubscriberInv, HubHearsOnce

\* Whoever was told that it is subscribed is called, and the hub once only.
THEOREM ListenersAreCalled == SubscriberSpec => []SubscriberInv
BY SubscriberStarts, SubscriberStep, SubscriberSafety, PTL DEF SubscriberSpec

\* Broadcasts reach the sockets that hear a channel, and what members of it
\* are told of each other adds up.
THEOREM BroadcastsArrive == HubSpec /\ SubscriberSpec => []BroadcastInv
<1>1. HubInv /\ SubscriberInv => BroadcastInv
  BY DEF BroadcastInv
<1> QED
  BY <1>1, PresenceAddsUp, ListenersAreCalled, PTL
-----------------------------------------------------------------------------
(***************************************************************************)
(* The client of the websockets.  Once the socket in use has been greeted, *)
(* the channels that are not at the hub are those a call under way or the  *)
(* reconnect will take there.  One the connector takes for subscribed      *)
(* without reason is yet to be subscribed again, by a loop of the channels *)
(* or by its own authorization; before the greeting, that is so unless the *)
(* channel itself takes itself for subscribed, and then the loop is next.  *)
(***************************************************************************)
Call == [at : {"none", "next", "ask", "auth"}, todo : SUBSET EchoChannel,
         channel : EchoChannel \cup {NoLink}, id : Link \cup {NoLink}]

EchoTypes ==
    /\ link \in [Link -> {"unused", "connecting", "open", "ready", "closing", "closed"}]
    /\ current \in Link \cup {NoLink} /\ socketId \in Link \cup {NoLink}
    /\ subscribed \subseteq EchoChannel /\ pending \subseteq EchoChannel
    /\ channels \subseteq EchoChannel /\ joined \subseteq EchoChannel
    /\ marred \subseteq EchoChannel /\ timer \in BOOLEAN /\ intended \in BOOLEAN
    /\ task \in [Task -> Call]
    /\ atHub \in [Link -> SUBSET EchoChannel]

CallsInOrder ==
    /\ \A t \in Task : task[t].at = "none" => task[t].todo = {}
    /\ \A t \in Task : task[t].at \in {"none", "next"} <=> task[t].channel = NoLink
    /\ \A t \in Task : t[1] = "listen" => task[t].todo = {} /\ task[t].at # "next"

LoopsBegin ==
    \A s \in Link : link[s] \in {"unused", "connecting", "open"} =>
        task[<<"flush", s>>].at = "none" /\ task[<<"channels", s>>].at = "none"

\* Calls that run at the same time are the two loops of a new socket.
WaitsAlone ==
    \A t, u \in Waiting : t # u =>
        t[1] # u[1] /\ t[1] \in {"flush", "channels"} /\ u[1] \in {"flush", "channels"}

AsksUnjoined ==
    \A t \in Task : t[1] \in {"listen", "channels"} /\ task[t].at = "ask"
                    => task[t].channel \notin joined

HubAgrees == \A s \in Link : atHub[s] # {} => s = current /\ Up(s)

LinksAgree ==
    /\ socketId # NoLink => link[socketId] = "ready"
    /\ current # NoLink => /\ ~intended /\ link[current] \notin {"unused", "closing"}
                           /\ link[current] = "closed" => timer
    /\ \A t \in Task : task[t].at = "auth" =>
          /\ task[t].id \in Link /\ link[task[t].id] \notin {"unused", "connecting", "open"}
          /\ task[t].channel \in SignedChannel

Joining(t, ch) ==
    t[1] \in {"listen", "channels"} /\ task[t].at \in {"ask", "auth"} /\ task[t].channel = ch

Attended ==
    \A ch \in channels \ (joined \cup marred) : \E t \in Task : Joining(t, ch)

Forgotten ==
    \A ch \in EchoChannel \ (channels \cup marred) :
        /\ ch \notin subscribed /\ ch \notin pending /\ ch \notin joined
        /\ \A t \in Task : ~About(t, ch)

Authorizing(t, ch) ==
    task[t].at = "auth" /\ task[t].channel = ch /\ task[t].id = current

Visits(t, ch) == t[1] = "channels" /\ ch \in task[t].todo

Unjoined ==
    \A ch \in (subscribed \cap SignedChannel) \ (marred \cup joined) :
        \/ timer
        \/ current # NoLink /\ ch \in atHub[current]
        \/ \E t \in Task : Authorizing(t, ch)
        \/ \E t \in Task : Joining(t, ch) /\ task[t].at = "ask"

Claimed ==
    \A ch \in subscribed \ marred :
        \/ timer
        \/ ch \in atHub[current]
        \/ ch \in joined /\ \E t \in Task : Visits(t, ch)
        \/ \E t \in Task : Authorizing(t, ch)

Covered ==
    \A ch \in channels \ marred :
        \/ ch \in subscribed /\ (timer \/ ch \in atHub[current])
        \/ \E t \in Task : About(t, ch)

Greets == socketId # NoLink /\ socketId = current

EchoSafe ==
    /\ EchoTypes /\ CallsInOrder /\ LoopsBegin /\ WaitsAlone /\ AsksUnjoined /\ HubAgrees
    /\ LinksAgree /\ Attended /\ Forgotten /\ Unjoined
    /\ Greets => Claimed /\ Covered

LEMMA TaskForms ==
    /\ \A ch \in EchoChannel : <<"listen", ch>> \in Task
    /\ \A s \in Link : /\ <<"flush", s>> \in Task /\ <<"all", s>> \in Task
                       /\ <<"channels", s>> \in Task
    /\ \A x : /\ <<"listen", x>>[1] = "listen" /\ <<"flush", x>>[1] = "flush"
              /\ <<"all", x>>[1] = "all" /\ <<"channels", x>>[1] = "channels"
    /\ \A t \in Task : t[1] \in {"listen", "flush", "all", "channels"}
    /\ \A t \in Task : t[1] = "channels" => t[2] \in Link /\ t = <<"channels", t[2]>>
    /\ \A t \in Task : t[1] = "flush" => t[2] \in Link /\ t = <<"flush", t[2]>>
BY DEF Task

LEMMA EmptyCalls ==
    /\ NoCall \in Call /\ NoCall.at = "none" /\ NoCall.todo = {} /\ NoCall.channel = NoLink
    /\ \A left \in SUBSET EchoChannel :
          /\ Loop(left) \in Call /\ Loop(left).at = "next" /\ Loop(left).todo = left
          /\ Loop(left).channel = NoLink
BY DEF NoCall, Loop, Call

LEMMA EchoStarts == EchoInit => EchoSafe
<1> SUFFICES ASSUME EchoInit PROVE EchoSafe
  OBVIOUS
<1> USE DEF EchoInit
<1>1. EchoTypes
  BY EmptyCalls DEF EchoTypes
<1>2. \A t \in Task : task[t] = NoCall
  OBVIOUS
<1>3. CallsInOrder /\ WaitsAlone /\ AsksUnjoined
  BY <1>2, EmptyCalls DEF CallsInOrder, WaitsAlone, AsksUnjoined, Waiting
<1>4. LoopsBegin
  BY <1>2, EmptyCalls, TaskForms DEF LoopsBegin
<1>5. HubAgrees /\ LinksAgree /\ Attended /\ Unjoined
  BY <1>2, EmptyCalls DEF HubAgrees, LinksAgree, Attended, Unjoined
<1>6. Forgotten
  BY <1>2, EmptyCalls DEF Forgotten, About
<1>7. ~Greets
  BY DEF Greets
<1> QED
  BY <1>1, <1>3, <1>4, <1>5, <1>6, <1>7 DEF EchoSafe

\* A call goes on: the others stay as they are.
Moves(t) == task' \in [Task -> Call] /\ \A u \in Task : u # t => task'[u] = task[u]

LEMMA MovesAlone ==
    ASSUME NEW t \in Task, Moves(t), CallsInOrder, LoopsBegin, WaitsAlone,
           task'[t].at = "none" => task'[t].todo = {},
           task'[t].at \in {"none", "next"} <=> task'[t].channel = NoLink,
           t[1] = "listen" => task'[t].todo = {} /\ task'[t].at # "next",
           task[t].at = "none" => task'[t].at = "none" \/ t[1] \in {"listen", "all"},
           t \in Waiting \/ Waiting = {} \/ task'[t].at \notin {"next", "ask"},
           \A s \in Link : link'[s] \in {"unused", "connecting", "open"} =>
                              link[s] \in {"unused", "connecting", "open"}
    PROVE  CallsInOrder' /\ LoopsBegin' /\ WaitsAlone'
<1>1. CallsInOrder'
  BY DEF Moves, CallsInOrder
<1>2. LoopsBegin'
  <2> SUFFICES ASSUME NEW s \in Link, link'[s] \in {"unused", "connecting", "open"},
                      NEW u \in {<<"flush", s>>, <<"channels", s>>}
               PROVE  task'[u].at = "none"
    BY DEF LoopsBegin
  <2>1. u \in Task /\ u[1] \notin {"listen", "all"} /\ task[u].at = "none"
    BY TaskForms DEF LoopsBegin
  <2> QED
    BY <2>1 DEF Moves
<1>3. \A u \in Task : u # t => (u \in Waiting' <=> u \in Waiting)
  BY DEF Moves, Waiting
<1>4. t \in Waiting' => t \in Waiting \/ Waiting = {}
  BY DEF Waiting
<1>5. Waiting \subseteq Task /\ Waiting' \subseteq Task
  BY DEF Waiting
<1>6. Waiting' \subseteq Waiting \/ Waiting' \subseteq {t}
  BY <1>3, <1>4, <1>5
<1>7. WaitsAlone'
  BY <1>6 DEF WaitsAlone
<1> QED
  BY <1>1, <1>2, <1>7

\* connect(): a client whose socket was greeted keeps it.
LEMMA ConnectStep ==
    ASSUME EchoTypes, HubAgrees, LinksAgree, Connect, UNCHANGED socketId
    PROVE  /\ link' \in [Link -> {"unused", "connecting", "open", "ready", "closing", "closed"}]
           /\ current' \in Link /\ link'[current'] \in {"connecting", "open", "ready"}
           /\ intended' = FALSE
           /\ \A s \in Link : link'[s] \in {"unused", "connecting", "open"} =>
                                 link[s] \in {"unused", "connecting", "open"}
           /\ socketId # NoLink => link'[socketId] = "ready"
           /\ Greets' => Greets /\ current' = current /\ Up(current)
           /\ \A s \in Link : atHub[s] # {} => s = current /\ Up(s) /\ current' = s /\ Up(s)'
           /\ Up(current) => current' = current /\ Up(current)'
<1>1. CASE Up(current)
  <2>1. UNCHANGED <<link, current, intended>>
    BY <1>1 DEF Connect
  <2>2. current \in Link /\ current # NoLink
    BY <1>1 DEF EchoTypes, Up
  <2>3. Greets' => Greets
    BY <2>1 DEF Greets
  <2>4. Up(current)' /\ \A s \in Link : Up(s)' <=> Up(s)
    BY <1>1, <2>1 DEF Up
  <2>5. intended' = FALSE
    BY <2>1, <2>2 DEF LinksAgree, EchoTypes
  <2>6. link'[current'] \in {"connecting", "open", "ready"}
    BY <1>1, <2>1 DEF Up
  <2> QED
    BY <1>1, <2>1, <2>2, <2>3, <2>4, <2>5, <2>6 DEF EchoTypes, HubAgrees, LinksAgree
<1>2. CASE ~Up(current)
  <2>1. PICK s \in Link :
          /\ link[s] = "unused" /\ link' = [link EXCEPT ![s] = "connecting"]
          /\ current' = s /\ intended' = FALSE
    BY <1>2 DEF Connect
  <2>2. \A o \in Link : link'[o] = IF o = s THEN "connecting" ELSE link[o]
    BY <2>1 DEF EchoTypes
  <2>3. link' \in [Link -> {"unused", "connecting", "open", "ready", "closing", "closed"}]
    BY <2>1 DEF EchoTypes
  <2>4. socketId # NoLink => socketId # s /\ link'[socketId] = "ready"
    BY <2>1, <2>2 DEF LinksAgree, EchoTypes
  <2>5. ~Greets'
    BY <2>1, <2>4 DEF Greets
  <2>6. \A o \in Link : atHub[o] = {}
    BY <1>2 DEF HubAgrees
  <2> QED
    BY <1>2, <2>1, <2>2, <2>3, <2>4, <2>5, <2>6
<1> QED
  BY <1>1, <1>2

LEMMA UnsubscribesStep ==
    ASSUME EchoTypes, NEW ch \in EchoChannel, Unsubscribes(ch)
    PROVE  /\ subscribed' = subscribed \ {ch}
           /\ atHub' \in [Link -> SUBSET EchoChannel]
           /\ \A s \in Link : atHub'[s] \subseteq atHub[s]
           /\ \A s \in Link : \A c \in atHub[s] : c # ch => c \in atHub'[s]
<1>1. CASE ch \in subscribed
  <2>1. /\ subscribed' = subscribed \ {ch}
        /\ atHub' = IF Up(current) THEN [atHub EXCEPT ![current] = @ \ {ch}] ELSE atHub
    BY <1>1 DEF Unsubscribes
  <2> QED
    BY <2>1 DEF EchoTypes
<1>2. CASE ch \notin subscribed
  BY <1>2 DEF Unsubscribes, EchoTypes
<1> QED
  BY <1>1, <1>2

LEMMA SendSubscribeStep ==
    ASSUME EchoTypes, NEW ch \in EchoChannel, NEW id, SendSubscribe(ch, id)
    PROVE  /\ subscribed' = subscribed \cup {ch}
           /\ atHub' \in [Link -> SUBSET EchoChannel]
           /\ \A s \in Link : atHub[s] \subseteq atHub'[s]
           /\ \A s \in Link : atHub'[s] # {} => atHub[s] # {} \/ (s = current /\ Up(current))
           /\ Up(current) /\ (ch \in OpenChannel \/ id = current) => ch \in atHub'[current]
<1>1. /\ subscribed' = subscribed \cup {ch}
      /\ atHub' = IF Up(current) /\ (ch \in OpenChannel \/ id = current)
                  THEN [atHub EXCEPT ![current] = @ \cup {ch}] ELSE atHub
  BY DEF SendSubscribe
<1>2. Up(current) => current \in Link
  BY DEF Up, EchoTypes
<1> QED
  BY <1>1, <1>2 DEF EchoTypes

\* A loop takes the next of its channels, or is at its end.
LEMMA NextChannelStep == ASSUME EchoSafe, NEW t \in Task, NextChannel(t) PROVE EchoSafe'
<1>1. /\ task[t].at = "next"
      /\ UNCHANGED <<link, current, socketId, intended, timer, pending, channels, marred>>
  BY DEF NextChannel
<1>2. /\ EchoTypes /\ CallsInOrder /\ LoopsBegin /\ WaitsAlone /\ AsksUnjoined /\ HubAgrees
      /\ LinksAgree /\ Attended /\ Forgotten /\ Unjoined
  BY DEF EchoSafe
<1>3. t \in Waiting /\ task[t] \in Call /\ task[t].channel = NoLink /\ t[1] # "listen"
  BY <1>1, <1>2 DEF Waiting, EchoTypes, CallsInOrder
<1>4. CASE task[t].todo = {}
  <2>1. task' = [task EXCEPT ![t] = NoCall] /\ UNCHANGED <<subscribed, bound, atHub, joined>>
    BY <1>4 DEF NextChannel
  <2>2. Moves(t) /\ task'[t] = NoCall
    BY <1>2, <2>1, EmptyCalls DEF Moves, EchoTypes
  <2>3. CallsInOrder' /\ LoopsBegin' /\ WaitsAlone'
    BY <1>1, <1>2, <1>3, <2>2, MovesAlone, EmptyCalls
  <2>4. EchoTypes'
    BY <1>1, <1>2, <2>1, <2>2 DEF EchoTypes, Moves
  <2>5. AsksUnjoined'
    BY <1>2, <2>1, <2>2, EmptyCalls DEF AsksUnjoined, Moves
  <2>6. HubAgrees' /\ LinksAgree'
    <3>1. HubAgrees'
      BY <1>1, <1>2, <2>1 DEF HubAgrees, Up
    <3>2. \A u \in Task : task'[u].at = "auth" => task'[u] = task[u]
      BY <2>2, EmptyCalls DEF Moves
    <3> QED
      BY <1>1, <1>2, <3>1, <3>2 DEF LinksAgree
  <2>7. \A u \in Task, ch \in EchoChannel :
           /\ About(u, ch)' <=> About(u, ch)
           /\ Joining(u, ch)' <=> Joining(u, ch)
           /\ Authorizing(u, ch)' <=> Authorizing(u, ch)
           /\ Visits(u, ch)' <=> Visits(u, ch)
           /\ Joining(u, ch)' /\ task'[u].at = "ask" <=> Joining(u, ch) /\ task[u].at = "ask"
    <3>1. \A ch \in EchoChannel : ch # NoLink
      BY EchoAssumption DEF EchoChannel
    <3>2. \A ch \in EchoChannel :
             /\ ~About(t, ch)' /\ ~About(t, ch)
             /\ ~Joining(t, ch)' /\ ~Joining(t, ch)
             /\ ~Authorizing(t, ch)' /\ ~Authorizing(t, ch)
             /\ ~Visits(t, ch)' /\ ~Visits(t, ch)
      BY <1>1, <1>3, <1>4, <2>2, <3>1, EmptyCalls DEF About, Joining, Authorizing, Visits
    <3>3. \A u \in Task, ch \in EchoChannel : u # t =>
             /\ About(u, ch)' <=> About(u, ch)
             /\ Joining(u, ch)' <=> Joining(u, ch)
             /\ Authorizing(u, ch)' <=> Authorizing(u, ch)
             /\ Visits(u, ch)' <=> Visits(u, ch)
             /\ task'[u].at = task[u].at
      BY <1>1, <2>2 DEF About, Joining, Authorizing, Visits, Moves
    <3> QED
      BY <3>2, <3>3
  <2>8. Attended' /\ Forgotten' /\ Unjoined'
    <3>1. Attended' /\ Forgotten'
      BY <1>1, <1>2, <2>1, <2>7 DEF Attended, Forgotten, EchoTypes
    <3>2. ASSUME NEW ch \in (subscribed \cap SignedChannel) \ (marred \cup joined)
          PROVE  \/ timer
                 \/ current # NoLink /\ ch \in atHub[current]
                 \/ \E u \in Task : Authorizing(u, ch)'
                 \/ \E u \in Task : Joining(u, ch)' /\ task'[u].at = "ask"
      <4>1. ch \in EchoChannel
        BY <1>2 DEF EchoTypes
      <4> QED
        BY <1>2, <2>7, <4>1 DEF Unjoined
    <3>3. Unjoined'
      BY <1>1, <2>1, <3>2 DEF Unjoined
    <3> QED
      BY <3>1, <3>3
  <2>9. ASSUME Greets' PROVE Claimed' /\ Covered'
    <3>1. Greets
      BY <1>1, <2>9 DEF Greets
    <3>2. Claimed /\ Covered
      BY <3>1 DEF EchoSafe
    <3>3. Claimed'
      BY <1>1, <1>2, <2>1, <2>7, <3>2 DEF Claimed, EchoTypes
    <3>4. Covered'
      BY <1>1, <1>2, <2>1, <2>7, <3>2 DEF Covered, EchoTypes
    <3> QED
      BY <3>3, <3>4
  <2> QED
    BY <2>3, <2>4, <2>5, <2>6, <2>8, <2>9 DEF EchoSafe
<1>5. CASE task[t].todo # {}
  <2>1. PICK ch \in task[t].todo :
          /\ task' = [task EXCEPT ![t].at = "ask", ![t].channel = ch, ![t].todo = @ \ {ch}]
          /\ IF t[1] = "channels" /\ ch \in joined
             THEN Unsubscribes(ch) /\ joined' = joined \ {ch}
             ELSE UNCHANGED <<subscribed, bound, atHub, joined>>
    BY <1>5 DEF NextChannel
  <2>2. ch \in EchoChannel /\ ch # NoLink
    BY <1>3, EchoAssumption DEF Call, EchoChannel
  <2>3. PICK new \in Call :
          /\ task' = [task EXCEPT ![t] = new]
          /\ new.at = "ask" /\ new.channel = ch /\ new.todo = task[t].todo \ {ch}
    <3> DEFINE new == [task[t] EXCEPT !.at = "ask", !.channel = ch, !.todo = @ \ {ch}]
    <3>1. new \in Call /\ new.at = "ask" /\ new.channel = ch /\ new.todo = task[t].todo \ {ch}
      BY <1>3, <2>2 DEF Call
    <3>2. task' = [task EXCEPT ![t] = new]
      BY <1>2, <2>1 DEF EchoTypes
    <3> QED
      BY <3>1, <3>2
  <2>4. Moves(t) /\ task'[t] = new
    BY <1>2, <2>3 DEF Moves, EchoTypes
  <2>5. CallsInOrder' /\ LoopsBegin' /\ WaitsAlone'
    BY <1>1, <1>2, <1>3, <2>2, <2>3, <2>4, MovesAlone
  <2>6. /\ joined' \subseteq joined /\ subscribed' \subseteq subscribed
        /\ atHub' \in [Link -> SUBSET EchoChannel]
        /\ \A s \in Link : atHub'[s] \subseteq atHub[s]
        /\ \A s \in Link : \A c \in atHub[s] : c # ch => c \in atHub'[s]
        /\ \A c \in EchoChannel : c # ch =>
              (c \in joined' <=> c \in joined) /\ (c \in subscribed' <=> c \in subscribed)
    BY <1>2, <2>1, <2>2, UnsubscribesStep DEF EchoTypes
  <2>7. EchoTypes'
    BY <1>1, <1>2, <2>4, <2>6 DEF EchoTypes, Moves
  <2>8. t[1] \in {"listen", "channels"} => ch \notin joined'
    BY <1>3, <2>1
  <2>9. AsksUnjoined'
    BY <1>2, <2>3, <2>4, <2>6, <2>8 DEF AsksUnjoined, Moves
  <2>10. HubAgrees' /\ LinksAgree'
    <3>1. HubAgrees'
      BY <1>1, <1>2, <2>6 DEF HubAgrees, Up
    <3>2. \A u \in Task : task'[u].at = "auth" => task'[u] = task[u]
      BY <2>3, <2>4 DEF Moves
    <3> QED
      BY <1>1, <1>2, <3>1, <3>2 DEF LinksAgree
  <2>11. /\ About(t, ch)' /\ About(t, ch)
         /\ \A c \in EchoChannel : About(t, c)' <=> About(t, c)
         /\ t[1] \in {"listen", "channels"} => Joining(t, ch)'
         /\ \A c \in EchoChannel : ~Joining(t, c) /\ ~Authorizing(t, c)
    BY <1>1, <1>3, <2>1, <2>2, <2>3, <2>4, EchoAssumption
       DEF About, Joining, Authorizing, EchoChannel
  <2>12. \A u \in Task, c \in EchoChannel : u # t =>
            /\ About(u, c)' <=> About(u, c)
            /\ Joining(u, c)' <=> Joining(u, c)
            /\ Authorizing(u, c)' <=> Authorizing(u, c)
            /\ Visits(u, c)' <=> Visits(u, c)
            /\ task'[u].at = task[u].at
    BY <1>1, <2>4 DEF About, Joining, Authorizing, Visits, Moves
  <2>13. \A c \in EchoChannel : \A u \in Task :
            /\ Joining(u, c) => Joining(u, c)'
            /\ Authorizing(u, c) => Authorizing(u, c)'
            /\ About(u, c)' <=> About(u, c)
            /\ Joining(u, c) /\ task[u].at = "ask" => Joining(u, c)' /\ task'[u].at = "ask"
    BY <2>11, <2>12
  <2>14. Attended'
    <3>1. ASSUME NEW c \in channels' \ (joined' \cup marred')
          PROVE  \E u \in Task : Joining(u, c)'
      <4>1. c \in EchoChannel
        BY <1>1, <1>2 DEF EchoTypes
      <4>2. CASE c \in joined
        <5>1. c = ch /\ t[1] = "channels"
          BY <2>1, <2>6, <3>1, <4>1, <4>2
        <5> QED
          BY <2>11, <5>1
      <4>3. CASE c \notin joined
        BY <1>1, <1>2, <2>13, <3>1, <4>1, <4>3 DEF Attended
      <4> QED
        BY <4>2, <4>3
    <3> QED
      BY <3>1 DEF Attended
  <2>15. Forgotten'
    BY <1>1, <1>2, <2>6, <2>13 DEF Forgotten
  <2>16. Unjoined'
    <3>1. ASSUME NEW c \in (subscribed' \cap SignedChannel) \ (marred' \cup joined')
          PROVE  \/ timer'
                 \/ current' # NoLink /\ c \in atHub'[current']
                 \/ \E u \in Task : Authorizing(u, c)'
                 \/ \E u \in Task : Joining(u, c)' /\ task'[u].at = "ask"
      <4>1. c \in EchoChannel /\ c \in subscribed /\ c \notin marred
        BY <1>1, <1>2, <2>6, <3>1 DEF EchoTypes
      <4>2. c \notin joined /\ ~(c = ch /\ t[1] = "channels" /\ ch \in joined)
        <5>1. CASE c = ch
          BY <1>2, <2>1, <2>2, <3>1, <5>1, UnsubscribesStep
        <5>2. CASE c # ch
          BY <2>6, <3>1, <4>1, <5>2
        <5> QED
          BY <5>1, <5>2
      <4>3. \A s \in Link : c \in atHub[s] => c \in atHub'[s]
        BY <2>1, <2>6, <4>2
      <4>4. \/ timer
            \/ current # NoLink /\ c \in atHub[current]
            \/ \E u \in Task : Authorizing(u, c)
            \/ \E u \in Task : Joining(u, c) /\ task[u].at = "ask"
        BY <1>2, <3>1, <4>1, <4>2 DEF Unjoined
      <4> QED
        BY <1>1, <1>2, <2>13, <4>1, <4>3, <4>4 DEF EchoTypes
    <3> QED
      BY <3>1 DEF Unjoined
  <2>17. ASSUME Greets' PROVE Claimed' /\ Covered'
    <3>1. Greets /\ current \in Link
      BY <1>1, <1>2, <2>17 DEF Greets, EchoTypes
    <3>2. Claimed /\ Covered
      BY <3>1 DEF EchoSafe
    <3>3. \A u \in Task, c \in EchoChannel : c # ch /\ Visits(u, c) => Visits(u, c)'
      BY <2>3, <2>4 DEF Moves, Visits
    <3>4. ASSUME NEW c \in subscribed' \ marred'
          PROVE  \/ timer'
                 \/ c \in atHub'[current']
                 \/ c \in joined' /\ \E u \in Task : Visits(u, c)'
                 \/ \E u \in Task : Authorizing(u, c)'
      <4>1. c \in EchoChannel /\ c \in subscribed \ marred /\ current' = current /\ timer' = timer
        BY <1>1, <1>2, <2>6, <3>4 DEF EchoTypes
      <4>4. \/ timer
            \/ c \in atHub[current]
            \/ c \in joined /\ \E u \in Task : Visits(u, c)
            \/ \E u \in Task : Authorizing(u, c)
        BY <3>2, <4>1 DEF Claimed
      <4>2. CASE c # ch
        <5>2. c \in atHub[current] => c \in atHub'[current]
          BY <2>6, <3>1, <4>2
        <5> QED
          BY <2>6, <2>13, <3>3, <4>1, <4>2, <4>4, <5>2
      <4>3. CASE c = ch
        <5>1. ~(t[1] = "channels" /\ ch \in joined)
          BY <1>2, <2>1, <2>2, <3>4, <4>3, UnsubscribesStep
        <5>2. UNCHANGED <<subscribed, bound, atHub, joined>>
          BY <2>1, <5>1
        <5>4. ch \in joined => \A u \in Task : Visits(u, ch) => Visits(u, ch)'
          BY <2>2, <2>12, <5>1 DEF Visits
        <5> QED
          BY <2>2, <2>13, <4>1, <4>3, <4>4, <5>2, <5>4
      <4> QED
        BY <4>2, <4>3
    <3>5. Claimed'
      BY <3>4 DEF Claimed
    <3>6. ASSUME NEW c \in channels' \ marred'
          PROVE  \/ c \in subscribed' /\ (timer' \/ c \in atHub'[current'])
                 \/ \E u \in Task : About(u, c)'
      <4>1. c \in EchoChannel /\ c \in channels \ marred /\ current' = current /\ timer' = timer
        BY <1>1, <1>2, <3>6 DEF EchoTypes
      <4>2. CASE c = ch
        BY <2>11, <4>2
      <4>3. CASE c # ch
        <5>1. \/ c \in subscribed /\ (timer \/ c \in atHub[current])
              \/ \E u \in Task : About(u, c)
          BY <3>2, <4>1 DEF Covered
        <5>2. c \in atHub[current] => c \in atHub'[current]
          BY <2>6, <3>1, <4>3
        <5> QED
          BY <2>6, <2>13, <4>1, <4>3, <5>1, <5>2
      <4> QED
        BY <4>2, <4>3
    <3>7. Covered'
      BY <3>6 DEF Covered
    <3> QED
      BY <3>5, <3>7
  <2> QED
    BY <2>5, <2>7, <2>9, <2>10, <2>14, <2>15, <2>16, <2>17 DEF EchoSafe
<1> QED
  BY <1>4, <1>5

\* No channel joins while another call is about to ask for it.
LEMMA AskNotStep == ASSUME EchoSafe, NEW t \in Task, AskNot(t) PROVE FALSE
BY DEF AskNot, EchoSafe, AsksUnjoined

\* A subscribe() returns: what a call leaves that ends, or its loop.
Finished(t, ch) ==
    /\ Moves(t) /\ task'[t].at \in {"none", "next"} /\ task'[t].channel = NoLink
    /\ task'[t].todo = task[t].todo
    /\ task'[t].at = "none" => task'[t].todo = {}
    /\ joined' = IF t[1] \in {"listen", "channels"} THEN joined \cup {ch} ELSE joined
    /\ channels' = channels
    /\ subscribed \subseteq subscribed' /\ subscribed' \subseteq subscribed \cup {ch}
    /\ pending' \subseteq pending \cup {ch}
    /\ marred \subseteq marred' /\ marred' \subseteq EchoChannel
    /\ atHub' \in [Link -> SUBSET EchoChannel]
    /\ \A s \in Link : atHub[s] \subseteq atHub'[s]

LEMMA ReturnsStep ==
    ASSUME EchoTypes, CallsInOrder, NEW t \in Task, NEW ch \in EchoChannel,
           task[t].at \in {"ask", "auth"}, Returns(t, ch)
    PROVE  /\ Moves(t) /\ task'[t].at \in {"none", "next"} /\ task'[t].channel = NoLink
           /\ task'[t].todo = task[t].todo
           /\ task'[t].at = "none" => task'[t].todo = {}
           /\ t[1] = "listen" => task'[t].at = "none"
           /\ joined' = IF t[1] \in {"listen", "channels"} THEN joined \cup {ch} ELSE joined
<1>1. /\ joined' = IF t[1] \in {"listen", "channels"} THEN joined \cup {ch} ELSE joined
      /\ task' = [task EXCEPT ![t] = IF t[1] = "listen" THEN NoCall ELSE Loop(@.todo)]
  BY DEF Returns
<1>2. PICK new : new = IF t[1] = "listen" THEN NoCall ELSE Loop(task[t].todo)
  OBVIOUS
<1>3. task' = [task EXCEPT ![t] = new]
  BY <1>1, <1>2
<1>4. task[t].todo \in SUBSET EchoChannel
  BY DEF EchoTypes, Call
<1>5. /\ new \in Call /\ new.at \in {"none", "next"} /\ new.channel = NoLink
      /\ new.todo = task[t].todo
      /\ new.at = "none" => new.todo = {}
      /\ t[1] = "listen" => new.at = "none"
  BY <1>2, <1>4, EmptyCalls DEF CallsInOrder
<1>6. Moves(t) /\ task'[t] = new
  BY <1>3, <1>5 DEF Moves, EchoTypes
<1> QED
  BY <1>1, <1>5, <1>6

LEMMA FinishedStep ==
    ASSUME EchoSafe, NEW t \in Task, NEW ch \in EchoChannel, task[t].channel = ch,
           task[t].at \in {"ask", "auth"}, t \in Waiting \/ Waiting = {}, Finished(t, ch)
    PROVE  AsksUnjoined' /\ Attended' /\ Forgotten'
<1>1. EchoTypes /\ CallsInOrder /\ WaitsAlone /\ AsksUnjoined /\ Attended /\ Forgotten
  BY DEF EchoSafe
<1>2. /\ Moves(t) /\ task'[t].at \in {"none", "next"} /\ task'[t].channel = NoLink
      /\ task'[t].todo = task[t].todo
      /\ joined' = IF t[1] \in {"listen", "channels"} THEN joined \cup {ch} ELSE joined
  BY DEF Finished
<1>3. \A u \in Task, c \in EchoChannel : u # t =>
         /\ About(u, c)' <=> About(u, c)
         /\ Joining(u, c)' <=> Joining(u, c)
  BY <1>2 DEF About, Joining, Moves
<1>4. \A c \in EchoChannel : About(t, c)' => About(t, c)
  BY <1>2, EchoAssumption DEF About, EchoChannel
<1>5. About(t, ch)
  BY DEF About
<1>6. ASSUME NEW u \in Task, u[1] \in {"listen", "channels"}, task'[u].at = "ask"
      PROVE  task'[u].channel \notin joined'
  <2>1. u # t /\ task'[u] = task[u]
    BY <1>2, <1>6 DEF Moves
  <2>2. u \in Waiting /\ t \in Waiting
    BY <1>6, <2>1 DEF Waiting
  <2>3. t[1] \notin {"listen", "channels"}
    BY <1>1, <1>6, <2>1, <2>2 DEF WaitsAlone
  <2> QED
    BY <1>1, <1>2, <1>6, <2>1, <2>3 DEF AsksUnjoined
<1>7. AsksUnjoined'
  BY <1>6 DEF AsksUnjoined
<1>8. ASSUME NEW c \in channels' \ (joined' \cup marred')
      PROVE  \E u \in Task : Joining(u, c)'
  <2>1. c \in EchoChannel /\ c \in channels \ (joined \cup marred)
    BY <1>1, <1>2, <1>8 DEF Finished, EchoTypes
  <2>2. PICK u \in Task : Joining(u, c)
    BY <1>1, <2>1 DEF Attended
  <2>3. u # t
    BY <1>2, <1>8, <2>2 DEF Joining
  <2> QED
    BY <1>3, <2>1, <2>2, <2>3
<1>9. Attended'
  BY <1>8 DEF Attended
<1>10. ASSUME NEW c \in EchoChannel \ (channels' \cup marred')
       PROVE  /\ c \notin subscribed' /\ c \notin pending' /\ c \notin joined'
              /\ \A u \in Task : ~About(u, c)'
  <2>1. c \in EchoChannel \ (channels \cup marred)
    BY <1>10 DEF Finished
  <2>2. /\ c \notin subscribed /\ c \notin pending /\ c \notin joined
        /\ \A u \in Task : ~About(u, c)
    BY <1>1, <2>1 DEF Forgotten
  <2>3. c # ch
    BY <1>5, <2>2
  <2> QED
    BY <1>2, <1>3, <1>4, <2>2, <2>3 DEF Finished
<1>11. Forgotten'
  BY <1>10 DEF Forgotten
<1> QED
  BY <1>7, <1>9, <1>11

\* While the client is greeted, its channel is at the hub then, or is marred,
\* or was taken for subscribed, or has another call to make it good.
LEMMA FinishedGreeted ==
    ASSUME EchoSafe, NEW t \in Task, NEW ch \in EchoChannel, task[t].channel = ch,
           task[t].at \in {"ask", "auth"}, Finished(t, ch), Greets,
           UNCHANGED <<current, timer>>,
           \/ ch \in marred'
           \/ ch \in subscribed' /\ ch \in atHub'[current]
           \/ task[t].at = "ask" /\ ch \in subscribed
           \/ ch \in subscribed' /\ ch \in joined' /\ \E u \in Task : Visits(u, ch)
           \/ ch \in subscribed' /\ \E u \in Task : u # t /\ Authorizing(u, ch)
    PROVE  Claimed' /\ Covered'
<1>1. EchoTypes /\ CallsInOrder /\ Claimed /\ Covered /\ current \in Link
  BY DEF EchoSafe, Greets, EchoTypes
<1>2. /\ Moves(t) /\ task'[t].at \in {"none", "next"} /\ task'[t].channel = NoLink
      /\ task'[t].todo = task[t].todo
      /\ task'[t].at = "none" => task'[t].todo = {}
      /\ joined \subseteq joined' /\ subscribed \subseteq subscribed' /\ marred \subseteq marred'
      /\ subscribed' \subseteq subscribed \cup {ch} /\ channels' = channels
      /\ atHub[current] \subseteq atHub'[current]
  BY <1>1 DEF Finished
<1>3. \A u \in Task, c \in EchoChannel : u # t =>
         /\ About(u, c)' <=> About(u, c)
         /\ Authorizing(u, c)' <=> Authorizing(u, c)
  BY <1>2 DEF About, Authorizing, Moves
<1>4. \A c \in task[t].todo : About(t, c)'
  BY <1>2 DEF About
<1>5. \A c \in EchoChannel : c # ch =>
         (About(t, c) => About(t, c)') /\ ~Authorizing(t, c)
  BY <1>2, <1>4 DEF About, Authorizing
<1>6. \A u \in Task, c \in EchoChannel :
         (Visits(u, c)' <=> Visits(u, c)) /\ (Visits(u, c) => About(u, c)')
  <2> SUFFICES ASSUME NEW u \in Task, NEW c \in EchoChannel
               PROVE  (Visits(u, c)' <=> Visits(u, c)) /\ (Visits(u, c) => About(u, c)')
    OBVIOUS
  <2>1. task'[u].todo = task[u].todo
    BY <1>2 DEF Moves
  <2>2. c \in task[u].todo => About(u, c)'
    <3>1. CASE u = t
      BY <1>4, <3>1
    <3>2. CASE u # t
      BY <1>1, <1>2, <3>2 DEF CallsInOrder, About, Moves
    <3> QED
      BY <3>1, <3>2
  <2> QED
    BY <2>1, <2>2 DEF Visits
<1>7. \A u \in Task, c \in EchoChannel : Authorizing(u, c)' => About(u, c)'
  BY DEF Authorizing, About
<1>8. ASSUME NEW c \in subscribed \ marred, c # ch \/ task[t].at = "ask"
      PROVE  \/ timer'
             \/ c \in atHub'[current']
             \/ c \in joined' /\ \E u \in Task : Visits(u, c)'
             \/ \E u \in Task : Authorizing(u, c)'
  <2>1. c \in EchoChannel
    BY <1>1 DEF EchoTypes
  <2>2. \/ timer
        \/ c \in atHub[current]
        \/ c \in joined /\ \E u \in Task : Visits(u, c)
        \/ \E u \in Task : Authorizing(u, c)
    BY <1>1 DEF Claimed
  <2>3. ~Authorizing(t, c)
    BY <1>5, <1>8, <2>1 DEF Authorizing
  <2> QED
    BY <1>2, <1>3, <1>6, <2>1, <2>2, <2>3
<1>9. ASSUME NEW c \in subscribed' \ marred'
      PROVE  \/ timer'
             \/ c \in atHub'[current']
             \/ c \in joined' /\ \E u \in Task : Visits(u, c)'
             \/ \E u \in Task : Authorizing(u, c)'
  <2>1. CASE c # ch
    BY <1>2, <1>8, <1>9, <2>1
  <2>2. CASE c = ch /\ task[t].at = "ask" /\ ch \in subscribed
    BY <1>2, <1>8, <1>9, <2>2
  <2>3. CASE c = ch /\ ~(task[t].at = "ask" /\ ch \in subscribed)
    BY <1>3, <1>6, <1>9, <2>3
  <2> QED
    BY <2>1, <2>2, <2>3
<1>10. Claimed'
  BY <1>9 DEF Claimed
<1>11. ASSUME NEW c \in channels' \ marred'
       PROVE  \/ c \in subscribed' /\ (timer' \/ c \in atHub'[current'])
              \/ \E u \in Task : About(u, c)'
  <2>1. c \in channels \ marred /\ c \in EchoChannel
    BY <1>1, <1>2, <1>11 DEF EchoTypes
  <2>2. CASE c # ch
    <3>1. \/ c \in subscribed /\ (timer \/ c \in atHub[current])
          \/ \E u \in Task : About(u, c)
      BY <1>1, <2>1 DEF Covered
    <3> QED
      BY <1>2, <1>3, <1>5, <2>1, <2>2, <3>1
  <2>3. CASE c = ch
    <3>1. ch \in subscribed'
      BY <1>2, <1>11, <2>3
    <3>2. \/ timer'
          \/ ch \in atHub'[current']
          \/ ch \in joined' /\ \E u \in Task : Visits(u, ch)'
          \/ \E u \in Task : Authorizing(u, ch)'
      BY <1>9, <1>11, <2>3, <3>1
    <3> QED
      BY <1>6, <1>7, <2>3, <3>1, <3>2
  <2> QED
    BY <2>2, <2>3
<1>12. Covered'
  BY <1>11 DEF Covered
<1> QED
  BY <1>10, <1>12

\* subscribe() of the connector.
LEMMA AskStep == ASSUME EchoSafe, NEW t \in Task, Ask(t) PROVE EchoSafe'
<1>1. PICK ch : ch = task[t].channel
  OBVIOUS
<1>2. /\ task[t].at = "ask" /\ ~(t[1] \in {"listen", "channels"} /\ ch \in joined)
      /\ Connect /\ UNCHANGED <<socketId, timer, channels, marred>>
  BY <1>1 DEF Ask
<1>3. /\ EchoTypes /\ CallsInOrder /\ LoopsBegin /\ WaitsAlone /\ AsksUnjoined /\ HubAgrees
      /\ LinksAgree /\ Attended /\ Forgotten /\ Unjoined
  BY DEF EchoSafe
<1>4. t \in Waiting /\ task[t] \in Call /\ ch # NoLink /\ ch \in EchoChannel
  BY <1>1, <1>2, <1>3 DEF Waiting, EchoTypes, CallsInOrder, Call
<1>5. /\ link' \in [Link -> {"unused", "connecting", "open", "ready", "closing", "closed"}]
      /\ current' \in Link /\ link'[current'] \in {"connecting", "open", "ready"}
      /\ intended' = FALSE
      /\ \A s \in Link : link'[s] \in {"unused", "connecting", "open"} =>
                            link[s] \in {"unused", "connecting", "open"}
      /\ socketId # NoLink => link'[socketId] = "ready"
      /\ Greets' => Greets /\ current' = current /\ Up(current)
      /\ \A s \in Link : atHub[s] # {} => s = current /\ Up(s) /\ current' = s /\ Up(s)'
      /\ Up(current) => current' = current /\ Up(current)'
  BY <1>2, <1>3, ConnectStep
<1>6. ASSUME NEW c \in (subscribed \cap SignedChannel) \ (marred \cup joined)
       PROVE  \/ timer
              \/ current' # NoLink /\ c \in atHub[current']
              \/ \E u \in Task : u # t /\ Authorizing(u, c) /\ current' = current
              \/ \E u \in Task : Joining(u, c) /\ task[u].at = "ask"
  <2>1. \/ timer
        \/ current # NoLink /\ c \in atHub[current]
        \/ \E u \in Task : Authorizing(u, c)
        \/ \E u \in Task : Joining(u, c) /\ task[u].at = "ask"
    BY <1>3, <1>6 DEF Unjoined
  <2>2. CASE current # NoLink /\ c \in atHub[current]
    BY <1>3, <1>5, <2>2 DEF EchoTypes
  <2>3. CASE \E u \in Task : Authorizing(u, c)
    <3>1. PICK u \in Task : Authorizing(u, c)
      BY <2>3
    <3>2. u # t /\ task[u].id = current /\ current \in Link /\ current # NoLink
          /\ link[current] \notin {"unused", "connecting", "open"}
      BY <1>2, <1>3, <3>1, EchoAssumption DEF Authorizing, LinksAgree
    <3>3. link[current] = "ready" \/ timer
      BY <1>3, <3>2 DEF LinksAgree, EchoTypes
    <3>4. link[current] = "ready" => current' = current
      BY <1>5, <3>2 DEF Up
    <3> QED
      BY <3>1, <3>2, <3>3, <3>4
  <2> QED
    BY <2>1, <2>2, <2>3
<1>7. CASE socketId # NoLink /\ ch \notin subscribed /\ ch \in SignedChannel
  <2>1. /\ task' = [task EXCEPT ![t].at = "auth", ![t].id = socketId]
        /\ UNCHANGED <<subscribed, pending, bound, joined, atHub>>
    BY <1>1, <1>7 DEF Ask
  <2>2. PICK new \in Call :
          /\ task' = [task EXCEPT ![t] = new]
          /\ new.at = "auth" /\ new.channel = ch /\ new.todo = task[t].todo /\ new.id = socketId
    <3> DEFINE new == [task[t] EXCEPT !.at = "auth", !.id = socketId]
    <3>1. /\ new \in Call /\ new.at = "auth" /\ new.channel = ch /\ new.todo = task[t].todo
          /\ new.id = socketId
      BY <1>1, <1>3, <1>4 DEF Call, EchoTypes
    <3>2. task' = [task EXCEPT ![t] = new]
      BY <1>3, <2>1 DEF EchoTypes
    <3> QED
      BY <3>1, <3>2
  <2>3. Moves(t) /\ task'[t] = new
    BY <1>3, <2>2 DEF Moves, EchoTypes
  <2>4. CallsInOrder' /\ LoopsBegin' /\ WaitsAlone'
    <3>1. t[1] = "listen" => task[t].todo = {}
      BY <1>3 DEF CallsInOrder
    <3> QED
      BY <1>2, <1>3, <1>4, <1>5, <2>2, <2>3, <3>1, MovesAlone
  <2>5. EchoTypes'
    BY <1>2, <1>3, <1>5, <2>1, <2>3 DEF EchoTypes, Moves
  <2>6. AsksUnjoined'
    BY <1>3, <2>1, <2>2, <2>3 DEF AsksUnjoined, Moves
  <2>7. HubAgrees'
    BY <1>5, <2>1 DEF HubAgrees
  <2>8. \A u \in Task, c \in EchoChannel :
           /\ About(u, c)' <=> About(u, c)
           /\ Joining(u, c)' <=> Joining(u, c)
           /\ current' = current /\ Authorizing(u, c) => Authorizing(u, c)'
           /\ Visits(u, c)' <=> Visits(u, c)
           /\ u # t => task'[u] = task[u]
    <3>1. \A c \in EchoChannel :
             /\ About(t, c)' <=> About(t, c)
             /\ Joining(t, c)' <=> Joining(t, c)
             /\ ~Authorizing(t, c)
             /\ Visits(t, c)' <=> Visits(t, c)
      BY <1>1, <1>2, <2>2, <2>3 DEF About, Joining, Authorizing, Visits
    <3>2. \A u \in Task, c \in EchoChannel : u # t =>
             /\ About(u, c)' <=> About(u, c)
             /\ Joining(u, c)' <=> Joining(u, c)
             /\ current' = current => (Authorizing(u, c)' <=> Authorizing(u, c))
             /\ Visits(u, c)' <=> Visits(u, c)
             /\ task'[u] = task[u]
      BY <2>3 DEF About, Joining, Authorizing, Visits, Moves
    <3> QED
      BY <3>1, <3>2
  <2>9. Attended' /\ Forgotten'
    BY <1>2, <1>3, <2>1, <2>8 DEF Attended, Forgotten, EchoTypes
  <2>10. LinksAgree'
    <3>1. socketId' # NoLink => link'[socketId'] = "ready"
      BY <1>2, <1>5
    <3>2. current' # NoLink => /\ ~intended' /\ link'[current'] \notin {"unused", "closing"}
                               /\ link'[current'] = "closed" => timer'
      BY <1>5
    <3>3. ASSUME NEW u \in Task, task'[u].at = "auth"
          PROVE  /\ task'[u].id \in Link
                 /\ link'[task'[u].id] \notin {"unused", "connecting", "open"}
                 /\ task'[u].channel \in SignedChannel
      <4>1. CASE u = t
        BY <1>3, <1>5, <1>7, <2>2, <2>3, <4>1 DEF EchoTypes
      <4>2. CASE u # t
        <5>1. task'[u] = task[u]
          BY <2>3, <4>2 DEF Moves
        <5> QED
          BY <1>3, <1>5, <3>3, <5>1 DEF LinksAgree
      <4> QED
        BY <4>1, <4>2
    <3> QED
      BY <3>1, <3>2, <3>3 DEF LinksAgree
  <2>11. ASSUME NEW c \in (subscribed' \cap SignedChannel) \ (marred' \cup joined')
         PROVE  \/ timer'
                \/ current' # NoLink /\ c \in atHub'[current']
                \/ \E u \in Task : Authorizing(u, c)'
                \/ \E u \in Task : Joining(u, c)' /\ task'[u].at = "ask"
    <3>1. c \in (subscribed \cap SignedChannel) \ (marred \cup joined) /\ c \in EchoChannel
      BY <1>2, <1>3, <2>1, <2>11 DEF EchoTypes
    <3>2. \A u \in Task : Joining(u, c) /\ task[u].at = "ask" => u # t
      BY <1>1, <1>7, <3>1 DEF Joining
    <3> QED
      BY <1>2, <1>6, <2>1, <2>8, <3>1, <3>2
  <2>12. Unjoined'
    BY <2>11 DEF Unjoined
  <2>13. ASSUME Greets' PROVE Claimed' /\ Covered'
    <3>1. Greets /\ current' = current /\ Claimed /\ Covered
      BY <1>5, <2>13 DEF EchoSafe
    <3>3. Claimed'
      BY <1>2, <1>3, <2>1, <2>8, <3>1 DEF Claimed, EchoTypes
    <3>4. Covered'
      BY <1>2, <1>3, <2>1, <2>8, <3>1 DEF Covered, EchoTypes
    <3> QED
      BY <3>1, <3>3, <3>4
  <2> QED
    BY <1>5, <2>4, <2>5, <2>6, <2>7, <2>9, <2>10, <2>12, <2>13 DEF EchoSafe
<1>8. CASE ~(socketId # NoLink /\ ch \notin subscribed /\ ch \in SignedChannel)
  <2>1. /\ Returns(t, ch)
        /\ pending' = IF socketId = NoLink THEN pending \cup {ch} ELSE pending
        /\ IF socketId # NoLink /\ ch \notin subscribed
           THEN SendSubscribe(ch, socketId)
           ELSE UNCHANGED <<subscribed, atHub>>
    BY <1>1, <1>8 DEF Ask
  <2>2. /\ Moves(t) /\ task'[t].at \in {"none", "next"} /\ task'[t].channel = NoLink
        /\ task'[t].todo = task[t].todo
        /\ task'[t].at = "none" => task'[t].todo = {}
        /\ t[1] = "listen" => task'[t].at = "none"
        /\ joined' = IF t[1] \in {"listen", "channels"} THEN joined \cup {ch} ELSE joined
    BY <1>2, <1>3, <1>4, <2>1, ReturnsStep
  <2>3. /\ subscribed \subseteq subscribed' /\ subscribed' \subseteq subscribed \cup {ch}
        /\ atHub' \in [Link -> SUBSET EchoChannel]
        /\ \A s \in Link : atHub[s] \subseteq atHub'[s]
        /\ \A s \in Link : atHub'[s] # {} => atHub[s] # {} \/ (s = current /\ Up(current))
    BY <1>3, <1>4, <2>1, SendSubscribeStep DEF EchoTypes
  <2>4. Finished(t, ch)
    BY <1>2, <1>3, <2>1, <2>2, <2>3 DEF Finished, EchoTypes
  <2>5. AsksUnjoined' /\ Attended' /\ Forgotten'
    BY <1>1, <1>2, <1>4, <2>4, FinishedStep
  <2>6. CallsInOrder' /\ LoopsBegin' /\ WaitsAlone'
    <3>1. t[1] = "listen" => task[t].todo = {}
      BY <1>3 DEF CallsInOrder
    <3>2. task'[t].at # "none" => task'[t].at = "next"
      BY <2>2
    <3> QED
      BY <1>2, <1>3, <1>4, <1>5, <2>2, <3>1, <3>2, MovesAlone
  <2>7. EchoTypes'
    BY <1>2, <1>3, <1>4, <1>5, <2>1, <2>2, <2>3 DEF EchoTypes, Moves
  <2>8. HubAgrees'
    BY <1>5, <2>3 DEF HubAgrees
  <2>9. ASSUME Greets' PROVE Claimed' /\ Covered'
    <3>1. /\ Greets /\ current' = current /\ timer' = timer /\ Up(current)
          /\ socketId = current /\ socketId # NoLink
      BY <1>2, <1>5, <2>9 DEF Greets
    <3>2. CASE ch \in subscribed
      BY <1>1, <1>2, <1>4, <2>4, <3>1, <3>2, FinishedGreeted
    <3>3. CASE ch \notin subscribed
      <4>1. SendSubscribe(ch, socketId) /\ ch \in OpenChannel
        BY <1>4, <1>8, <2>1, <3>1, <3>3 DEF EchoChannel
      <4>2. ch \in subscribed' /\ ch \in atHub'[current]
        BY <1>3, <1>4, <3>1, <4>1, SendSubscribeStep
      <4> QED
        BY <1>1, <1>2, <1>4, <2>4, <3>1, <4>2, FinishedGreeted
    <3> QED
      BY <3>2, <3>3
  <2>10. \A u \in Task : u # t => task'[u] = task[u]
    BY <2>2 DEF Moves
  <2>11. LinksAgree'
    <3>1. ASSUME NEW u \in Task, task'[u].at = "auth"
          PROVE  /\ task'[u].id \in Link
                 /\ link'[task'[u].id] \notin {"unused", "connecting", "open"}
                 /\ task'[u].channel \in SignedChannel
      <4>1. u # t
        BY <2>2, <3>1
      <4> QED
        BY <1>3, <1>5, <2>10, <3>1, <4>1 DEF LinksAgree
    <3> QED
      BY <1>2, <1>5, <3>1 DEF LinksAgree
  <2>12. ASSUME NEW c \in (subscribed' \cap SignedChannel) \ (marred' \cup joined')
         PROVE  \/ timer'
                \/ current' # NoLink /\ c \in atHub'[current']
                \/ \E u \in Task : Authorizing(u, c)'
                \/ \E u \in Task : Joining(u, c)' /\ task'[u].at = "ask"
    <3>1. c \in EchoChannel /\ c \notin joined /\ c \notin marred
      BY <1>2, <2>2, <2>12 DEF EchoChannel
    <3>2. c \in subscribed
      <4>1. CASE c = ch
        BY <1>8, <2>1, <2>12, <4>1
      <4>2. CASE c # ch
        BY <2>3, <2>12, <4>2
      <4> QED
        BY <4>1, <4>2
    <3>3. \A u \in Task : Joining(u, c) /\ task[u].at = "ask" =>
             u # t /\ Joining(u, c)' /\ task'[u].at = "ask"
      <4>1. \A u \in Task : Joining(u, c) => u # t
        BY <1>1, <2>2, <2>12 DEF Joining
      <4> QED
        BY <2>10, <4>1 DEF Joining
    <3>4. \A u \in Task : u # t /\ Authorizing(u, c) /\ current' = current => Authorizing(u, c)'
      BY <2>10 DEF Authorizing
    <3> QED
      BY <1>2, <1>5, <1>6, <2>3, <2>12, <3>1, <3>2, <3>3, <3>4
  <2>13. Unjoined'
    BY <2>12 DEF Unjoined
  <2> QED
    BY <1>5, <2>5, <2>6, <2>7, <2>8, <2>9, <2>11, <2>13 DEF EchoSafe
<1> QED
  BY <1>7, <1>8

LEMMA AuthorizedStep == ASSUME EchoSafe, NEW t \in Task, Authorized(t) PROVE EchoSafe'
<1>1. PICK ch : ch = task[t].channel
  OBVIOUS
<1>2. /\ Waiting = {} /\ task[t].at = "auth" /\ SendSubscribe(ch, task[t].id)
      /\ Returns(t, ch)
      /\ marred' = IF task[t].id = current \/ MadeGood(ch) THEN marred ELSE marred \cup {ch}
      /\ UNCHANGED <<link, socketId, timer, current, intended, pending, channels>>
  BY <1>1 DEF Authorized, wires
<1>3. /\ EchoTypes /\ CallsInOrder /\ LoopsBegin /\ WaitsAlone /\ HubAgrees /\ LinksAgree
      /\ Unjoined
  BY DEF EchoSafe
<1>4. task[t] \in Call /\ ch # NoLink /\ ch \in EchoChannel
  BY <1>1, <1>2, <1>3 DEF EchoTypes, CallsInOrder, Call
<1>5. /\ Moves(t) /\ task'[t].at \in {"none", "next"} /\ task'[t].channel = NoLink
      /\ task'[t].todo = task[t].todo
      /\ task'[t].at = "none" => task'[t].todo = {}
      /\ t[1] = "listen" => task'[t].at = "none"
      /\ joined' = IF t[1] \in {"listen", "channels"} THEN joined \cup {ch} ELSE joined
  BY <1>2, <1>3, <1>4, ReturnsStep
<1>6. /\ subscribed' = subscribed \cup {ch}
      /\ atHub' \in [Link -> SUBSET EchoChannel]
      /\ \A s \in Link : atHub[s] \subseteq atHub'[s]
      /\ \A s \in Link : atHub'[s] # {} => atHub[s] # {} \/ (s = current /\ Up(current))
      /\ Up(current) /\ (ch \in OpenChannel \/ task[t].id = current) => ch \in atHub'[current]
  BY <1>2, <1>3, <1>4, SendSubscribeStep
<1>7. Finished(t, ch)
  BY <1>2, <1>3, <1>4, <1>5, <1>6 DEF Finished, EchoTypes
<1>8. AsksUnjoined' /\ Attended' /\ Forgotten'
  BY <1>1, <1>2, <1>4, <1>7, FinishedStep
<1>9. CallsInOrder' /\ LoopsBegin' /\ WaitsAlone'
  <2>1. t[1] = "listen" => task[t].todo = {}
    BY <1>3 DEF CallsInOrder
  <2>2. task'[t].at # "none" => task'[t].at = "next"
    BY <1>5
  <2> QED
    BY <1>2, <1>3, <1>5, <2>1, <2>2, MovesAlone
<1>10. EchoTypes'
  BY <1>2, <1>3, <1>4, <1>5, <1>6 DEF EchoTypes, Moves
<1>11. HubAgrees'
  BY <1>2, <1>3, <1>6 DEF HubAgrees, Up
<1>12. \A u \in Task : u # t => task'[u] = task[u]
  BY <1>5 DEF Moves
<1>13. LinksAgree'
  <2>1. \A u \in Task : task'[u].at = "auth" => task'[u] = task[u]
    BY <1>5, <1>12
  <2> QED
    BY <1>2, <1>3, <2>1 DEF LinksAgree
<1>14. task[t].id = current => timer \/ Up(current)
  BY <1>2, <1>3, EchoAssumption DEF LinksAgree, Up, EchoTypes
<1>15. \A u \in Task, c \in EchoChannel : Authorizing(u, c) /\ u # t => Authorizing(u, c)'
  BY <1>2, <1>12 DEF Authorizing
<1>16. \/ ch \in marred'
       \/ timer \/ (current # NoLink /\ ch \in atHub'[current])
       \/ ch \in joined' /\ socketId # current
       \/ ch \in joined' /\ \E u \in Task : Visits(u, ch)
       \/ \E u \in Task : u # t /\ Authorizing(u, ch)
  <2>1. CASE task[t].id = current
    BY <1>6, <1>14, <2>1 DEF Up
  <2>2. CASE task[t].id # current /\ MadeGood(ch)
    <3>1. /\ current # NoLink
          /\ \/ ch \in joined' /\ socketId # current
             \/ ch \in joined' /\ \E u \in Task : Visits(u, ch)
             \/ \E u \in Task : Authorizing(u, ch)
             \/ ch \in atHub[current]
      BY <2>2 DEF MadeGood, AskedFor, Visits, Authorizing
    <3>2. \A u \in Task : Authorizing(u, ch) => u # t
      BY <2>2 DEF Authorizing
    <3>3. ch \in atHub[current] => ch \in atHub'[current]
      BY <1>3, <1>6, <3>1 DEF EchoTypes
    <3> QED
      BY <3>1, <3>2, <3>3
  <2>3. CASE task[t].id # current /\ ~MadeGood(ch)
    BY <1>2, <2>3
  <2> QED
    BY <2>1, <2>2, <2>3
<1>17. ASSUME NEW c \in (subscribed' \cap SignedChannel) \ (marred' \cup joined')
       PROVE  \/ timer'
              \/ current' # NoLink /\ c \in atHub'[current']
              \/ \E u \in Task : Authorizing(u, c)'
              \/ \E u \in Task : Joining(u, c)' /\ task'[u].at = "ask"
  <2>1. c \in EchoChannel
    BY <1>17 DEF EchoChannel
  <2>2. CASE c = ch
    BY <1>2, <1>15, <1>16, <1>17, <2>1, <2>2
  <2>3. CASE c # ch
    <3>1. c \in (subscribed \cap SignedChannel) \ (marred \cup joined)
      BY <1>2, <1>5, <1>6, <1>17, <2>3
    <3>2. \/ timer
          \/ current # NoLink /\ c \in atHub[current]
          \/ \E u \in Task : Authorizing(u, c)
      BY <1>2, <1>3, <3>1 DEF Unjoined, Waiting
    <3>3. \A u \in Task : Authorizing(u, c) => u # t
      BY <1>1, <2>3 DEF Authorizing
    <3>4. current # NoLink /\ c \in atHub[current] => c \in atHub'[current]
      BY <1>3, <1>6 DEF EchoTypes
    <3> QED
      BY <1>2, <1>15, <2>1, <3>2, <3>3, <3>4
  <2> QED
    BY <2>2, <2>3
<1>18. Unjoined'
  BY <1>17 DEF Unjoined
<1>19. ASSUME Greets' PROVE Claimed' /\ Covered'
  <2>1. Greets /\ current' = current /\ timer' = timer /\ socketId = current
        /\ link[current] = "ready" /\ current # NoLink
    BY <1>2, <1>3, <1>19 DEF Greets, LinksAgree
  <2>2. Up(current) /\ ch \in subscribed'
    BY <1>6, <2>1 DEF Up
  <2>3. \/ ch \in marred'
        \/ ch \in atHub'[current]
        \/ ch \in joined' /\ \E u \in Task : Visits(u, ch)
        \/ \E u \in Task : u # t /\ Authorizing(u, ch)
    <3>1. CASE task[t].id = current
      BY <1>6, <2>2, <3>1
    <3>2. CASE task[t].id # current /\ MadeGood(ch)
      <4>1. \/ ch \in joined' /\ \E u \in Task : Visits(u, ch)
            \/ \E u \in Task : Authorizing(u, ch)
            \/ ch \in atHub[current]
        BY <2>1, <3>2 DEF MadeGood, AskedFor, Visits, Authorizing
      <4>2. \A u \in Task : Authorizing(u, ch) => u # t
        BY <3>2 DEF Authorizing
      <4>3. ch \in atHub[current] => ch \in atHub'[current]
        BY <1>3, <1>6, <2>1 DEF EchoTypes
      <4> QED
        BY <4>1, <4>2, <4>3
    <3>3. CASE task[t].id # current /\ ~MadeGood(ch)
      BY <1>2, <3>3
    <3> QED
      BY <3>1, <3>2, <3>3
  <2> QED
    BY <1>1, <1>2, <1>4, <1>7, <2>1, <2>2, <2>3, FinishedGreeted
<1> QED
  BY <1>8, <1>9, <1>10, <1>11, <1>13, <1>18, <1>19 DEF EchoSafe

LEMMA UnauthorizedStep == ASSUME EchoSafe, NEW t \in Task, Unauthorized(t) PROVE EchoSafe'
<1>1. PICK ch : ch = task[t].channel
  OBVIOUS
<1>2. /\ Waiting = {} /\ task[t].at = "auth" /\ task' = [task EXCEPT ![t] = NoCall]
      /\ marred' = marred \cup {ch} \cup task[t].todo
      /\ UNCHANGED <<link, socketId, timer, current, intended, subscribed, pending,
                     channels, joined, atHub>>
  BY <1>1 DEF Unauthorized, wires
<1>3. /\ EchoTypes /\ CallsInOrder /\ LoopsBegin /\ WaitsAlone /\ AsksUnjoined /\ HubAgrees
      /\ LinksAgree /\ Attended /\ Forgotten /\ Unjoined
  BY DEF EchoSafe
<1>4. task[t] \in Call /\ ch \in EchoChannel /\ task[t].todo \subseteq EchoChannel
  BY <1>1, <1>2, <1>3 DEF EchoTypes, CallsInOrder, Call
<1>5. Moves(t) /\ task'[t] = NoCall
  BY <1>2, <1>3, EmptyCalls DEF Moves, EchoTypes
<1>6. CallsInOrder' /\ LoopsBegin' /\ WaitsAlone'
  BY <1>2, <1>3, <1>5, MovesAlone, EmptyCalls
<1>7. EchoTypes'
  BY <1>2, <1>3, <1>4, <1>5 DEF EchoTypes, Moves
<1>8. AsksUnjoined'
  BY <1>2, <1>3, <1>5, EmptyCalls DEF AsksUnjoined, Moves
<1>9. HubAgrees' /\ LinksAgree'
  <2>1. HubAgrees'
    BY <1>2, <1>3 DEF HubAgrees, Up
  <2>2. \A u \in Task : task'[u].at = "auth" => task'[u] = task[u]
    BY <1>5, EmptyCalls DEF Moves
  <2> QED
    BY <1>2, <1>3, <2>1, <2>2 DEF LinksAgree
<1>10. \A u \in Task, c \in EchoChannel : u # t =>
          /\ About(u, c)' <=> About(u, c)
          /\ Joining(u, c)' <=> Joining(u, c)
          /\ Authorizing(u, c)' <=> Authorizing(u, c)
          /\ Visits(u, c)' <=> Visits(u, c)
          /\ task'[u].at = task[u].at
  BY <1>2, <1>5 DEF About, Joining, Authorizing, Visits, Moves
<1>11. \A c \in EchoChannel :
          /\ About(t, c) => c \in marred'
          /\ Joining(t, c) => c \in marred'
          /\ Authorizing(t, c) => c \in marred'
          /\ Visits(t, c) => c \in marred'
          /\ ~About(t, c)'
  BY <1>1, <1>2, <1>5, EmptyCalls DEF About, Joining, Authorizing, Visits
<1>12. Attended'
  BY <1>2, <1>3, <1>10, <1>11 DEF Attended, EchoTypes
<1>13. Forgotten'
  BY <1>2, <1>3, <1>10, <1>11 DEF Forgotten
<1>14. ASSUME NEW c \in (subscribed' \cap SignedChannel) \ (marred' \cup joined')
       PROVE  \/ timer'
              \/ current' # NoLink /\ c \in atHub'[current']
              \/ \E u \in Task : Authorizing(u, c)'
              \/ \E u \in Task : Joining(u, c)' /\ task'[u].at = "ask"
  <2>1. c \in EchoChannel /\ c \in (subscribed \cap SignedChannel) \ (marred \cup joined)
    BY <1>2, <1>14 DEF EchoChannel
  <2>2. \/ timer
        \/ current # NoLink /\ c \in atHub[current]
        \/ \E u \in Task : Authorizing(u, c)
    BY <1>2, <1>3, <2>1 DEF Unjoined, Waiting
  <2> QED
    BY <1>2, <1>10, <1>11, <1>14, <2>1, <2>2
<1>15. Unjoined'
  BY <1>14 DEF Unjoined
<1>16. ASSUME Greets' PROVE Claimed' /\ Covered'
  <2>1. Greets /\ current' = current /\ timer' = timer /\ Claimed /\ Covered
    BY <1>2, <1>3, <1>16 DEF Greets, EchoSafe
  <2>2. ASSUME NEW c \in subscribed' \ marred'
        PROVE  \/ timer'
               \/ c \in atHub'[current']
               \/ c \in joined' /\ \E u \in Task : Visits(u, c)'
               \/ \E u \in Task : Authorizing(u, c)'
    <3>1. c \in EchoChannel /\ c \in subscribed \ marred
      BY <1>2, <1>3, <2>2 DEF EchoTypes
    <3>2. \/ timer
          \/ c \in atHub[current]
          \/ c \in joined /\ \E u \in Task : Visits(u, c)
          \/ \E u \in Task : Authorizing(u, c)
      BY <2>1, <3>1 DEF Claimed
    <3> QED
      BY <1>2, <1>10, <1>11, <2>1, <2>2, <3>1, <3>2
  <2>3. Claimed'
    BY <2>2 DEF Claimed
  <2>4. ASSUME NEW c \in channels' \ marred'
        PROVE  \/ c \in subscribed' /\ (timer' \/ c \in atHub'[current'])
               \/ \E u \in Task : About(u, c)'
    <3>1. c \in EchoChannel /\ c \in channels \ marred
      BY <1>2, <1>3, <2>4 DEF EchoTypes
    <3>2. \/ c \in subscribed /\ (timer \/ c \in atHub[current])
          \/ \E u \in Task : About(u, c)
      BY <2>1, <3>1 DEF Covered
    <3> QED
      BY <1>2, <1>10, <1>11, <2>1, <2>4, <3>1, <3>2
  <2>5. Covered'
    BY <2>4 DEF Covered
  <2> QED
    BY <2>3, <2>5
<1> QED
  BY <1>6, <1>7, <1>8, <1>9, <1>12, <1>13, <1>15, <1>16 DEF EchoSafe

\* Steps that leave the calls and the channels alone.
ChannelsQuiet == UNCHANGED <<subscribed, pending, channels, joined, task, marred>>

LEMMA ChannelsQuietStep ==
    ASSUME EchoSafe, ChannelsQuiet
    PROVE  CallsInOrder' /\ WaitsAlone' /\ AsksUnjoined' /\ Attended' /\ Forgotten'
<1>1. UNCHANGED <<subscribed, pending, channels, joined, task, marred>>
  BY DEF ChannelsQuiet
<1>2. CallsInOrder' /\ WaitsAlone' /\ AsksUnjoined'
  BY <1>1 DEF EchoSafe, CallsInOrder, WaitsAlone, AsksUnjoined, Waiting
<1>3. Attended' /\ Forgotten'
  BY <1>1 DEF EchoSafe, Attended, Forgotten, Joining, About
<1> QED
  BY <1>2, <1>3

LEMMA OpenedStep == ASSUME EchoSafe, NEW s \in Link, Opened(s) PROVE EchoSafe'
<1>1. /\ link[s] = "connecting" /\ link' = [link EXCEPT ![s] = "open"]
      /\ ChannelsQuiet /\ UNCHANGED <<current, socketId, intended, timer, atHub>>
      /\ UNCHANGED <<subscribed, pending, channels, joined, task, marred>>
  BY DEF Opened, ChannelsQuiet
<1>2. EchoTypes /\ LoopsBegin /\ HubAgrees /\ LinksAgree /\ Unjoined
  BY DEF EchoSafe
<1>3. \A o \in Link : link'[o] = IF o = s THEN "open" ELSE link[o]
  BY <1>1, <1>2 DEF EchoTypes
<1>4. EchoTypes'
  BY <1>1, <1>2 DEF EchoTypes
<1>5. LoopsBegin'
  BY <1>1, <1>2, <1>3 DEF LoopsBegin
<1>6. HubAgrees'
  BY <1>1, <1>2, <1>3 DEF HubAgrees, Up
<1>7. LinksAgree' /\ Unjoined'
  <2>1. LinksAgree'
    BY <1>1, <1>2, <1>3 DEF LinksAgree, EchoTypes
  <2>2. Unjoined'
    BY <1>1, <1>2 DEF Unjoined, Authorizing, Joining
  <2> QED
    BY <2>1, <2>2
<1>8. CallsInOrder' /\ WaitsAlone' /\ AsksUnjoined' /\ Attended' /\ Forgotten'
  BY <1>1, ChannelsQuietStep
<1>9. Greets' => Claimed' /\ Covered'
  BY <1>1 DEF EchoSafe, Greets, Claimed, Covered, Authorizing, Visits, About
<1> QED
  BY <1>4, <1>5, <1>6, <1>7, <1>8, <1>9 DEF EchoSafe

LEMMA ClosedStep == ASSUME EchoSafe, NEW s \in Link, Closed(s) PROVE EchoSafe'
<1>1. /\ link' = [link EXCEPT ![s] = "closed"] /\ socketId' = NoLink
      /\ atHub' = [atHub EXCEPT ![s] = {}]
      /\ timer' = (timer \/ ~intended)
      /\ ChannelsQuiet /\ UNCHANGED <<current, intended>>
      /\ UNCHANGED <<subscribed, pending, channels, joined, task, marred>>
  BY DEF Closed, ChannelsQuiet
<1>2. EchoTypes /\ LoopsBegin /\ HubAgrees /\ LinksAgree /\ Unjoined
  BY DEF EchoSafe
<1>3. \A o \in Link : /\ link'[o] = IF o = s THEN "closed" ELSE link[o]
                      /\ atHub'[o] = IF o = s THEN {} ELSE atHub[o]
  BY <1>1, <1>2 DEF EchoTypes
<1>4. EchoTypes'
  BY <1>1, <1>2 DEF EchoTypes
<1>5. LoopsBegin'
  BY <1>1, <1>2, <1>3 DEF LoopsBegin
<1>6. HubAgrees'
  BY <1>1, <1>2, <1>3 DEF HubAgrees, Up
<1>7. LinksAgree' /\ Unjoined'
  <2>1. LinksAgree'
    BY <1>1, <1>2, <1>3 DEF LinksAgree, EchoTypes
  <2>2. timer => timer'
    BY <1>1
  <2>3. current # NoLink /\ current = s => timer'
    BY <1>1, <1>2 DEF LinksAgree
  <2>4. current # NoLink /\ current # s => atHub'[current'] = atHub[current]
    BY <1>1, <1>2, <1>3 DEF EchoTypes
  <2>5. \A u \in Task, c \in EchoChannel :
           /\ Authorizing(u, c) => Authorizing(u, c)'
           /\ Joining(u, c) /\ task[u].at = "ask" => Joining(u, c)' /\ task'[u].at = "ask"
    BY <1>1 DEF Authorizing, Joining
  <2>6. ASSUME NEW c \in (subscribed' \cap SignedChannel) \ (marred' \cup joined')
        PROVE  \/ timer'
               \/ current' # NoLink /\ c \in atHub'[current']
               \/ \E u \in Task : Authorizing(u, c)'
               \/ \E u \in Task : Joining(u, c)' /\ task'[u].at = "ask"
    <3>1. c \in EchoChannel /\ c \in (subscribed \cap SignedChannel) \ (marred \cup joined)
      BY <1>1, <2>6 DEF EchoChannel
    <3>2. \/ timer
          \/ current # NoLink /\ c \in atHub[current]
          \/ \E u \in Task : Authorizing(u, c)
          \/ \E u \in Task : Joining(u, c) /\ task[u].at = "ask"
      BY <1>2, <3>1 DEF Unjoined
    <3> QED
      BY <1>1, <2>2, <2>3, <2>4, <2>5, <3>1, <3>2
  <2>7. Unjoined'
    BY <2>6 DEF Unjoined
  <2> QED
    BY <2>1, <2>7
<1>8. CallsInOrder' /\ WaitsAlone' /\ AsksUnjoined' /\ Attended' /\ Forgotten'
  BY <1>1, ChannelsQuietStep
<1>9. ~Greets'
  BY <1>1 DEF Greets
<1> QED
  BY <1>4, <1>5, <1>6, <1>7, <1>8, <1>9 DEF EchoSafe

\* The loop of the channels has all of them to go through.
LEMMA GreetedStep == ASSUME EchoSafe, NEW s \in Link, Greeted(s) PROVE EchoSafe'
<1>1. /\ Waiting = {} /\ link[s] = "open" /\ link' = [link EXCEPT ![s] = "ready"]
      /\ socketId' = s /\ pending' = {}
      /\ task' = [task EXCEPT ![<<"flush", s>>] = Loop(pending),
                              ![<<"channels", s>>] = Loop(channels)]
      /\ UNCHANGED <<current, intended, timer, subscribed, channels, joined, atHub, marred>>
  BY DEF Greeted
<1>2. /\ EchoTypes /\ CallsInOrder /\ LoopsBegin /\ WaitsAlone /\ AsksUnjoined /\ HubAgrees
      /\ LinksAgree /\ Attended /\ Forgotten /\ Unjoined
  BY DEF EchoSafe
<1>3. PICK f, l \in Task :
        /\ f = <<"flush", s>> /\ l = <<"channels", s>>
        /\ f # l /\ f[1] = "flush" /\ l[1] = "channels"
  BY TaskForms
<1>4. task' = [task EXCEPT ![f] = Loop(pending), ![l] = Loop(channels)]
  BY <1>1, <1>3
<1>5. /\ Loop(pending) \in Call /\ Loop(channels) \in Call
      /\ Loop(pending).at = "next" /\ Loop(channels).at = "next"
      /\ Loop(pending).todo = pending /\ Loop(channels).todo = channels
      /\ Loop(pending).channel = NoLink /\ Loop(channels).channel = NoLink
  BY <1>2, EmptyCalls DEF EchoTypes
<1>6. /\ task' \in [Task -> Call] /\ task'[f] = Loop(pending) /\ task'[l] = Loop(channels)
      /\ \A u \in Task : u # f /\ u # l => task'[u] = task[u]
  BY <1>2, <1>3, <1>4, <1>5 DEF EchoTypes
<1>7. task[f].at = "none" /\ task[l].at = "none"
  BY <1>1, <1>2, <1>3 DEF LoopsBegin
<1>8. \A o \in Link : link'[o] = IF o = s THEN "ready" ELSE link[o]
  BY <1>1, <1>2 DEF EchoTypes
<1>9. EchoTypes'
  BY <1>1, <1>2, <1>6 DEF EchoTypes
<1>10. CallsInOrder'
  BY <1>2, <1>3, <1>5, <1>6 DEF CallsInOrder
<1>11. LoopsBegin'
  <2>1. ASSUME NEW o \in Link, link'[o] \in {"unused", "connecting", "open"}
        PROVE  task'[<<"flush", o>>].at = "none" /\ task'[<<"channels", o>>].at = "none"
    <3>1. o # s /\ link[o] \in {"unused", "connecting", "open"}
      BY <1>8, <2>1
    <3>2. task[<<"flush", o>>].at = "none" /\ task[<<"channels", o>>].at = "none"
      BY <1>2, <3>1 DEF LoopsBegin
    <3>3. /\ <<"flush", o>> # f /\ <<"flush", o>> # l
          /\ <<"channels", o>> # f /\ <<"channels", o>> # l
      BY <1>3, <3>1
    <3> QED
      BY <1>6, <3>2, <3>3, TaskForms
  <2> QED
    BY <2>1 DEF LoopsBegin
<1>12. WaitsAlone'
  <2>1. \A u \in Task : u # f /\ u # l => u \notin Waiting'
    BY <1>1, <1>6 DEF Waiting
  <2>2. Waiting' \subseteq {f, l}
    BY <2>1 DEF Waiting
  <2> QED
    BY <1>3, <2>2 DEF WaitsAlone
<1>13. AsksUnjoined'
  BY <1>1, <1>2, <1>5, <1>6 DEF AsksUnjoined
<1>14. HubAgrees' /\ LinksAgree'
  <2>1. HubAgrees'
    BY <1>1, <1>2, <1>8 DEF HubAgrees, Up
  <2>2. \A u \in Task : task'[u].at = "auth" => task'[u] = task[u]
    BY <1>5, <1>6
  <2> QED
    BY <1>1, <1>2, <1>8, <2>1, <2>2 DEF LinksAgree, EchoTypes
<1>15. \A u \in Task, c \in EchoChannel :
          /\ Joining(u, c) => Joining(u, c)'
          /\ Authorizing(u, c) => Authorizing(u, c)'
          /\ task[u].at # "ask"
  BY <1>1, <1>6, <1>7 DEF Joining, Authorizing, Waiting
<1>16. Attended'
  BY <1>1, <1>2, <1>15 DEF Attended, EchoTypes
<1>17. ASSUME NEW c \in EchoChannel \ (channels' \cup marred')
       PROVE  /\ c \notin subscribed' /\ c \notin pending' /\ c \notin joined'
              /\ \A u \in Task : ~About(u, c)'
  <2>1. /\ c \notin channels /\ c \notin subscribed /\ c \notin pending /\ c \notin joined
        /\ \A u \in Task : ~About(u, c)
    BY <1>1, <1>2, <1>17 DEF Forgotten
  <2>2. c # NoLink
    BY <1>17, EchoAssumption DEF EchoChannel
  <2>3. ~About(f, c)' /\ ~About(l, c)'
    BY <1>5, <1>6, <2>1, <2>2 DEF About
  <2>4. \A u \in Task : u # f /\ u # l => ~About(u, c)'
    BY <1>6, <2>1 DEF About
  <2> QED
    BY <1>1, <2>1, <2>3, <2>4
<1>18. Forgotten'
  BY <1>17 DEF Forgotten
<1>19. ASSUME NEW c \in (subscribed' \cap SignedChannel) \ (marred' \cup joined')
       PROVE  \/ timer'
              \/ current' # NoLink /\ c \in atHub'[current']
              \/ \E u \in Task : Authorizing(u, c)'
  <2>1. c \in EchoChannel /\ c \in (subscribed \cap SignedChannel) \ (marred \cup joined)
    BY <1>1, <1>19 DEF EchoChannel
  <2>2. \/ timer
        \/ current # NoLink /\ c \in atHub[current]
        \/ \E u \in Task : Authorizing(u, c)
    BY <1>2, <1>15, <2>1 DEF Unjoined
  <2> QED
    BY <1>1, <1>15, <2>1, <2>2
<1>20. Unjoined'
  BY <1>19 DEF Unjoined
<1>21. ASSUME Greets' PROVE Claimed' /\ Covered'
  <2>1. ASSUME NEW c \in subscribed' \ marred'
        PROVE  \/ timer'
               \/ c \in atHub'[current']
               \/ c \in joined' /\ \E u \in Task : Visits(u, c)'
               \/ \E u \in Task : Authorizing(u, c)'
    <3>1. c \in EchoChannel /\ c \in channels /\ c \notin marred
      BY <1>1, <1>2, <2>1 DEF Forgotten, EchoTypes
    <3>2. CASE c \in joined
      <4>1. Visits(l, c)'
        BY <1>3, <1>5, <1>6, <3>1 DEF Visits
      <4> QED
        BY <1>1, <3>2, <4>1
    <3>3. CASE c \notin joined
      <4>1. PICK u \in Task : Joining(u, c)
        BY <1>2, <3>1, <3>3 DEF Attended
      <4>2. task[u].at = "auth" /\ task[u].channel = c
        BY <1>15, <3>1, <4>1 DEF Joining
      <4>3. c \in SignedChannel
        BY <1>2, <4>2 DEF LinksAgree
      <4> QED
        BY <1>1, <1>19, <2>1, <3>3, <4>3
    <3> QED
      BY <3>2, <3>3
  <2>2. Claimed'
    BY <2>1 DEF Claimed
  <2>3. \A c \in channels' : About(l, c)'
    BY <1>1, <1>5, <1>6 DEF About
  <2>4. Covered'
    BY <2>3 DEF Covered
  <2> QED
    BY <2>2, <2>4
<1> QED
  BY <1>9, <1>10, <1>11, <1>12, <1>13, <1>14, <1>16, <1>18, <1>20, <1>21 DEF EchoSafe

\* The loop of the timer has the channels to go through that were subscribed.
LEMMA ReconnectStep == ASSUME EchoSafe, Reconnect PROVE EchoSafe'
<1>1. /\ Waiting = {} /\ timer /\ timer' = FALSE /\ Connect /\ subscribed' = {}
      /\ task[<<"all", current'>>] = NoCall
      /\ task' = [task EXCEPT ![<<"all", current'>>] = Loop(subscribed)]
      /\ UNCHANGED <<socketId, pending, bound, channels, joined, atHub, marred>>
  BY DEF Reconnect
<1>2. /\ EchoTypes /\ CallsInOrder /\ LoopsBegin /\ WaitsAlone /\ AsksUnjoined /\ HubAgrees
      /\ Attended /\ Forgotten /\ LinksAgree
  BY DEF EchoSafe
<1>3. /\ link' \in [Link -> {"unused", "connecting", "open", "ready", "closing", "closed"}]
      /\ current' \in Link /\ link'[current'] \in {"connecting", "open", "ready"}
      /\ intended' = FALSE
      /\ \A s \in Link : link'[s] \in {"unused", "connecting", "open"} =>
                            link[s] \in {"unused", "connecting", "open"}
      /\ socketId # NoLink => link'[socketId] = "ready"
      /\ Greets' => Greets /\ current' = current /\ Up(current)
      /\ \A s \in Link : atHub[s] # {} => s = current /\ Up(s) /\ current' = s /\ Up(s)'
  BY <1>1, <1>2, ConnectStep
<1>4. PICK t \in Task : t = <<"all", current'>> /\ t[1] = "all"
  BY <1>3, TaskForms
<1>5. /\ Loop(subscribed) \in Call /\ Loop(subscribed).at = "next"
      /\ Loop(subscribed).todo = subscribed /\ Loop(subscribed).channel = NoLink
  BY <1>2, EmptyCalls DEF EchoTypes
<1>6. Moves(t) /\ task'[t] = Loop(subscribed) /\ task[t] = NoCall
  BY <1>1, <1>2, <1>4, <1>5 DEF Moves, EchoTypes
<1>7. CallsInOrder' /\ LoopsBegin' /\ WaitsAlone'
  BY <1>1, <1>2, <1>3, <1>4, <1>5, <1>6, EmptyCalls, MovesAlone
<1>8. EchoTypes'
  BY <1>1, <1>2, <1>3, <1>6 DEF EchoTypes, Moves
<1>9. AsksUnjoined'
  BY <1>1, <1>2, <1>5, <1>6 DEF AsksUnjoined, Moves
<1>10. HubAgrees' /\ LinksAgree' /\ Unjoined'
  <2>1. HubAgrees'
    BY <1>1, <1>3 DEF HubAgrees
  <2>2. \A u \in Task : task'[u].at = "auth" => task'[u] = task[u]
    BY <1>5, <1>6 DEF Moves
  <2>3. LinksAgree'
    BY <1>1, <1>2, <1>3, <2>2 DEF LinksAgree
  <2>4. Unjoined'
    BY <1>1 DEF Unjoined
  <2> QED
    BY <2>1, <2>3, <2>4
<1>11. \A u \in Task, c \in EchoChannel : u # t =>
          /\ About(u, c)' <=> About(u, c)
          /\ Joining(u, c)' <=> Joining(u, c)
  BY <1>6 DEF About, Joining, Moves
<1>12. \A c \in EchoChannel : ~Joining(t, c) /\ ~About(t, c)
                              /\ (About(t, c)' <=> c \in subscribed)
  BY <1>5, <1>6, EmptyCalls, EchoAssumption DEF About, Joining, EchoChannel
<1>13. Attended'
  BY <1>1, <1>2, <1>11, <1>12 DEF Attended, EchoTypes
<1>14. Forgotten'
  BY <1>1, <1>2, <1>11, <1>12 DEF Forgotten
<1>15. ASSUME Greets' PROVE Claimed' /\ Covered'
  <2>1. Covered
    BY <1>3, <1>15 DEF EchoSafe
  <2>2. ASSUME NEW c \in channels' \ marred' PROVE \E u \in Task : About(u, c)'
    <3>1. c \in EchoChannel /\ c \in channels \ marred
      BY <1>1, <1>2, <2>2 DEF EchoTypes
    <3>2. c \in subscribed \/ \E u \in Task : About(u, c)
      BY <2>1, <3>1 DEF Covered
    <3> QED
      BY <1>11, <1>12, <3>1, <3>2
  <2>3. Covered'
    BY <2>2 DEF Covered
  <2> QED
    BY <1>1, <2>3 DEF Claimed
<1> QED
  BY <1>3, <1>7, <1>8, <1>9, <1>10, <1>13, <1>14, <1>15 DEF EchoSafe

\* What the loops of the channels still come to, when their map changes.
LEMMA RevisitStep ==
    ASSUME task \in [Task -> Call], NEW now \in SUBSET EchoChannel
    PROVE  /\ Revisit(now) \in [Task -> Call]
           /\ \A u \in Task :
                 /\ Revisit(now)[u].at = task[u].at
                 /\ Revisit(now)[u].channel = task[u].channel
                 /\ Revisit(now)[u].id = task[u].id
                 /\ u[1] # "channels" \/ task[u].at = "none" => Revisit(now)[u] = task[u]
                 /\ Revisit(now)[u].todo \subseteq now \cup task[u].todo
           /\ \A u \in Task : task[u].todo \cap now \subseteq Revisit(now)[u].todo
           /\ \A u \in Task : Revisit(now)[u].todo \subseteq task[u].todo \cup (now \ channels)
           /\ \A u \in Task : u[1] = "channels" /\ task[u].at # "none" =>
                                Revisit(now)[u].todo \subseteq now
<1>1. ASSUME NEW u \in Task
      PROVE  /\ Revisit(now)[u] \in Call
             /\ Revisit(now)[u].at = task[u].at
             /\ Revisit(now)[u].channel = task[u].channel
             /\ Revisit(now)[u].id = task[u].id
             /\ u[1] # "channels" \/ task[u].at = "none" => Revisit(now)[u] = task[u]
             /\ task[u].todo \cap now \subseteq Revisit(now)[u].todo
             /\ Revisit(now)[u].todo \subseteq task[u].todo \cup (now \ channels)
             /\ u[1] = "channels" /\ task[u].at # "none" => Revisit(now)[u].todo \subseteq now
  <2>1. task[u] \in Call
    OBVIOUS
  <2>2. Revisit(now)[u] = IF u[1] = "channels" /\ task[u].at # "none"
                          THEN [task[u] EXCEPT !.todo = (@ \cap now) \cup (now \ channels)]
                          ELSE task[u]
    BY DEF Revisit
  <2>3. CASE u[1] = "channels" /\ task[u].at # "none"
    <3>1. PICK left \in SUBSET EchoChannel : left = (task[u].todo \cap now) \cup (now \ channels)
      OBVIOUS
    <3>2. Revisit(now)[u] = [task[u] EXCEPT !.todo = left]
      BY <2>2, <2>3, <3>1
    <3>3. /\ Revisit(now)[u] \in Call /\ Revisit(now)[u].todo = left
          /\ Revisit(now)[u].at = task[u].at /\ Revisit(now)[u].channel = task[u].channel
          /\ Revisit(now)[u].id = task[u].id
      BY <2>1, <3>2 DEF Call
    <3> QED
      BY <2>3, <3>1, <3>3
  <2>4. CASE ~(u[1] = "channels" /\ task[u].at # "none")
    BY <2>1, <2>2, <2>4
  <2> QED
    BY <2>3, <2>4
<1>2. Revisit(now) \in [Task -> Call]
  <2>1. Revisit(now) = [u \in Task |-> Revisit(now)[u]]
    BY DEF Revisit
  <2> QED
    BY <1>1, <2>1
<1> QED
  BY <1>1, <1>2

LEMMA ListenStep == ASSUME EchoSafe, NEW ch \in EchoChannel, Listen(ch) PROVE EchoSafe'
<1>1. PICK t \in Task : t = <<"listen", ch>> /\ t[1] = "listen"
  BY TaskForms
<1>2. PICK new \in Call : /\ new = [NoCall EXCEPT !.at = "ask", !.channel = ch]
                          /\ new.at = "ask" /\ new.channel = ch /\ new.todo = {}
  <2>1. PICK new : new = [NoCall EXCEPT !.at = "ask", !.channel = ch]
    OBVIOUS
  <2>2. new \in Call
    BY <2>1, EmptyCalls DEF Call
  <2>3. new.at = "ask" /\ new.channel = ch /\ new.todo = {}
    BY <2>1 DEF NoCall
  <2> QED
    BY <2>1, <2>2, <2>3
<1>3. /\ Waiting = {} /\ ch \notin channels /\ task[t] = NoCall /\ ch \notin joined
      /\ channels' = channels \cup {ch}
      /\ task' = [Revisit(channels') EXCEPT ![t] = new]
      /\ UNCHANGED <<link, current, socketId, intended, timer, subscribed, pending, joined,
                     atHub, marred>>
  BY <1>1, <1>2 DEF Listen, wires
<1>4. /\ EchoTypes /\ CallsInOrder /\ LoopsBegin /\ WaitsAlone /\ AsksUnjoined /\ HubAgrees
      /\ LinksAgree /\ Attended /\ Forgotten /\ Unjoined /\ ch # NoLink
  BY EchoAssumption DEF EchoSafe, EchoChannel
<1>5. PICK left : left = Revisit(channels')
  OBVIOUS
<1>6. /\ left \in [Task -> Call]
      /\ \A u \in Task : /\ left[u].at = task[u].at /\ left[u].channel = task[u].channel
                         /\ left[u].id = task[u].id
                         /\ u[1] # "channels" \/ task[u].at = "none" => left[u] = task[u]
                         /\ left[u].todo \subseteq channels' \cup task[u].todo
      /\ \A u \in Task : task[u].todo \cap channels' \subseteq left[u].todo
      /\ \A u \in Task : left[u].todo \subseteq task[u].todo \cup (channels' \ channels)
  BY <1>3, <1>4, <1>5, RevisitStep DEF EchoTypes
<1>7. /\ task' \in [Task -> Call] /\ task'[t] = new
      /\ \A u \in Task : u # t => task'[u] = left[u]
  BY <1>3, <1>5, <1>6
<1>8. CallsInOrder'
  <2>1. /\ task'[t].at = "ask" /\ task'[t].channel # NoLink /\ task'[t].todo = {}
    BY <1>2, <1>4, <1>7
  <2>2. \A u \in Task : u # t =>
           /\ task'[u].at = task[u].at /\ task'[u].channel = task[u].channel
           /\ u[1] # "channels" \/ task[u].at = "none" => task'[u].todo = task[u].todo
    BY <1>6, <1>7
  <2>3. \A u \in Task : u[1] = "listen" => u[1] # "channels"
    OBVIOUS
  <2> QED
    BY <1>4, <2>1, <2>2, <2>3 DEF CallsInOrder
<1>9. LoopsBegin'
  <2> SUFFICES ASSUME NEW s \in Link, link'[s] \in {"unused", "connecting", "open"},
                      NEW u \in {<<"flush", s>>, <<"channels", s>>}
               PROVE  task'[u].at = "none"
    BY DEF LoopsBegin
  <2>1. u \in Task /\ u # t /\ task[u].at = "none"
    BY <1>1, <1>3, <1>4, TaskForms DEF LoopsBegin
  <2> QED
    BY <1>6, <1>7, <2>1
<1>10. WaitsAlone'
  <2>1. Waiting' \subseteq {t}
    BY <1>3, <1>6, <1>7 DEF Waiting
  <2> QED
    BY <2>1 DEF WaitsAlone
<1>11. EchoTypes'
  BY <1>3, <1>4, <1>7 DEF EchoTypes
<1>12. AsksUnjoined'
  <2>1. task'[t].channel \notin joined'
    BY <1>2, <1>3, <1>7
  <2>2. \A u \in Task : u # t =>
           task'[u].at = task[u].at /\ task'[u].channel = task[u].channel
    BY <1>6, <1>7
  <2> SUFFICES ASSUME NEW u \in Task, u[1] \in {"listen", "channels"},
                      task'[u].at = "ask"
               PROVE  task'[u].channel \notin joined'
    BY DEF AsksUnjoined
  <2>3. CASE u = t
    BY <2>1, <2>3
  <2>4. CASE u # t
    <3>1. task'[u].at = task[u].at /\ task'[u].channel = task[u].channel
      BY <2>2, <2>4
    <3>2. task[u].channel \notin joined
      BY <1>4, <3>1 DEF AsksUnjoined
    <3>3. joined' = joined
      BY <1>3
    <3> QED
      BY <3>1, <3>2, <3>3
  <2> QED
    BY <2>3, <2>4
<1>13. HubAgrees' /\ LinksAgree'
  <2>1. HubAgrees'
    BY <1>3, <1>4 DEF HubAgrees, Up
  <2>2. \A u \in Task : task'[u].at = "auth" =>
           /\ task[u].at = "auth" /\ task'[u].id = task[u].id
           /\ task'[u].channel = task[u].channel
    BY <1>2, <1>6, <1>7
  <2> QED
    BY <1>3, <1>4, <2>1, <2>2 DEF LinksAgree
<1>14. \A u \in Task, c \in EchoChannel :
          /\ Joining(u, c) => Joining(u, c)' /\ task'[u].at = task[u].at
          /\ Authorizing(u, c) => Authorizing(u, c)'
          /\ About(u, c)' => About(u, c) \/ c = ch
  <2>1. \A u \in Task, c \in EchoChannel : u # t =>
          /\ Joining(u, c) => Joining(u, c)' /\ task'[u].at = task[u].at
          /\ Authorizing(u, c) => Authorizing(u, c)'
          /\ About(u, c)' => About(u, c) \/ c = ch
    <3>1. \A u \in Task : left[u].todo \subseteq task[u].todo \cup {ch}
      BY <1>3, <1>6
    <3> QED
      BY <1>3, <1>6, <1>7, <3>1 DEF Joining, Authorizing, About
  <2>2. \A c \in EchoChannel : /\ ~Joining(t, c) /\ ~Authorizing(t, c)
                               /\ About(t, c)' => c = ch
    BY <1>2, <1>3, <1>7, EmptyCalls DEF Joining, Authorizing, About
  <2> QED
    BY <2>1, <2>2
<1>15. \A u \in Task, c \in channels :
          /\ Visits(u, c) => Visits(u, c)'
          /\ About(u, c) => About(u, c)'
  <2>1. \A u \in Task : u # t => task[u].todo \cap channels \subseteq task'[u].todo
    BY <1>3, <1>6, <1>7
  <2>2. \A c : ~Visits(t, c) /\ ~About(t, c)
    BY <1>1, <1>3, EmptyCalls DEF Visits, About
  <2>3. \A u \in Task : u # t => task'[u].at = task[u].at /\ task'[u].channel = task[u].channel
    BY <1>6, <1>7
  <2> QED
    BY <2>1, <2>2, <2>3 DEF Visits, About
<1>16. Joining(t, ch)'
  BY <1>1, <1>2, <1>7 DEF Joining
<1>17. Attended'
  BY <1>3, <1>4, <1>14, <1>16 DEF Attended, EchoTypes
<1>18. Forgotten'
  BY <1>3, <1>4, <1>14 DEF Forgotten
<1>19. ASSUME NEW c \in (subscribed' \cap SignedChannel) \ (marred' \cup joined')
       PROVE  \/ timer'
              \/ current' # NoLink /\ c \in atHub'[current']
              \/ \E u \in Task : Authorizing(u, c)'
              \/ \E u \in Task : Joining(u, c)' /\ task'[u].at = "ask"
  <2>1. c \in EchoChannel /\ c \in (subscribed \cap SignedChannel) \ (marred \cup joined)
    BY <1>3, <1>19 DEF EchoChannel
  <2>2. \/ timer
        \/ current # NoLink /\ c \in atHub[current]
        \/ \E u \in Task : Authorizing(u, c)
        \/ \E u \in Task : Joining(u, c) /\ task[u].at = "ask"
    BY <1>4, <2>1 DEF Unjoined
  <2> QED
    BY <1>3, <1>14, <2>1, <2>2
<1>20. Unjoined'
  BY <1>19 DEF Unjoined
<1>21. ASSUME Greets' PROVE Claimed' /\ Covered'
  <2>1. Claimed /\ Covered
    BY <1>3, <1>21 DEF EchoSafe, Greets
  <2>2. \A c \in subscribed \ marred : c \in channels /\ c \in EchoChannel
    BY <1>4 DEF Forgotten, EchoTypes
  <2>3. Claimed'
    BY <1>3, <1>14, <1>15, <2>1, <2>2 DEF Claimed
  <2>4. About(t, ch)'
    BY <1>2, <1>7 DEF About
  <2>5. Covered'
    BY <1>3, <1>15, <2>1, <2>4 DEF Covered
  <2> QED
    BY <2>3, <2>5
<1> QED
  BY <1>8, <1>9, <1>10, <1>11, <1>12, <1>13, <1>17, <1>18, <1>20, <1>21 DEF EchoSafe

\* A channel that a call under way may yet subscribe is left too early.
LEMMA LeaveChannelStep ==
    ASSUME EchoSafe, NEW ch \in EchoChannel, LeaveChannel(ch) PROVE EchoSafe'
<1>1. /\ Waiting = {} /\ ch \in channels /\ channels' = channels \ {ch}
      /\ joined' = joined \ {ch}
      /\ IF ch \in joined THEN Unsubscribes(ch) ELSE UNCHANGED <<subscribed, bound, atHub>>
      /\ marred' = IF ch \in pending \/ \E t \in Task : About(t, ch)
                   THEN marred \cup {ch} ELSE marred
      /\ task' = Revisit(channels')
      /\ UNCHANGED <<link, current, socketId, intended, timer, pending>>
  BY DEF LeaveChannel, wires
<1>2. /\ EchoTypes /\ CallsInOrder /\ LoopsBegin /\ WaitsAlone /\ AsksUnjoined /\ HubAgrees
      /\ LinksAgree /\ Attended /\ Forgotten /\ Unjoined
  BY DEF EchoSafe
<1>3. /\ subscribed' \subseteq subscribed /\ atHub' \in [Link -> SUBSET EchoChannel]
      /\ \A s \in Link : atHub'[s] \subseteq atHub[s]
      /\ \A s \in Link : \A c \in atHub[s] : c # ch => c \in atHub'[s]
      /\ \A c \in EchoChannel : c # ch => (c \in subscribed' <=> c \in subscribed)
      /\ ch \in joined => ch \notin subscribed'
  BY <1>1, <1>2, UnsubscribesStep DEF EchoTypes
<1>4. /\ task' \in [Task -> Call]
      /\ \A u \in Task : /\ task'[u].at = task[u].at /\ task'[u].channel = task[u].channel
                         /\ task'[u].id = task[u].id
                         /\ u[1] # "channels" \/ task[u].at = "none" => task'[u] = task[u]
                         /\ task[u].todo \cap channels' \subseteq task'[u].todo
                         /\ task'[u].todo \subseteq task[u].todo
      /\ marred \subseteq marred'
  <2>1. channels' \in SUBSET EchoChannel /\ channels' \ channels = {}
    BY <1>1, <1>2 DEF EchoTypes
  <2> QED
    BY <1>1, <1>2, <2>1, RevisitStep DEF EchoTypes
<1>5. EchoTypes'
  BY <1>1, <1>2, <1>3, <1>4 DEF EchoTypes
<1>6. CallsInOrder' /\ LoopsBegin' /\ WaitsAlone' /\ AsksUnjoined'
  <2>1. CallsInOrder'
    BY <1>2, <1>4 DEF CallsInOrder
  <2>2. LoopsBegin'
    BY <1>1, <1>2, <1>4, TaskForms DEF LoopsBegin
  <2>3. WaitsAlone'
    <3>1. Waiting' = {}
      BY <1>1, <1>4 DEF Waiting
    <3> QED
      BY <3>1 DEF WaitsAlone
  <2>4. AsksUnjoined'
    BY <1>1, <1>2, <1>4 DEF AsksUnjoined
  <2> QED
    BY <2>1, <2>2, <2>3, <2>4
<1>7. HubAgrees' /\ LinksAgree'
  <2>1. HubAgrees'
    BY <1>1, <1>2, <1>3 DEF HubAgrees, Up
  <2>2. LinksAgree'
    BY <1>1, <1>2, <1>4 DEF LinksAgree
  <2> QED
    BY <2>1, <2>2
<1>8. \A u \in Task, c \in EchoChannel :
          /\ Joining(u, c)' <=> Joining(u, c)
          /\ Authorizing(u, c)' <=> Authorizing(u, c)
          /\ About(u, c)' => About(u, c)
          /\ c \in channels' => /\ Visits(u, c) => Visits(u, c)'
                                /\ About(u, c) => About(u, c)'
  BY <1>1, <1>4 DEF Joining, Authorizing, About, Visits
<1>9. Attended'
  BY <1>1, <1>2, <1>4, <1>8 DEF Attended, EchoTypes
<1>10. ch \notin marred' => /\ ch \in joined /\ ch \notin pending
                           /\ \A u \in Task : ~About(u, ch)
  <2>1. SUFFICES ASSUME ch \notin marred' PROVE ch \in joined
    BY <1>1
  <2>2. \A u \in Task : ~About(u, ch)
    BY <1>1, <2>1
  <2>3. \A u \in Task : ~Joining(u, ch)
    BY <2>2 DEF About, Joining
  <2> QED
    BY <1>1, <1>2, <1>4, <2>1, <2>3 DEF Attended
<1>11. ASSUME NEW c \in EchoChannel \ (channels' \cup marred')
       PROVE  /\ c \notin subscribed' /\ c \notin pending' /\ c \notin joined'
              /\ \A u \in Task : ~About(u, c)'
  <2>1. CASE c = ch
    BY <1>1, <1>3, <1>8, <1>10, <1>11, <2>1
  <2>2. CASE c # ch
    <3>1. c \in EchoChannel \ (channels \cup marred)
      BY <1>1, <1>4, <1>11, <2>2
    <3> QED
      BY <1>1, <1>2, <1>3, <1>8, <2>2, <3>1 DEF Forgotten
  <2> QED
    BY <2>1, <2>2
<1>12. Forgotten'
  BY <1>11 DEF Forgotten
<1>13. ASSUME Greets' PROVE Claimed' /\ Covered'
  <2>1. Claimed /\ Covered /\ current \in Link /\ current' = current /\ timer' = timer
    BY <1>1, <1>2, <1>13 DEF EchoSafe, Greets, EchoTypes
  <2>2. ASSUME NEW c \in subscribed' \ marred'
        PROVE  \/ timer'
               \/ c \in atHub'[current']
               \/ c \in joined' /\ \E u \in Task : Visits(u, c)'
               \/ \E u \in Task : Authorizing(u, c)'
    <3>1. c \in subscribed \ marred /\ c \in EchoChannel /\ c # ch
      BY <1>2, <1>3, <1>4, <1>10, <2>2 DEF EchoTypes
    <3>2. c \in channels'
      BY <1>1, <1>2, <3>1 DEF Forgotten
    <3>3. \/ timer
          \/ c \in atHub[current]
          \/ c \in joined /\ \E u \in Task : Visits(u, c)
          \/ \E u \in Task : Authorizing(u, c)
      BY <2>1, <3>1 DEF Claimed
    <3> QED
      BY <1>1, <1>3, <1>8, <2>1, <3>1, <3>2, <3>3
  <2>3. Claimed'
    BY <2>2 DEF Claimed
  <2>4. ASSUME NEW c \in channels' \ marred'
        PROVE  \/ c \in subscribed' /\ (timer' \/ c \in atHub'[current'])
               \/ \E u \in Task : About(u, c)'
    <3>1. c \in channels \ marred /\ c \in EchoChannel /\ c # ch
      BY <1>1, <1>2, <1>4, <2>4 DEF EchoTypes
    <3>2. \/ c \in subscribed /\ (timer \/ c \in atHub[current])
          \/ \E u \in Task : About(u, c)
      BY <2>1, <3>1 DEF Covered
    <3> QED
      BY <1>1, <1>3, <1>8, <2>1, <2>4, <3>1, <3>2
  <2>5. Covered'
    BY <2>4 DEF Covered
  <2> QED
    BY <2>3, <2>5
<1>14. ASSUME NEW c \in (subscribed' \cap SignedChannel) \ (marred' \cup joined')
       PROVE  \/ timer'
              \/ current' # NoLink /\ c \in atHub'[current']
              \/ \E u \in Task : Authorizing(u, c)'
              \/ \E u \in Task : Joining(u, c)' /\ task'[u].at = "ask"
  <2>1. c # ch /\ c \in EchoChannel
    BY <1>3, <1>10, <1>14 DEF EchoChannel
  <2>2. c \in (subscribed \cap SignedChannel) \ (marred \cup joined)
    BY <1>1, <1>3, <1>4, <1>14, <2>1
  <2>3. \/ timer
        \/ current # NoLink /\ c \in atHub[current]
        \/ \E u \in Task : Authorizing(u, c)
        \/ \E u \in Task : Joining(u, c) /\ task[u].at = "ask"
    BY <1>2, <2>2 DEF Unjoined
  <2>4. current # NoLink /\ c \in atHub[current] => c \in atHub'[current]
    BY <1>2, <1>3, <2>1 DEF EchoTypes
  <2> QED
    BY <1>1, <1>4, <1>8, <2>1, <2>3, <2>4
<1>15. Unjoined'
  BY <1>14 DEF Unjoined
<1> QED
  BY <1>5, <1>6, <1>7, <1>9, <1>12, <1>13, <1>15 DEF EchoSafe

LEMMA DisconnectStep == ASSUME EchoSafe, Disconnect PROVE EchoSafe'
<1>1. /\ Waiting = {} /\ current # NoLink /\ intended' = TRUE /\ timer' = FALSE
      /\ link' = IF link[current] = "closed" THEN link
                 ELSE [link EXCEPT ![current] = "closing"]
      /\ current' = NoLink /\ socketId' = NoLink
      /\ subscribed' = {} /\ pending' = {} /\ channels' = {} /\ joined' = {}
      /\ atHub' = [s \in Link |-> IF s = current THEN {} ELSE atHub[s]]
      /\ marred' = marred \cup {ch \in EchoChannel : \E t \in Task : About(t, ch)}
      /\ task' = Revisit({})
  BY DEF Disconnect
<1>2. /\ EchoTypes /\ CallsInOrder /\ LoopsBegin /\ WaitsAlone /\ AsksUnjoined /\ HubAgrees
      /\ LinksAgree
  BY DEF EchoSafe
<1>3. current \in Link
  BY <1>1, <1>2 DEF EchoTypes
<1>4. link' \in [Link -> {"unused", "connecting", "open", "ready", "closing", "closed"}]
  BY <1>1, <1>2 DEF EchoTypes
<1>5. \A s \in Link : link'[s] = IF s = current /\ link[s] # "closed" THEN "closing"
                                 ELSE link[s]
  BY <1>1, <1>2 DEF EchoTypes
<1>6. /\ task' \in [Task -> Call]
      /\ \A u \in Task : /\ task'[u].at = task[u].at /\ task'[u].channel = task[u].channel
                         /\ task'[u].id = task[u].id
                         /\ u[1] # "channels" \/ task[u].at = "none" => task'[u] = task[u]
                         /\ task'[u].todo \subseteq task[u].todo
  <2>1. {} \in SUBSET EchoChannel /\ {} \ channels = {}
    OBVIOUS
  <2> QED
    BY <1>1, <1>2, <2>1, RevisitStep DEF EchoTypes
<1>7. EchoTypes'
  BY <1>1, <1>2, <1>4, <1>6 DEF EchoTypes
<1>8. CallsInOrder' /\ WaitsAlone'
  <2>1. CallsInOrder'
    BY <1>2, <1>6 DEF CallsInOrder
  <2>2. Waiting' = {}
    BY <1>1, <1>6 DEF Waiting
  <2> QED
    BY <2>1, <2>2 DEF WaitsAlone
<1>9. LoopsBegin'
  <2> SUFFICES ASSUME NEW s \in Link, link'[s] \in {"unused", "connecting", "open"},
                      NEW u \in {<<"flush", s>>, <<"channels", s>>}
               PROVE  task'[u].at = "none"
    BY DEF LoopsBegin
  <2>1. link[s] \in {"unused", "connecting", "open"}
    BY <1>5
  <2>2. u \in Task
    BY TaskForms
  <2>3. task[u].at = "none"
    BY <1>2, <2>1 DEF LoopsBegin
  <2> QED
    BY <1>6, <2>2, <2>3
<1>10. AsksUnjoined' /\ Attended' /\ Unjoined'
  BY <1>1 DEF AsksUnjoined, Attended, Unjoined
<1>11. HubAgrees' /\ LinksAgree'
  <2>1. HubAgrees'
    BY <1>1, <1>2 DEF HubAgrees
  <2>2. LinksAgree'
    BY <1>1, <1>2, <1>5, <1>6 DEF LinksAgree
  <2> QED
    BY <2>1, <2>2
<1>12. \A u \in Task, c \in EchoChannel : About(u, c)' => About(u, c)
  BY <1>6 DEF About
<1>13. Forgotten'
  BY <1>1, <1>12 DEF Forgotten
<1>14. ~Greets'
  BY <1>1 DEF Greets
<1> QED
  BY <1>7, <1>8, <1>9, <1>10, <1>11, <1>13, <1>14 DEF EchoSafe

LEMMA EchoStep == EchoSafe /\ [EchoNext]_echoVars => EchoSafe'
<1> SUFFICES ASSUME EchoSafe, [EchoNext]_echoVars PROVE EchoSafe'
  OBVIOUS
<1>1. CASE EchoNext
  <2>1. CASE \E t \in Task : \/ NextChannel(t) \/ AskNot(t) \/ Ask(t)
                             \/ Authorized(t) \/ Unauthorized(t)
    BY <2>1, NextChannelStep, AskNotStep, AskStep, AuthorizedStep, UnauthorizedStep
  <2>2. CASE \E s \in Link : Opened(s) \/ Greeted(s) \/ Closed(s)
    BY <2>2, OpenedStep, GreetedStep, ClosedStep
  <2>3. CASE Reconnect \/ Disconnect
    BY <2>3, ReconnectStep, DisconnectStep
  <2>4. CASE \E ch \in EchoChannel : Listen(ch) \/ LeaveChannel(ch)
    BY <2>4, ListenStep, LeaveChannelStep
  <2> QED
    BY <1>1, <2>1, <2>2, <2>3, <2>4 DEF EchoNext
<1>2. CASE UNCHANGED echoVars
  <2>1. /\ ChannelsQuiet
        /\ UNCHANGED <<link, current, socketId, intended, timer, atHub>>
        /\ UNCHANGED <<subscribed, pending, channels, joined, task, marred>>
    BY <1>2 DEF echoVars, ChannelsQuiet
  <2>2. EchoTypes' /\ LoopsBegin' /\ HubAgrees'
    BY <2>1 DEF EchoSafe, EchoTypes, LoopsBegin, HubAgrees, Up
  <2>3. LinksAgree' /\ Unjoined'
    BY <2>1 DEF EchoSafe, LinksAgree, Unjoined, Authorizing, Joining
  <2>4. Greets' => Claimed' /\ Covered'
    BY <2>1 DEF EchoSafe, Greets, Claimed, Covered, Authorizing, Visits, About
  <2>5. CallsInOrder' /\ WaitsAlone' /\ AsksUnjoined' /\ Attended' /\ Forgotten'
    BY <2>1, ChannelsQuietStep
  <2> QED
    BY <2>2, <2>3, <2>4, <2>5 DEF EchoSafe
<1> QED
  BY <1>1, <1>2

LEMMA EchoKept == EchoSafe => EchoInv
<1> SUFFICES ASSUME EchoSafe PROVE ChannelsSurvive /\ OneSocketSubscribes
  BY DEF EchoInv
<1>1. OneSocketSubscribes
  BY DEF EchoSafe, HubAgrees, OneSocketSubscribes
<1>2. ASSUME Settled, ~timer, current # NoLink, socketId = current
      PROVE  channels \ marred \subseteq subscribed \cap atHub[current]
  <2>1. Covered
    BY <1>2 DEF EchoSafe, Greets
  <2>2. \A t \in Task, ch \in channels : ~About(t, ch)
    BY <1>2, EmptyCalls DEF Settled, About
  <2> QED
    BY <1>2, <2>1, <2>2 DEF Covered
<1> QED
  BY <1>1, <1>2 DEF ChannelsSurvive

(***************************************************************************)
(* EchoInv: however often the socket is lost and made again, and whatever  *)
(* sockets are made beside it, once the last greeting was that of the one  *)
(* in use, no call is under way and no reconnect is due, the hub has every *)
(* channel of the Echo but those whose authorization was refused or was    *)
(* for another socket for good, or that were left while they subscribed;   *)
(* and it never has channels of two sockets.                               *)
(***************************************************************************)
THEOREM ChannelsComeBack == EchoSpec => []EchoInv
<1>1. EchoSpec => EchoInit /\ [][EchoNext]_echoVars
  BY PTL DEF EchoSpec
<1> QED
  BY <1>1, EchoStarts, EchoStep, EchoKept, PTL
-----------------------------------------------------------------------------
(***************************************************************************)
(* The table of routes.  What a route will run, or runs already, is what   *)
(* it was given, or its throttle alone when that came too late.            *)
(***************************************************************************)
Given(i) == IF i \in belated THEN {Throttling} ELSE routes[i].given

TableOf(list) ==
    [i \in DOMAIN list |-> [method |-> list[i].method, pattern |-> list[i].pattern,
                            pipeline |-> Pipeline(list[i])]]

RoutesSafe ==
    /\ routes \in Seq(Route) /\ Len(routes) <= MaxRoutes
    /\ belated \subseteq DOMAIN routes
    /\ \A i \in DOMAIN routes :
          /\ routes[i].labels = routes[i].given \cap Labelled
          /\ i \in belated => Throttling \in routes[i].labels
          /\ IF routes[i].inputs = Unresolved THEN routes[i].middleware = Given(i)
             ELSE routes[i].inputs = Given(i)
    /\ compiledCache # Unresolved =>
          /\ compiledCache = TableOf(routes)
          /\ \A i \in DOMAIN routes : routes[i].inputs = Unresolved

LEMMA RoutesStart == RouteInit => RoutesSafe
<1> SUFFICES ASSUME RouteInit PROVE RoutesSafe
  OBVIOUS
<1>1. routes = <<>> /\ routes \in Seq(Route) /\ Len(routes) = 0 /\ DOMAIN routes = {}
  BY EmptySeq DEF RouteInit
<1> QED
  BY <1>1, RouteAssumption DEF RouteInit, RoutesSafe

LEMMA AddStep ==
    ASSUME RoutesSafe, NEW m \in Methods, NEW p \in Patterns, NEW given \in Scopes[p],
           AddRoute(m, p, given)
    PROVE  RoutesSafe'
<1>1. PICK r : r = [method |-> m, pattern |-> p, given |-> given,
                    labels |-> given \cap Labelled, inputs |-> given, middleware |-> {}]
  OBVIOUS
<1>2. /\ Len(routes) < MaxRoutes /\ routes' = Append(routes, r)
      /\ compiledCache' = Unresolved /\ belated' = belated
  BY <1>1 DEF AddRoute
<1>3. given \in SUBSET Middleware /\ given # Unresolved
  BY RouteAssumption
<1>4. r \in Route /\ r.inputs = given /\ r.given = given /\ r.labels = given \cap Labelled
  BY <1>1, <1>3 DEF Route
<1>5. /\ routes \in Seq(Route) /\ Len(routes) \in Nat /\ DOMAIN routes = 1 .. Len(routes)
      /\ belated \subseteq 1 .. Len(routes)
  BY LenProperties DEF RoutesSafe
<1>6. /\ routes' \in Seq(Route) /\ Len(routes') = Len(routes) + 1
      /\ DOMAIN routes' = 1 .. Len(routes) + 1
      /\ \A i \in 1 .. Len(routes) : routes'[i] = routes[i]
      /\ routes'[Len(routes) + 1] = r
  BY <1>2, <1>4, <1>5, AppendProperties, LenProperties
<1>7. Len(routes') <= MaxRoutes /\ belated' \subseteq DOMAIN routes'
  BY <1>2, <1>5, <1>6, RouteAssumption
<1>8. ASSUME NEW i \in DOMAIN routes'
      PROVE  /\ routes'[i].labels = routes'[i].given \cap Labelled
             /\ i \in belated' => Throttling \in routes'[i].labels
             /\ IF routes'[i].inputs = Unresolved THEN routes'[i].middleware = Given(i)'
                ELSE routes'[i].inputs = Given(i)'
  <2>1. CASE i = Len(routes) + 1
    BY <1>2, <1>3, <1>4, <1>5, <1>6, <2>1 DEF Given
  <2>2. CASE i \in 1 .. Len(routes)
    BY <1>2, <1>5, <1>6, <2>2 DEF Given, RoutesSafe
  <2> QED
    BY <1>5, <1>6, <2>1, <2>2
<1> QED
  BY <1>2, <1>6, <1>7, <1>8 DEF RoutesSafe

LEMMA ThrottleStep == ASSUME RoutesSafe, ThrottleRoute PROVE RoutesSafe'
<1> DEFINE n == Len(routes)
<1>1. /\ routes \in Seq(Route) /\ n \in Nat /\ DOMAIN routes = 1 .. n
      /\ routes # <<>> /\ Throttling \notin Last(routes).labels
  BY LenProperties DEF RoutesSafe, ThrottleRoute
<1>2. n \in 1 .. n /\ Last(routes) = routes[n] /\ routes[n] \in Route
  BY <1>1, EmptySeq, ElementOfSeq DEF Last
<1>3. /\ routes[n].labels = routes[n].given \cap Labelled /\ routes[n].given \in SUBSET Middleware
      /\ Throttling \notin routes[n].labels /\ n \notin belated
      /\ Throttling \in Labelled /\ Labelled \subseteq Middleware
  BY <1>1, <1>2, RouteAssumption DEF Route, RoutesSafe
<1>4. PICK r : r = [routes[n] EXCEPT
                       !.given = routes[n].given \cup {Throttling},
                       !.labels = routes[n].labels \cup {Throttling},
                       !.inputs = {Throttling} \cup (IF routes[n].inputs = Unresolved THEN {}
                                                     ELSE routes[n].inputs)]
  OBVIOUS
<1>5. /\ routes' = [routes EXCEPT ![n] = r] /\ compiledCache' = Unresolved
      /\ belated' = IF routes[n].inputs = Unresolved THEN belated \cup {n} ELSE belated
  BY <1>1, <1>2, <1>4 DEF ThrottleRoute, Route
<1>6. routes[n].inputs # Unresolved => routes[n].inputs = routes[n].given
  BY <1>1, <1>2, <1>3 DEF RoutesSafe, Given
<1>7. /\ r.given = routes[n].given \cup {Throttling}
      /\ r.labels = r.given \cap Labelled /\ Throttling \in r.labels
      /\ r.inputs = IF routes[n].inputs = Unresolved THEN {Throttling} ELSE r.given
      /\ r.inputs # Unresolved /\ r \in Route
  <2>1. /\ r.given = routes[n].given \cup {Throttling}
        /\ r.labels = routes[n].labels \cup {Throttling}
        /\ r.inputs = {Throttling} \cup (IF routes[n].inputs = Unresolved THEN {}
                                         ELSE routes[n].inputs)
        /\ r.method = routes[n].method /\ r.pattern = routes[n].pattern
        /\ r.middleware = routes[n].middleware
    BY <1>2, <1>4 DEF Route
  <2>2. r.inputs = IF routes[n].inputs = Unresolved THEN {Throttling} ELSE r.given
    BY <1>6, <2>1
  <2>3. r.given \in SUBSET Middleware /\ r.inputs \in SUBSET Middleware
    BY <1>3, <2>1, <2>2
  <2>4. r.inputs # Unresolved
    BY <2>3, RouteAssumption
  <2>5. r \in Route
    BY <1>2, <1>3, <1>4, <2>1, <2>3 DEF Route
  <2> QED
    BY <1>3, <2>1, <2>2, <2>4, <2>5
<1>8. /\ routes' \in Seq(Route) /\ Len(routes') = n /\ DOMAIN routes' = 1 .. n
      /\ \A i \in 1 .. n : routes'[i] = IF i = n THEN r ELSE routes[i]
  BY <1>1, <1>2, <1>5, <1>7, ExceptSeq, LenProperties
<1>9. belated \subseteq 1 .. n
  BY <1>1 DEF RoutesSafe
<1>10. ASSUME NEW i \in 1 .. n
       PROVE  /\ routes'[i].labels = routes'[i].given \cap Labelled
              /\ i \in belated' => Throttling \in routes'[i].labels
              /\ IF routes'[i].inputs = Unresolved THEN routes'[i].middleware = Given(i)'
                 ELSE routes'[i].inputs = Given(i)'
  <2>1. CASE i = n
    BY <1>2, <1>3, <1>5, <1>7, <1>8, <2>1 DEF Given
  <2>2. CASE i # n
    BY <1>1, <1>5, <1>8, <2>2 DEF Given, RoutesSafe
  <2> QED
    BY <2>1, <2>2
<1>11. belated' \subseteq 1 .. n /\ Len(routes') <= MaxRoutes
  BY <1>2, <1>5, <1>8, <1>9 DEF RoutesSafe
<1> QED
  BY <1>5, <1>8, <1>10, <1>11 DEF RoutesSafe

LEMMA CompileStep == ASSUME RoutesSafe, Compile PROVE RoutesSafe'
<1> DEFINE n == Len(routes)
<1>1. /\ routes \in Seq(Route) /\ n \in Nat /\ DOMAIN routes = 1 .. n
      /\ routes' = [i \in 1 .. n |-> Resolved(routes[i])] /\ belated' = belated
      /\ \A i \in 1 .. n : routes[i] \in Route
  BY LenProperties, ElementOfSeq DEF RoutesSafe, Compile
<1>2. ASSUME NEW i \in 1 .. n
      PROVE  /\ Resolved(routes[i]) \in Route
             /\ Resolved(routes[i]).inputs = Unresolved
             /\ Resolved(routes[i]).given = routes[i].given
             /\ Resolved(routes[i]).labels = routes[i].labels
             /\ Resolved(routes[i]).method = routes[i].method
             /\ Resolved(routes[i]).pattern = routes[i].pattern
             /\ Resolved(routes[i]).middleware = Given(i)
  <2>1. IF routes[i].inputs = Unresolved THEN routes[i].middleware = Given(i)
        ELSE routes[i].inputs = Given(i)
    BY <1>1 DEF RoutesSafe
  <2>2. routes[i] \in Route
    BY <1>1
  <2>3. CASE routes[i].inputs = Unresolved
    BY <2>1, <2>2, <2>3 DEF Resolved
  <2>4. CASE routes[i].inputs # Unresolved
    <3>1. Resolved(routes[i]) = [routes[i] EXCEPT !.middleware = routes[i].inputs,
                                                  !.inputs = Unresolved]
      BY <2>4 DEF Resolved
    <3> QED
      BY <2>1, <2>2, <2>4, <3>1 DEF Route
  <2> QED
    BY <2>3, <2>4
<1>3. \A i \in 1 .. n : routes'[i] = Resolved(routes[i])
  BY <1>1
<1>4. routes' \in Seq(Route) /\ Len(routes') = n /\ DOMAIN routes' = 1 .. n
  <2>1. routes' \in [1 .. n -> Route]
    BY <1>1, <1>2
  <2> QED
    BY <1>1, <2>1, SeqDef, LenProperties
<1>5. compiledCache' = TableOf(routes')
  <2>1. compiledCache' = [i \in 1 .. n |->
           [method |-> routes[i].method, pattern |-> routes[i].pattern,
            pipeline |-> Pipeline(routes'[i])]]
    BY <1>1 DEF Compile
  <2> QED
    BY <1>2, <1>3, <1>4, <2>1 DEF TableOf
<1>6. \A i \in 1 .. n : Given(i)' = Given(i)
  BY <1>1, <1>2, <1>3 DEF Given
<1>7. \A i \in 1 .. n : /\ routes'[i].labels = routes'[i].given \cap Labelled
                         /\ i \in belated' => Throttling \in routes'[i].labels
  BY <1>1, <1>2, <1>3 DEF RoutesSafe
<1> QED
  BY <1>1, <1>2, <1>3, <1>4, <1>5, <1>6, <1>7 DEF RoutesSafe

LEMMA ResetStep == ASSUME RoutesSafe, ResetRoutes PROVE RoutesSafe'
<1>1. routes' = <<>> /\ <<>> \in Seq(Route) /\ Len(<<>>) = 0 /\ DOMAIN <<>> = {}
  BY EmptySeq DEF ResetRoutes
<1> QED
  BY <1>1, RouteAssumption DEF ResetRoutes, RoutesSafe

LEMMA RouteSteps == RoutesSafe /\ [RouteNext]_routeVars => RoutesSafe'
<1> SUFFICES ASSUME RoutesSafe, [RouteNext]_routeVars PROVE RoutesSafe'
  OBVIOUS
<1>1. CASE UNCHANGED routeVars
  BY <1>1 DEF routeVars, RoutesSafe, Given, TableOf
<1> QED
  BY <1>1, AddStep, ThrottleStep, CompileStep, ResetStep DEF RouteNext

\* The last of some places of a table.
LEMMA LastPlace ==
    ASSUME NEW n \in Nat, NEW S \in SUBSET (1 .. n), S # {}
    PROVE  Max(S) \in S /\ \A i \in S : i <= Max(S)
<1> DEFINE T == {n - i : i \in S}
<1>1. T \in SUBSET Nat /\ T # {}
  <2>1. \A i \in S : i \in 1 .. n
    OBVIOUS
  <2>2. \A i \in 1 .. n : n - i \in Nat
    OBVIOUS
  <2> QED
    BY <2>1, <2>2
<1>2. Min(T) \in T /\ \A t \in T : Min(T) <= t
  BY <1>1, SmallestNumber
<1>3. PICK x \in S : Min(T) = n - x
  BY <1>2
<1>4. ASSUME NEW i \in S PROVE i <= x /\ x >= i
  <2>1. n - i \in T
    OBVIOUS
  <2>2. n - x <= n - i
    BY <1>2, <1>3, <2>1
  <2>3. i \in 1 .. n /\ x \in 1 .. n
    OBVIOUS
  <2> HIDE DEF T
  <2> QED
    BY <2>2, <2>3
<1>5. (\A i \in S : i <= x) /\ \A i \in S : x >= i
  BY <1>4
<1> QED
  BY <1>5 DEF Max

\* The words of a dynamic pattern in the trie are no request's.
LEMMA TrieIsEmpty ==
    ASSUME NEW pattern \in Patterns, NEW path \in Paths, ~IsStatic(pattern)
    PROVE  ~TrieSegments(pattern, path)
<1> SUFFICES ASSUME TrieSegments(pattern, path) PROVE FALSE
  OBVIOUS
<1>1. /\ pattern \in Seq(Segment) /\ path \in Seq(Word) /\ Capture \notin Word
      /\ DOMAIN pattern = 1 .. Len(pattern) /\ Len(pattern) \in Nat
  BY RouteAssumption, LenProperties
<1>2. PICK i \in 1 .. Len(pattern) : pattern[i].kind # "literal"
  BY <1>1 DEF IsStatic
<1>3. Captures(pattern) \subseteq 1 .. Len(pattern)
  BY <1>1 DEF Captures
<1>4. IsFiniteSet(Captures(pattern)) /\ Cardinality(Captures(pattern)) \in Nat
  <2>1. IsFiniteSet(1 .. Len(pattern))
    BY <1>1, FS_Interval
  <2> QED
    BY <1>3, <2>1, FS_Subset, FS_CardinalityType
<1>5. {j \in Captures(pattern) : j < i} \subseteq Captures(pattern)
  OBVIOUS
<1>6. /\ Cardinality({j \in Captures(pattern) : j < i}) \in Nat
      /\ Cardinality({j \in Captures(pattern) : j < i}) <= Cardinality(Captures(pattern))
  BY <1>4, <1>5, FS_Subset, FS_CardinalityType
<1>7. Place(pattern, i) \in 1 .. Len(path)
  BY <1>1, <1>4, <1>6 DEF Place, TrieSegments
<1>8. path[Place(pattern, i)] = Capture
  BY <1>1, <1>2 DEF TrieSegments
<1>9. path[Place(pattern, i)] \in Word
  BY <1>1, <1>7, ElementOfSeq
<1> QED
  BY <1>1, <1>8, <1>9

\* Which of the routes of a method match a path, and which of them answers.
Hits(method, path) ==
    {i \in DOMAIN routes : routes[i].method = method /\ Matches(routes[i].pattern, path)}

LEMMA TheRouteThatAnswers ==
    ASSUME RoutesSafe, compiledCache # Unresolved, NEW m \in Methods, NEW path \in Paths
    PROVE  LET answer == Answer(compiledCache, m, path)
           IN  IF Hits(m, path) = {}
               THEN answer = IF \A other \in Methods : Hits(other, path) = {}
                             THEN -404 ELSE -405
               ELSE /\ answer \in Hits(m, path)
                    /\ \A i \in Hits(m, path) \ {answer} :
                          IF IsStatic(routes[answer].pattern)
                          THEN IsStatic(routes[i].pattern) => i < answer
                          ELSE ~IsStatic(routes[i].pattern) /\ answer < i
<1> DEFINE n == Len(routes)
           answer == Answer(compiledCache, m, path)
           static == StaticMatches(compiledCache, m, path)
           dynamic == DynamicMatches(compiledCache, m, path)
           hits == Hits(m, path)
<1>1. /\ n \in Nat /\ DOMAIN routes = 1 .. n /\ DOMAIN compiledCache = 1 .. n
      /\ \A i \in 1 .. n : /\ routes[i] \in Route
                           /\ compiledCache[i].method = routes[i].method
                           /\ compiledCache[i].pattern = routes[i].pattern
  BY LenProperties, ElementOfSeq DEF RoutesSafe, TableOf
<1>2. static = {i \in hits : IsStatic(routes[i].pattern)}
  BY <1>1 DEF StaticMatches, Hits
<1>3. TrieMatches(compiledCache, m, path) = {}
  <2>1. \A i \in Dynamic(compiledCache, m) :
           i \in 1 .. n /\ compiledCache[i].pattern \in Patterns
           /\ ~IsStatic(compiledCache[i].pattern)
    BY <1>1 DEF Dynamic, Route
  <2> QED
    BY <2>1, TrieIsEmpty DEF TrieMatches
<1>4. dynamic = {i \in hits : ~IsStatic(routes[i].pattern)}
  BY <1>1, <1>3 DEF DynamicMatches, Dynamic, Hits
<1>5. static \subseteq 1 .. n /\ dynamic \subseteq 1 .. n /\ hits \subseteq 1 .. n
  BY <1>1, <1>2, <1>4 DEF Hits
<1>6. hits = static \cup dynamic
  BY <1>2, <1>4
<1>7. answer = IF static # {} THEN Max(static)
               ELSE IF dynamic # {} THEN Min(dynamic)
               ELSE IF Allowed(compiledCache, m, path) # {} THEN -405 ELSE -404
  BY DEF Answer
<1>8. CASE static # {}
  <2>1. answer \in static /\ \A i \in static : i <= answer
    BY <1>1, <1>5, <1>7, <1>8, LastPlace
  <2>2. \A i \in static \ {answer} : i < answer
    BY <1>5, <2>1
  <2> HIDE DEF n, answer, static, dynamic, hits
  <2>3. /\ hits # {} /\ answer \in hits /\ IsStatic(routes[answer].pattern)
        /\ \A i \in hits \ {answer} : IsStatic(routes[i].pattern) => i < answer
    BY <1>2, <1>6, <2>1, <2>2
  <2> USE DEF answer, hits
  <2> QED
    BY <2>3
<1>9. CASE static = {} /\ dynamic # {}
  <2>1. answer \in dynamic /\ \A i \in dynamic : answer <= i
    <3>1. dynamic \in SUBSET Nat
      BY <1>1, <1>5
    <3> QED
      BY <1>7, <1>9, <3>1, SmallestNumber
  <2>2. \A i \in dynamic \ {answer} : answer < i
    BY <1>5, <2>1
  <2> HIDE DEF n, answer, static, dynamic, hits
  <2>3. /\ hits # {} /\ answer \in hits /\ ~IsStatic(routes[answer].pattern)
        /\ \A i \in hits \ {answer} : ~IsStatic(routes[i].pattern) /\ answer < i
    BY <1>4, <1>6, <1>9, <2>1, <2>2
  <2> USE DEF answer, hits
  <2> QED
    BY <2>3
<1>10. CASE static = {} /\ dynamic = {}
  <2>1. hits = {}
    BY <1>6, <1>10
  <2>2. answer = IF Allowed(compiledCache, m, path) # {} THEN -405 ELSE -404
    BY <1>7, <1>10
  <2>3. Allowed(compiledCache, m, path) = {} <=> \A other \in Methods : Hits(other, path) = {}
    <3>1. Allowed(compiledCache, m, path) = {}
            <=> \A j \in 1 .. n : ~(routes[j].method # m /\ Matches(routes[j].pattern, path))
      BY <1>1 DEF Allowed
    <3>2. (\A other \in Methods : Hits(other, path) = {})
            <=> \A j \in 1 .. n : ~Matches(routes[j].pattern, path)
      BY <1>1 DEF Hits, Route
    <3>3. \A j \in 1 .. n : routes[j].method = m => ~Matches(routes[j].pattern, path)
      BY <1>1, <2>1 DEF Hits
    <3> QED
      BY <3>1, <3>2, <3>3
  <2> HIDE DEF answer, hits, static, dynamic, n
  <2>4. hits = {} /\ answer = IF \A other \in Methods : Hits(other, path) = {}
                               THEN -404 ELSE -405
    BY <2>1, <2>2, <2>3
  <2> USE DEF answer, hits
  <2> QED
    BY <2>4
<1> QED
  BY <1>8, <1>9, <1>10

LEMMA RoutesSafety == RoutesSafe => RouteInv
<1> SUFFICES ASSUME RoutesSafe PROVE RouteInv
  OBVIOUS
<1>1. RouteTypeOK
  <2>1. ASSUME compiledCache # Unresolved PROVE Len(compiledCache) = Len(routes)
    <3>1. Len(routes) \in Nat /\ DOMAIN routes = 1 .. Len(routes)
      BY LenProperties DEF RoutesSafe
    <3> DEFINE S == {compiledCache[i] : i \in 1 .. Len(routes)}
    <3>2. compiledCache \in [1 .. Len(routes) -> S]
      <4>1. compiledCache = TableOf(routes)
        BY <2>1 DEF RoutesSafe
      <4> QED
        BY <3>1, <4>1 DEF TableOf
    <3>3. compiledCache \in Seq(S) /\ DOMAIN compiledCache = 1 .. Len(routes)
      BY <3>1, <3>2, SeqDef
    <3>4. Len(compiledCache) \in Nat /\ DOMAIN compiledCache = 1 .. Len(compiledCache)
      BY <3>3, LenProperties
    <3> QED
      BY <3>1, <3>3, <3>4
  <2> QED
    BY <2>1 DEF RoutesSafe, RouteTypeOK
<1>2. GivenMiddlewareRuns
  <2> SUFFICES ASSUME compiledCache # Unresolved, NEW i \in DOMAIN routes
               PROVE  LET run == compiledCache[i].pipeline
                          given == routes[i].given
                      IN  IF i \in belated THEN run = {Throttling}
                          ELSE /\ run \subseteq given /\ given \ run \subseteq Stateful
                               /\ routes[i].method \notin SafeMethods
                                  \/ given \cap FullStack # {} => run = given
    BY DEF GivenMiddlewareRuns
  <2>1. /\ compiledCache[i].pipeline = Pipeline(routes[i])
        /\ routes[i].middleware = Given(i)
        /\ routes[i].labels = routes[i].given \cap Labelled
        /\ i \in belated => Throttling \in routes[i].labels
    BY DEF RoutesSafe, TableOf
  <2>2. FullStack \subseteq Labelled /\ Throttling \notin Stateful
    BY RouteAssumption
  <2>3. CASE i \in belated
    <3>1. routes[i].middleware = {Throttling}
      BY <2>1, <2>3 DEF Given
    <3>2. Pipeline(routes[i]) = {Throttling}
      BY <2>2, <3>1 DEF Pipeline
    <3> QED
      BY <2>1, <2>3, <3>2
  <2>4. CASE i \notin belated
    <3>1. routes[i].middleware = routes[i].given
      BY <2>1, <2>4 DEF Given
    <3>2. routes[i].given \cap FullStack # {} => routes[i].labels \cap FullStack # {}
      BY <2>1, <2>2
    <3>3. Pipeline(routes[i]) = IF jsonFastPathEnabled /\ Qualifies(routes[i])
                                THEN routes[i].given \ Stateful ELSE routes[i].given
      BY <3>1 DEF Pipeline
    <3>4. routes[i].method \notin SafeMethods /\ Qualifies(routes[i])
             => routes[i].given \cap Stateful = {}
      BY <3>1 DEF Qualifies
    <3>5. Qualifies(routes[i]) => routes[i].given \cap FullStack = {}
      BY <3>2 DEF Qualifies
    <3> QED
      BY <2>1, <2>4, <3>3, <3>4, <3>5
  <2> QED
    BY <2>3, <2>4
<1>3. RegistrationDecides
  BY TheRouteThatAnswers DEF RegistrationDecides, Hits
<1> QED
  BY <1>1, <1>2, <1>3 DEF RouteInv

\* A request is answered by the route the order of registration gives, through
\* the middleware it was given, but for what the JSON fast path goes without and
\* unless it was throttled too late: for every number of routes, all patterns,
\* all paths and all middleware.
THEOREM RegistrationRules == RouteSpec => []RouteInv
BY RoutesStart, RouteSteps, RoutesSafety, PTL DEF RouteSpec
-----------------------------------------------------------------------------
(***************************************************************************)
(* The reload of routes.  One run at most is under way, and what it has    *)
(* registered is what it listed but for what is still to do.               *)
(***************************************************************************)
RoutedModules == {r.from : r \in loaded}

ReloadSafe ==
    /\ ReloadTypeOK
    /\ \A t \in ReloadTask : reload[t] # "idle" => runningReload
    /\ \A s, t \in ReloadTask : reload[s] # "idle" /\ reload[t] # "idle" => s = t
    /\ \A a, b \in loaded : a.from = b.from => a = b
    /\ \A t \in ReloadTask : reload[t] = "importing" =>
          todo[t] \subseteq listed /\ RoutedModules = listed \ todo[t]
    /\ (\A t \in ReloadTask : reload[t] # "importing") /\ ~failed => RoutedModules = listed

LEMMA ReloadStarts == ReloadInit => ReloadSafe
<1> SUFFICES ASSUME ReloadInit PROVE ReloadSafe
  OBVIOUS
<1>1. /\ files \in [RouteModule -> Text \cup {Missing, Broken}]
      /\ edits \in 0 .. MaxEdits
      /\ \A r \in loaded : r \in [from : RouteModule, text : Text, by : ReloadTask \cup {"boot"}]
  BY ReloadAssumption DEF ReloadInit, Text
<1>2. {notices, reloadTimer, runningReload, failed} \subseteq BOOLEAN
  BY DEF ReloadInit
<1>3. ReloadTypeOK
  <2>1. reload \in [ReloadTask -> {"idle", "listing", "importing"}]
    BY DEF ReloadInit
  <2>2. todo \in [ReloadTask -> SUBSET RouteModule]
    BY DEF ReloadInit
  <2>3. loaded \subseteq [from : RouteModule, text : Text, by : ReloadTask \cup {"boot"}]
    BY <1>1
  <2> QED
    BY <1>1, <1>2, <2>1, <2>2, <2>3 DEF ReloadTypeOK
<1>4. RoutedModules = listed
  <2>1. \A m \in RouteModule : [from |-> m, text |-> 0, by |-> "boot"].from = m
    OBVIOUS
  <2>2. \A m \in RouteModule : [from |-> m, text |-> 0, by |-> "boot"] \in loaded
    BY DEF ReloadInit
  <2>3. \A r \in loaded : r.from \in RouteModule
    BY <1>1
  <2>4. RoutedModules \subseteq RouteModule /\ RouteModule \subseteq RoutedModules
    BY <2>1, <2>2, <2>3 DEF RoutedModules
  <2> QED
    BY <2>4 DEF ReloadInit
<1> QED
  BY <1>3, <1>4 DEF ReloadSafe, ReloadInit

\* What changes neither the runs nor the routes.
LEMMA ReloadFrame ==
    ASSUME ReloadSafe, ReloadTypeOK',
           UNCHANGED <<runningReload, reload, todo, loaded, listed, failed>>
    PROVE  ReloadSafe'
<1>1. RoutedModules' = RoutedModules
  BY DEF RoutedModules
<1> QED
  BY <1>1 DEF ReloadSafe

LEMMA EditStep ==
    ASSUME ReloadSafe, NEW m \in RouteModule, NEW text \in {edits + 1, Missing, Broken},
           Edit(m, text)
    PROVE  ReloadSafe'
<1>1. /\ ReloadTypeOK /\ edits < MaxEdits /\ edits' = edits + 1 /\ notices' = TRUE
      /\ files' = [files EXCEPT ![m] = text]
      /\ UNCHANGED <<reloadTimer, runningReload, reload, todo, loaded, listed, failed>>
  BY DEF Edit, ReloadSafe
<1>2. edits' \in 0 .. MaxEdits /\ text \in Text \cup {Missing, Broken}
  BY <1>1, ReloadAssumption DEF ReloadTypeOK, Text
<1>3. files' \in [RouteModule -> Text \cup {Missing, Broken}]
  BY <1>1, <1>2 DEF ReloadTypeOK
<1>4. {notices', reloadTimer', runningReload', failed'} \subseteq BOOLEAN
  BY <1>1 DEF ReloadTypeOK
<1> QED
  BY <1>1, <1>2, <1>3, <1>4, ReloadFrame DEF ReloadTypeOK

LEMMA TimerStep == ASSUME ReloadSafe, Debounce \/ FireInVain PROVE ReloadSafe'
<1>1. /\ ReloadTypeOK /\ notices' \in {notices, FALSE} /\ reloadTimer' \in BOOLEAN
      /\ UNCHANGED <<files, edits, runningReload, reload, todo, loaded, listed, failed>>
  BY DEF Debounce, FireInVain, ReloadSafe
<1>2. {notices', reloadTimer', runningReload', failed'} \subseteq BOOLEAN
  BY <1>1 DEF ReloadTypeOK
<1> QED
  BY <1>1, <1>2, ReloadFrame DEF ReloadTypeOK

LEMMA FireStep == ASSUME ReloadSafe, NEW t \in ReloadTask, Fire(t) PROVE ReloadSafe'
<1>1. /\ ReloadTypeOK /\ ~runningReload /\ reloadTimer' = FALSE /\ runningReload' = TRUE
      /\ reload' = [reload EXCEPT ![t] = "listing"]
      /\ UNCHANGED <<files, edits, notices, todo, loaded, listed, failed>>
  BY DEF Fire, MayRun, ReloadSafe
<1>2. {notices', reloadTimer', runningReload', failed'} \subseteq BOOLEAN
  BY <1>1 DEF ReloadTypeOK
<1>3. reload' \in [ReloadTask -> {"idle", "listing", "importing"}]
  BY <1>1 DEF ReloadTypeOK
<1>4. ReloadTypeOK'
  BY <1>1, <1>2, <1>3 DEF ReloadTypeOK
<1>5. \A s \in ReloadTask : /\ reload[s] = "idle"
                            /\ reload'[s] = IF s = t THEN "listing" ELSE "idle"
  BY <1>1 DEF ReloadSafe, ReloadTypeOK
<1>6. RoutedModules' = RoutedModules
  BY <1>1 DEF RoutedModules
<1> QED
  BY <1>1, <1>4, <1>5, <1>6 DEF ReloadSafe

LEMMA ListStep == ASSUME ReloadSafe, NEW t \in ReloadTask, ListModules(t) PROVE ReloadSafe'
<1>1. PICK there \in SUBSET RouteModule : todo' = [todo EXCEPT ![t] = there]
  BY DEF ListModules
<1>2. /\ ReloadTypeOK /\ reload[t] = "listing" /\ runningReload
      /\ listed' = todo'[t] /\ loaded' = {}
      /\ reload' = [reload EXCEPT ![t] = "importing"]
      /\ UNCHANGED <<files, edits, notices, reloadTimer, runningReload, failed>>
  BY DEF ListModules, ReloadSafe
<1>3. listed' = there
  BY <1>1, <1>2 DEF ReloadTypeOK
<1>4. reload' \in [ReloadTask -> {"idle", "listing", "importing"}]
  BY <1>2 DEF ReloadTypeOK
<1>5. todo' \in [ReloadTask -> SUBSET RouteModule]
  BY <1>1, <1>2 DEF ReloadTypeOK
<1>6. ReloadTypeOK'
  BY <1>2, <1>4, <1>5 DEF ReloadTypeOK
<1>7. \A s \in ReloadTask : /\ s # t => reload[s] = "idle"
                            /\ reload'[s] = IF s = t THEN "importing" ELSE "idle"
  BY <1>2 DEF ReloadSafe, ReloadTypeOK
<1>8. RoutedModules' = {}
  BY <1>2 DEF RoutedModules
<1>9. todo'[t] = there
  BY <1>1, <1>2 DEF ReloadTypeOK
<1> QED
  BY <1>2, <1>3, <1>6, <1>7, <1>8, <1>9 DEF ReloadSafe

LEMMA ImportStep ==
    ASSUME ReloadSafe, NEW t \in ReloadTask, NEW m \in RouteModule, Import(t, m)
    PROVE  ReloadSafe'
<1>1. PICK r : r = [from |-> m, text |-> files[m], by |-> t]
  OBVIOUS
<1>2. /\ ReloadTypeOK /\ reload[t] = "importing" /\ m \in todo[t] /\ files[m] \in Text
      /\ loaded' = loaded \cup {r}
      /\ todo' = [todo EXCEPT ![t] = todo[t] \ {m}]
      /\ UNCHANGED <<files, edits, notices, reloadTimer, runningReload, reload, listed, failed>>
  BY <1>1 DEF Import, ReloadSafe
<1>3. r \in [from : RouteModule, text : Text, by : ReloadTask \cup {"boot"}] /\ r.from = m
  BY <1>1, <1>2
<1>4. todo' \in [ReloadTask -> SUBSET RouteModule]
  BY <1>2 DEF ReloadTypeOK
<1>5. ReloadTypeOK'
  BY <1>2, <1>3, <1>4 DEF ReloadTypeOK
<1>6. \A s \in ReloadTask : s # t => reload[s] = "idle"
  BY <1>2 DEF ReloadSafe
<1>7. todo[t] \subseteq listed /\ RoutedModules = listed \ todo[t]
  BY <1>2 DEF ReloadSafe
<1>8. RoutedModules' = RoutedModules \cup {m}
  BY <1>2, <1>3 DEF RoutedModules
<1>9. todo'[t] = todo[t] \ {m}
  BY <1>2 DEF ReloadTypeOK
<1>10. \A a \in loaded : a.from # m
  BY <1>2, <1>7 DEF RoutedModules
<1>11. \A a, b \in loaded' : a.from = b.from => a = b
  BY <1>2, <1>3, <1>10 DEF ReloadSafe
<1>12. RoutedModules' = listed \ todo'[t] /\ todo'[t] \subseteq listed
  BY <1>2, <1>7, <1>8, <1>9
<1> QED
  BY <1>2, <1>5, <1>6, <1>11, <1>12 DEF ReloadSafe

LEMMA EndOfReload ==
    ASSUME ReloadSafe, NEW t \in ReloadTask,
           Reloaded(t) \/ \E m \in RouteModule : ImportFails(t, m)
    PROVE  ReloadSafe'
<1>1. /\ ReloadTypeOK /\ reload[t] = "importing" /\ failed' \in BOOLEAN
      /\ reload' = [reload EXCEPT ![t] = "idle"] /\ runningReload' = FALSE
      /\ ~failed' => todo[t] = {}
      /\ UNCHANGED <<files, edits, notices, reloadTimer, loaded, listed>>
  BY DEF Reloaded, ImportFails, ReloadSafe
<1>2. todo' \in [ReloadTask -> SUBSET RouteModule]
  BY <1>1 DEF Reloaded, ImportFails, ReloadTypeOK
<1>3. {notices', reloadTimer', runningReload', failed'} \subseteq BOOLEAN
  BY <1>1 DEF ReloadTypeOK
<1>4. reload' \in [ReloadTask -> {"idle", "listing", "importing"}]
  BY <1>1 DEF ReloadTypeOK
<1>5. ReloadTypeOK'
  BY <1>1, <1>2, <1>3, <1>4 DEF ReloadTypeOK
<1>6. \A s \in ReloadTask : reload'[s] = "idle"
  BY <1>1 DEF ReloadSafe, ReloadTypeOK
<1>7. RoutedModules' = RoutedModules /\ RoutedModules = listed \ todo[t]
  BY <1>1 DEF RoutedModules, ReloadSafe
<1> QED
  BY <1>1, <1>5, <1>6, <1>7 DEF ReloadSafe

LEMMA ReloadSteps == ReloadSafe /\ [ReloadNext]_reloadVars => ReloadSafe'
<1> SUFFICES ASSUME ReloadSafe, [ReloadNext]_reloadVars PROVE ReloadSafe'
  OBVIOUS
<1>1. CASE UNCHANGED reloadVars
  BY <1>1, ReloadFrame DEF reloadVars, ReloadSafe, ReloadTypeOK
<1> QED
  BY <1>1, EditStep, TimerStep, FireStep, ListStep, ImportStep, EndOfReload
     DEF ReloadNext, ReloadStep

\* Between two reloads the router has the modules the last one listed, each
\* once, unless it failed: for every number of modules, edits and timers.
THEOREM ReloadsDoNotMix == ReloadSpec => []ReloadInv
<1>1. ReloadSpec => ReloadInit /\ [][ReloadNext]_reloadVars
  BY PTL DEF ReloadSpec
<1>2. ReloadSafe => ReloadInv
  BY DEF ReloadSafe, ReloadInv, RoutesAreWhole, RoutedModules
<1> QED
  BY <1>1, <1>2, ReloadStarts, ReloadSteps, PTL
-----------------------------------------------------------------------------
(***************************************************************************)
(* The caches of a view.  Every entry, in a cache or in the hands of a     *)
(* call, has the directives its holder asked for and a time that is no     *)
(* later than its text, unless it is the worker pool's; and what a load    *)
(* compiled is no older than the load.                                     *)
(***************************************************************************)
Honest(entry) == entry.mtime <= entry.source \/ entry.warmed

CachesSafe ==
    /\ memory \in ViewEntry \cup {NoEntry} /\ disk \in ViewEntry \cup {NoEntry, Torn}
    /\ writers \subseteq ViewCaller
    /\ mixed \in BOOLEAN /\ clearing \in BOOLEAN
    /\ memory # NoEntry => Honest(memory)
    /\ disk # NoEntry /\ disk # Torn => Honest(disk)

Stage == {"idle", "preload", "disk", "compare", "recheck", "stat", "read", "open",
          "write", "over"}

\* A call c at place a with version v, seen s, found f, noted n, begun at b.
CallerSafe(c, a, v, s, f, n, b) ==
    /\ a \in Stage
    /\ v \in 0 .. MaxChanges /\ n \in 0 .. edition /\ b \in 0 .. edition
    /\ s \in ViewEntry \cup {NoEntry} /\ f \in ViewEntry \cup {NoEntry}
    /\ s # NoEntry => Honest(s) /\ s.version = v
    /\ f # NoEntry => Honest(f) /\ f.version = v
    /\ a \in {"compare", "open", "write"} => f # NoEntry
    /\ a = "recheck" => s # NoEntry
    /\ a = "idle" => s = NoEntry /\ f = NoEntry
    /\ c \in Load /\ a \in {"open", "write"} => f.source >= b

CallsTyped ==
    /\ at \in [ViewCaller -> Stage]
    /\ version \in [ViewCaller -> 0 .. MaxChanges]
    /\ seen \in [ViewCaller -> ViewEntry \cup {NoEntry}]
    /\ found \in [ViewCaller -> ViewEntry \cup {NoEntry}]
    /\ noted \in [ViewCaller -> 0 .. MaxChanges] /\ since \in [ViewCaller -> 0 .. MaxChanges]

ViewSafe ==
    /\ edition \in 0 .. MaxChanges /\ directives \in 0 .. MaxChanges
    /\ CachesSafe /\ CallsTyped
    /\ \A c \in ViewCaller :
          CallerSafe(c, at[c], version[c], seen[c], found[c], noted[c], since[c])
    /\ ~outdated

LEMMA ViewStarts == ViewInit => ViewSafe
<1> SUFFICES ASSUME ViewInit PROVE ViewSafe
  OBVIOUS
<1>1. 0 \in 0 .. MaxChanges /\ edition = 0 /\ directives = 0 /\ 0 \in 0 .. edition
  BY ViewAssumption DEF ViewInit
<1>2. CachesSafe
  BY DEF ViewInit, CachesSafe
<1>3. CallsTyped
  BY <1>1 DEF ViewInit, CallsTyped, Stage
<1>4. \A c \in ViewCaller :
         CallerSafe(c, at[c], version[c], seen[c], found[c], noted[c], since[c])
  BY <1>1 DEF ViewInit, CallerSafe, Stage
<1> QED
  BY <1>1, <1>2, <1>3, <1>4 DEF ViewSafe, ViewInit

\* One call goes on.
CallBecomes(c, a, v, s, f, n, b) ==
    /\ at' = [at EXCEPT ![c] = a] /\ version' = [version EXCEPT ![c] = v]
    /\ seen' = [seen EXCEPT ![c] = s] /\ found' = [found EXCEPT ![c] = f]
    /\ noted' = [noted EXCEPT ![c] = n] /\ since' = [since EXCEPT ![c] = b]

LEMMA OneCallMoves ==
    ASSUME ViewSafe, NEW c \in ViewCaller,
           NEW a, NEW v, NEW s, NEW f, NEW n, NEW b,
           CallerSafe(c, a, v, s, f, n, b), CallBecomes(c, a, v, s, f, n, b),
           UNCHANGED <<edition, directives>>, CachesSafe', ~outdated'
    PROVE  ViewSafe'
<1>1. CallsTyped /\ edition \in 0 .. MaxChanges /\ MaxChanges \in Nat
  BY ViewAssumption DEF ViewSafe
<1>2. /\ a \in Stage /\ v \in 0 .. MaxChanges /\ n \in 0 .. MaxChanges /\ b \in 0 .. MaxChanges
      /\ s \in ViewEntry \cup {NoEntry} /\ f \in ViewEntry \cup {NoEntry}
  BY <1>1 DEF CallerSafe
<1>3. at' \in [ViewCaller -> Stage] /\ version' \in [ViewCaller -> 0 .. MaxChanges]
  BY <1>1, <1>2 DEF CallsTyped, CallBecomes
<1>4. /\ seen' \in [ViewCaller -> ViewEntry \cup {NoEntry}]
      /\ found' \in [ViewCaller -> ViewEntry \cup {NoEntry}]
  BY <1>1, <1>2 DEF CallsTyped, CallBecomes
<1>5. /\ noted' \in [ViewCaller -> 0 .. MaxChanges]
      /\ since' \in [ViewCaller -> 0 .. MaxChanges]
  BY <1>1, <1>2 DEF CallsTyped, CallBecomes
<1>6. /\ at'[c] = a /\ version'[c] = v /\ seen'[c] = s /\ found'[c] = f
      /\ noted'[c] = n /\ since'[c] = b
  BY <1>1 DEF CallsTyped, CallBecomes
<1>7. \A d \in ViewCaller \ {c} :
         /\ at'[d] = at[d] /\ version'[d] = version[d] /\ seen'[d] = seen[d]
         /\ found'[d] = found[d] /\ noted'[d] = noted[d] /\ since'[d] = since[d]
  BY <1>1 DEF CallsTyped, CallBecomes
<1>8. ASSUME NEW d \in ViewCaller
      PROVE  CallerSafe(d, at'[d], version'[d], seen'[d], found'[d], noted'[d], since'[d])
  BY <1>6, <1>7 DEF ViewSafe
<1>9. \A d \in ViewCaller :
         CallerSafe(d, at[d], version[d], seen[d], found[d], noted[d], since[d])'
  BY <1>8 DEF CallerSafe
<1> QED
  BY <1>1, <1>3, <1>4, <1>5, <1>9 DEF ViewSafe, CallsTyped

\* What a call finds as it is.
LEMMA AsItWas ==
    ASSUME ViewSafe, NEW c \in ViewCaller
    PROVE  /\ version = [version EXCEPT ![c] = version[c]]
           /\ seen = [seen EXCEPT ![c] = seen[c]] /\ found = [found EXCEPT ![c] = found[c]]
           /\ noted = [noted EXCEPT ![c] = noted[c]] /\ since = [since EXCEPT ![c] = since[c]]
           /\ edition \in 0 .. MaxChanges /\ directives \in 0 .. MaxChanges
           /\ MaxChanges \in Nat
           /\ CallerSafe(c, at[c], version[c], seen[c], found[c], noted[c], since[c])
           /\ CachesSafe /\ ~outdated
BY ViewAssumption DEF ViewSafe, CallsTyped

\* A call leaves; the caches may change.
LEMMA CallLeaves ==
    ASSUME ViewSafe, NEW c \in ViewCaller, Leaves(c), UNCHANGED <<edition, directives>>,
           CachesSafe', ~outdated'
    PROVE  ViewSafe'
<1>1. CallerSafe(c, "over", 0, NoEntry, NoEntry, 0, 0)
  BY AsItWas DEF CallerSafe, Stage
<1> QED
  <2>1. CallBecomes(c, "over", 0, NoEntry, NoEntry, 0, 0)
    BY DEF Leaves, CallBecomes
  <2> QED
    BY <1>1, <2>1, OneCallMoves

LEMMA CachesStay ==
    ASSUME CachesSafe, FilesFixed, memory' = memory \/ memory' = NoEntry PROVE CachesSafe'
BY DEF CachesSafe, FilesFixed
\* The entry that counts is current, or there is none.
LEMMA CurrentEntry ==
    ASSUME ViewSafe
    PROVE  /\ Current(memory) \in ViewEntry \cup {NoEntry}
           /\ Current(memory) # NoEntry =>
                 Honest(Current(memory)) /\ Current(memory).version = directives
BY DEF ViewSafe, CachesSafe, Current

LEMMA BeginStep ==
    ASSUME ViewSafe, NEW l \in Load, BeginLoad(l) \/ BeginPreload(l) PROVE ViewSafe'
<1>1. l \in ViewCaller /\ ~outdated' /\ UNCHANGED <<edition, directives>> /\ FilesFixed
  BY DEF BeginLoad, BeginPreload, ViewMoves, FilesFixed, AllFixed, ViewCaller, ViewSafe
<1>2. CachesSafe'
  BY <1>1, CachesStay DEF BeginLoad, BeginPreload, ViewSafe
<1>3. at[l] = "idle" /\ seen[l] = NoEntry /\ found[l] = NoEntry
  BY <1>1 DEF BeginLoad, BeginPreload, ViewMoves, ViewSafe, CallerSafe
<1>4. edition \in 0 .. edition
  BY <1>1, AsItWas
<1>5. CASE BeginLoad(l)
  <2>1. PICK a \in {"disk", "recheck", "stat"} :
           at' = [at EXCEPT ![l] = a] /\ (a = "recheck" => Current(memory) # NoEntry)
    <3>1. CASE engine.onDisk
      BY <1>5, <3>1 DEF BeginLoad, ViewMoves
    <3>2. CASE ~engine.onDisk /\ Current(memory) # NoEntry
      BY <1>5, <3>2 DEF BeginLoad, ViewMoves
    <3>3. CASE ~engine.onDisk /\ Current(memory) = NoEntry
      BY <1>5, <3>3 DEF BeginLoad, ViewMoves
    <3> QED
      BY <3>1, <3>2, <3>3
  <2>2. CallerSafe(l, a, directives, Current(memory), found[l], noted[l], edition)
    BY <1>1, <1>3, <1>4, <2>1, AsItWas, CurrentEntry DEF CallerSafe, Stage
  <2>3. CallBecomes(l, a, directives, Current(memory), found[l], noted[l], edition)
    BY <1>1, <1>5, <2>1, AsItWas DEF BeginLoad, CallBecomes
  <2> QED
    BY <1>1, <1>2, <2>2, <2>3, OneCallMoves
<1>6. CASE BeginPreload(l)
  <2>1. CallerSafe(l, "preload", directives, seen[l], found[l], noted[l], since[l])
    BY <1>1, <1>3, AsItWas DEF CallerSafe, Stage
  <2>2. CallBecomes(l, "preload", directives, seen[l], found[l], noted[l], since[l])
    BY <1>1, <1>6, AsItWas DEF BeginPreload, ViewMoves, CallBecomes
  <2> QED
    BY <1>1, <1>2, <2>1, <2>2, OneCallMoves
<1> QED
  BY <1>5, <1>6

\* Where nothing but the place of a call changes.
LEMMA PlaceMoves ==
    ASSUME ViewSafe, NEW l \in Load, NEW a \in {"recheck", "stat"},
           a = "recheck" => seen[l] # NoEntry, at' = [at EXCEPT ![l] = a],
           UNCHANGED <<memory, viewLocals, outdated>>, FilesFixed
    PROVE  ViewSafe'
<1>1. l \in ViewCaller /\ ~outdated' /\ UNCHANGED <<edition, directives>>
  BY DEF FilesFixed, AllFixed, ViewCaller, ViewSafe
<1>2. CachesSafe'
  BY CachesStay DEF ViewSafe
<1>3. CallerSafe(l, a, version[l], seen[l], found[l], noted[l], since[l])
  BY <1>1, AsItWas DEF CallerSafe, Stage
<1>4. CallBecomes(l, a, version[l], seen[l], found[l], noted[l], since[l])
  BY <1>1, AsItWas DEF viewLocals, CallBecomes
<1> QED
  BY <1>1, <1>2, <1>3, <1>4, OneCallMoves

\* What is on disk counts for a call that finds it there.
LEMMA DiskEntry ==
    ASSUME ViewSafe, NEW l \in Load, OnDisk(l)
    PROVE  disk \in ViewEntry /\ disk # NoEntry /\ Honest(disk) /\ disk.version = version[l]
BY DEF ViewSafe, CachesSafe, OnDisk

LEMMA ReadDiskStep == ASSUME ViewSafe, NEW l \in Load, ReadDisk(l) PROVE ViewSafe'
<1>1. /\ l \in ViewCaller /\ ~outdated' /\ UNCHANGED <<edition, directives>> /\ FilesFixed
      /\ UNCHANGED <<memory, version, seen, noted, since>>
  BY DEF ReadDisk, ViewMoves, FilesFixed, AllFixed, ViewCaller, ViewSafe
<1>2. CachesSafe'
  BY <1>1, CachesStay DEF ViewSafe
<1>3. PICK a, f : /\ at' = [at EXCEPT ![l] = a] /\ found' = [found EXCEPT ![l] = f]
                  /\ \/ OnDisk(l) /\ a = "compare" /\ f = disk
                     \/ a = "recheck" /\ seen[l] # NoEntry /\ f = NoEntry
                     \/ a = "stat" /\ f = NoEntry
  <2>1. CASE OnDisk(l)
    BY <2>1 DEF ReadDisk, ViewMoves
  <2>2. CASE ~OnDisk(l)
    BY <2>2 DEF ReadDisk, ViewMoves, Missed
  <2> QED
    BY <2>1, <2>2
<1>4. CallerSafe(l, a, version[l], seen[l], f, noted[l], since[l])
  BY <1>1, <1>3, AsItWas, DiskEntry DEF CallerSafe, Stage
<1>5. CallBecomes(l, a, version[l], seen[l], f, noted[l], since[l])
  BY <1>1, <1>3, AsItWas DEF CallBecomes
<1> QED
  BY <1>1, <1>2, <1>4, <1>5, OneCallMoves

\* An entry whose time is the file's is good.
LEMMA GoodEntries ==
    ASSUME ViewSafe, NEW l \in ViewCaller, NEW entry \in ViewEntry, Honest(entry),
           entry.version = version[l], entry.mtime = edition
    PROVE  Timely(l, entry)
<1>1. since[l] \in 0 .. edition /\ edition \in Nat
  BY AsItWas DEF CallerSafe
<1>2. entry.source \in Nat
  BY ViewAssumption DEF ViewEntry
<1> QED
  BY <1>1, <1>2 DEF Timely, Honest

LEMMA ServeStep ==
    ASSUME ViewSafe, NEW l \in Load, TrustDisk(l) \/ Compare(l) \/ RecheckMemory(l)
    PROVE  ViewSafe'
<1>1. l \in ViewCaller /\ UNCHANGED <<edition, directives>> /\ FilesFixed /\ Leaves(l)
  BY DEF TrustDisk, Compare, RecheckMemory, Serve, FilesFixed, AllFixed, ViewCaller
<1>2. PICK entry \in ViewEntry :
         /\ Honest(entry) /\ Timely(l, entry) /\ Serve(l, entry)
         /\ memory' = entry \/ memory' = memory
  <2>1. CASE TrustDisk(l)
    BY <2>1, DiskEntry DEF TrustDisk, Timely
  <2>2. CASE Compare(l)
    <3>1. found[l] \in ViewEntry /\ Honest(found[l]) /\ found[l].version = version[l]
      BY <1>1, <2>2, AsItWas DEF Compare, CallerSafe
    <3> QED
      BY <1>1, <2>2, <3>1, GoodEntries DEF Compare
  <2>3. CASE RecheckMemory(l)
    <3>1. seen[l] \in ViewEntry /\ Honest(seen[l]) /\ seen[l].version = version[l]
      BY <1>1, <2>3, AsItWas DEF RecheckMemory, CallerSafe
    <3> QED
      BY <1>1, <2>3, <3>1, GoodEntries DEF RecheckMemory
  <2> QED
    BY <2>1, <2>2, <2>3
<1>3. ~outdated'
  BY <1>2 DEF Serve, ViewSafe
<1>4. CachesSafe'
  BY <1>1, <1>2 DEF CachesSafe, FilesFixed, ViewSafe
<1> QED
  BY <1>1, <1>3, <1>4, CallLeaves

LEMMA MissStep ==
    ASSUME ViewSafe, NEW l \in Load, MissCompiled(l) \/ Preload(l) PROVE ViewSafe'
<1>1. /\ l \in ViewCaller /\ UNCHANGED <<edition, directives>> /\ FilesFixed /\ Leaves(l)
      /\ ~outdated'
  BY DEF MissCompiled, Preload, FilesFixed, AllFixed, ViewCaller, ViewSafe
<1>2. memory' = memory \/ (OnDisk(l) /\ memory' = disk)
  BY DEF MissCompiled, Preload
<1>3. CachesSafe'
  BY <1>1, <1>2, DiskEntry DEF CachesSafe, FilesFixed, ViewSafe
<1> QED
  BY <1>1, <1>3, CallLeaves

LEMMA CompareFailsStep ==
    ASSUME ViewSafe, NEW l \in Load, CompareFails(l) \/ RecheckFails(l) PROVE ViewSafe'
<1>1. PICK a \in {"recheck", "stat"} :
         at' = [at EXCEPT ![l] = a] /\ (a = "recheck" => seen[l] # NoEntry)
  BY DEF CompareFails, RecheckFails, ViewMoves, Missed
<1> QED
  BY <1>1, PlaceMoves DEF CompareFails, RecheckFails, ViewMoves

LEMMA StatStep == ASSUME ViewSafe, NEW l \in Load, StatView(l) PROVE ViewSafe'
<1>1. /\ l \in ViewCaller /\ ~outdated' /\ UNCHANGED <<edition, directives>> /\ FilesFixed
      /\ memory' = memory
  BY DEF StatView, ViewMoves, FilesFixed, AllFixed, ViewCaller, ViewSafe
<1>2. CachesSafe'
  BY <1>1, CachesStay DEF ViewSafe
<1>3. CallerSafe(l, "read", version[l], seen[l], found[l], edition, since[l])
  BY <1>1, AsItWas DEF CallerSafe, Stage
<1>4. CallBecomes(l, "read", version[l], seen[l], found[l], edition, since[l])
  BY <1>1, AsItWas DEF StatView, ViewMoves, CallBecomes
<1> QED
  BY <1>1, <1>2, <1>3, <1>4, OneCallMoves

LEMMA ReadStep == ASSUME ViewSafe, NEW l \in Load, ReadView(l) PROVE ViewSafe'
<1>1. /\ l \in ViewCaller /\ UNCHANGED <<edition, directives>> /\ FilesFixed
      /\ memory' = CompileView(l)
  BY DEF ReadView, FilesFixed, AllFixed, ViewCaller
<1>2. /\ version[l] \in 0 .. MaxChanges /\ noted[l] \in 0 .. edition
      /\ since[l] \in 0 .. edition /\ edition \in 0 .. MaxChanges /\ MaxChanges \in Nat
  BY <1>1, AsItWas DEF CallerSafe
<1>3. /\ CompileView(l) \in ViewEntry /\ Honest(CompileView(l)) /\ CompileView(l) # NoEntry
      /\ CompileView(l).version = version[l] /\ CompileView(l).source >= since[l]
  <2>1. noted[l] \in 0 .. MaxChanges /\ noted[l] <= edition /\ edition >= since[l]
    BY <1>2
  <2>2. CompileView(l) \in ViewEntry
    BY <1>2, <2>1 DEF CompileView, ViewEntry
  <2>3. /\ CompileView(l).mtime = noted[l] /\ CompileView(l).source = edition
        /\ CompileView(l).version = version[l]
    BY DEF CompileView
  <2> QED
    BY <2>1, <2>2, <2>3, EntryAssumption DEF Honest
<1>4. CachesSafe'
  BY <1>1, <1>3 DEF CachesSafe, FilesFixed, ViewSafe
<1>5. CASE engine.onDisk
  <2>1. CallerSafe(l, "open", version[l], seen[l], CompileView(l), noted[l], since[l])
    BY <1>1, <1>3, AsItWas DEF CallerSafe, Stage
  <2>2. ~outdated'
    BY <1>5 DEF ReadView, ViewMoves, ViewSafe
  <2>3. CallBecomes(l, "open", version[l], seen[l], CompileView(l), noted[l], since[l])
    BY <1>1, <1>5, AsItWas DEF ReadView, ViewMoves, CallBecomes
  <2> QED
    BY <1>1, <1>4, <2>1, <2>2, <2>3, OneCallMoves
<1>6. CASE ~engine.onDisk
  <2>1. Serve(l, CompileView(l)) /\ Timely(l, CompileView(l))
    BY <1>3, <1>6 DEF ReadView, Timely
  <2>2. Leaves(l) /\ ~outdated'
    BY <2>1 DEF Serve, ViewSafe
  <2> QED
    BY <1>1, <1>4, <2>2, CallLeaves
<1> QED
  BY <1>5, <1>6

LEMMA OpenStep == ASSUME ViewSafe, NEW c \in ViewCaller, OpenCacheFile(c) PROVE ViewSafe'
<1>1. /\ at[c] = "open" /\ ~outdated' /\ UNCHANGED <<edition, directives, memory, clearing>>
      /\ disk' = Torn /\ writers' = writers \cup {c} /\ mixed' \in BOOLEAN
  BY DEF OpenCacheFile, ViewMoves, AllFixed, ViewSafe
<1>2. CachesSafe'
  BY <1>1 DEF CachesSafe, ViewSafe
<1>3. CallerSafe(c, "write", version[c], seen[c], found[c], noted[c], since[c])
  BY <1>1, AsItWas DEF CallerSafe, Stage
<1>4. CallBecomes(c, "write", version[c], seen[c], found[c], noted[c], since[c])
  BY AsItWas DEF OpenCacheFile, ViewMoves, viewLocals, CallBecomes
<1> QED
  BY <1>1, <1>2, <1>3, <1>4, OneCallMoves

LEMMA WriteStep == ASSUME ViewSafe, NEW c \in ViewCaller, WriteCacheFile(c) PROVE ViewSafe'
<1>1. /\ at[c] = "write" /\ UNCHANGED <<edition, directives, clearing>>
      /\ writers' = writers \ {c} /\ mixed' = (mixed /\ writers # {c})
      /\ disk' = found[c] \/ disk' = Torn \/ disk' = disk
      /\ Leaves(c) /\ (memory' = memory \/ memory' = NoEntry)
  BY DEF WriteCacheFile, AllFixed, Serve
<1>2. found[c] \in ViewEntry /\ Honest(found[c]) /\ found[c].version = version[c]
  BY <1>1, AsItWas DEF CallerSafe
<1>3. mixed' \in BOOLEAN
  BY <1>1
<1>4. CachesSafe'
  BY <1>1, <1>2, <1>3 DEF CachesSafe, ViewSafe
<1>5. ~outdated'
  <2>1. CASE c \in Load
    <3>1. found[c].source >= since[c]
      BY <1>1, <2>1, AsItWas DEF CallerSafe
    <3>2. Timely(c, found[c])
      BY <1>2, <3>1 DEF Timely
    <3> QED
      BY <2>1, <3>2 DEF WriteCacheFile, Serve, ViewSafe
  <2>2. CASE c \notin Load
    BY <2>2 DEF WriteCacheFile, ViewSafe
  <2> QED
    BY <2>1, <2>2
<1> QED
  BY <1>1, <1>4, <1>5, CallLeaves

LEMMA WarmStep ==
    ASSUME ViewSafe, NEW w \in Warmer, WarmRead(w) \/ WarmStat(w) PROVE ViewSafe'
<1>1. /\ w \in ViewCaller /\ w \notin Load /\ ~outdated' /\ FilesFixed /\ memory' = memory
      /\ UNCHANGED <<edition, directives>>
  BY ViewAssumption
     DEF WarmRead, WarmStat, ViewMoves, FilesFixed, AllFixed, ViewCaller, ViewSafe
<1>2. CachesSafe'
  BY <1>1, CachesStay DEF ViewSafe
<1>3. CASE WarmRead(w)
  <2>1. at[w] = "idle"
    BY <1>3 DEF WarmRead, ViewMoves
  <2>2. CallerSafe(w, "stat", directives, seen[w], found[w], edition, since[w])
    BY <1>1, <2>1, AsItWas DEF CallerSafe, Stage
  <2>3. CallBecomes(w, "stat", directives, seen[w], found[w], edition, since[w])
    BY <1>1, <1>3, AsItWas DEF WarmRead, ViewMoves, CallBecomes
  <2> QED
    BY <1>1, <1>2, <2>2, <2>3, OneCallMoves
<1>4. CASE WarmStat(w)
  <2>1. PICK e : e = [mtime |-> edition, version |-> version[w], source |-> noted[w],
                      warmed |-> TRUE]
    OBVIOUS
  <2>2. version[w] \in 0 .. MaxChanges /\ noted[w] \in 0 .. MaxChanges
    BY <1>1 DEF ViewSafe, CallsTyped
  <2>3. e \in ViewEntry /\ e.warmed /\ e.version = version[w]
    BY <1>1, <2>1, <2>2, AsItWas DEF ViewEntry
  <2>4. CallerSafe(w, "open", version[w], seen[w], e, noted[w], since[w])
    BY <1>1, <2>3, AsItWas, EntryAssumption DEF CallerSafe, Stage, Honest
  <2>5. CallBecomes(w, "open", version[w], seen[w], e, noted[w], since[w])
    BY <1>1, <1>4, <2>1, AsItWas DEF WarmStat, ViewMoves, CallBecomes
  <2> QED
    BY <1>1, <1>2, <2>4, <2>5, OneCallMoves
<1> QED
  BY <1>3, <1>4

\* What happens to the file, the directives and the caches beside the calls.
LEMMA AroundStep ==
    ASSUME ViewSafe,
           EditView \/ AddDirective \/ InvalidateTemplate \/ ClearMemory \/ RemoveCacheFile
    PROVE  ViewSafe'
<1>1. edition \in 0 .. MaxChanges /\ directives \in 0 .. MaxChanges /\ MaxChanges \in Nat
  BY ViewAssumption DEF ViewSafe
<1>2. /\ edition' \in 0 .. MaxChanges /\ directives' \in 0 .. MaxChanges /\ edition' >= edition
      /\ UNCHANGED <<at, viewLocals, outdated>>
  BY <1>1 DEF EditView, AddDirective, InvalidateTemplate, ClearMemory, RemoveCacheFile
<1>3. /\ memory' = memory \/ memory' = NoEntry
      /\ disk' = disk \/ disk' = NoEntry
      /\ writers' = writers \/ writers' = {}
  BY DEF EditView, AddDirective, InvalidateTemplate, ClearMemory, RemoveCacheFile
<1>4. /\ mixed' = mixed \/ mixed' = FALSE
      /\ clearing' = clearing \/ clearing' = TRUE \/ clearing' = FALSE
  BY DEF EditView, AddDirective, InvalidateTemplate, ClearMemory, RemoveCacheFile
<1>5. CachesSafe'
  BY <1>3, <1>4 DEF CachesSafe, ViewSafe
<1>6. CallsTyped'
  BY <1>2 DEF ViewSafe, CallsTyped, viewLocals
<1>7. ASSUME NEW c \in ViewCaller
      PROVE  CallerSafe(c, at[c], version[c], seen[c], found[c], noted[c], since[c])'
  <2>1. CallerSafe(c, at[c], version[c], seen[c], found[c], noted[c], since[c])
    BY DEF ViewSafe
  <2>2. noted[c] \in 0 .. edition' /\ since[c] \in 0 .. edition'
    BY <1>1, <1>2, <2>1 DEF CallerSafe
  <2> QED
    BY <1>2, <2>1, <2>2 DEF CallerSafe, viewLocals
<1> QED
  BY <1>2, <1>5, <1>6, <1>7 DEF ViewSafe

LEMMA ViewSteps == ViewSafe /\ [ViewNext]_viewVars => ViewSafe'
<1> SUFFICES ASSUME ViewSafe, [ViewNext]_viewVars PROVE ViewSafe'
  OBVIOUS
<1>1. CASE UNCHANGED viewVars
  BY <1>1 DEF viewVars, viewLocals, ViewSafe, CachesSafe, CallsTyped, CallerSafe
<1>2. CASE ViewNext
  BY <1>2, BeginStep, ReadDiskStep, ServeStep, MissStep, CompareFailsStep, StatStep, ReadStep,
     OpenStep, WriteStep, WarmStep, AroundStep DEF ViewNext
<1> QED
  BY <1>1, <1>2

\* No render is given an older view than the times of the files allow, for
\* every number of loads, of worker pools and of edits.
THEOREM ViewsStayFresh == ViewSpec => []ViewInv
<1>1. ViewSafe => ViewInv
  BY DEF ViewSafe, CachesSafe, CallsTyped, Stage, ViewInv, ViewTypeOK, EntriesAreHonest,
         ViewsAreFresh, Honest
<1> QED
  BY <1>1, ViewStarts, ViewSteps, PTL DEF ViewSpec

-----------------------------------------------------------------------------
\* What a request finds: the providers it needs, nobody else's user, and views
\* as fresh as their files, linted and folded so that nothing is lost.
THEOREM DispatchFindsItsOwn ==
    ProvidersSpec /\ PoolSpec /\ ViewSpec /\ CompilerSpec /\ FoldSpec => []DispatchInv
<1>1. ProvidersInv /\ PoolInv /\ ViewInv /\ TemplateInv /\ FoldsOnlyWhatIsKnown => DispatchInv
  BY DEF DispatchInv
<1> QED
  BY <1>1, ProvidersAreReady, RequestsStayTheirOwn, ViewsStayFresh, LinterTells,
     FoldingChangesNothing, PTL

\* Where a request goes: to the route that registration gives it, through the
\* middleware that one was given but for what the fast path goes without, of
\* modules that were each loaded once.
THEOREM RequestsAreRouted == RouteSpec /\ ReloadSpec => []RoutingInv
<1>1. RouteInv /\ ReloadInv => RoutingInv
  BY DEF RoutingInv
<1> QED
  BY <1>1, RegistrationRules, ReloadsDoNotMix, PTL
=============================================================================
