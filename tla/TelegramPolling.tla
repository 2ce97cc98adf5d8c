-------------------------- MODULE TelegramPolling --------------------------
(***************************************************************************)
(* The long polling of a bot (packages/telegram/src/polling.ts) and, as    *)
(* the code relies on it, Telegram's getUpdates: the offset of a request   *)
(* confirms every update before it, which is never sent again, and of two  *)
(* requests at once one ends with error 409.  start() may be called again  *)
(* after a stop() while the loop before it is still under way.             *)
(***************************************************************************)
EXTENDS Naturals

CONSTANTS
    PollLoop,       \* runs of poll() that may overlap
    MaxUpdates,     \* bound: updates that arrive; their ids are 0, 1, ...
    BatchLimit,     \* the option `limit`
    MaxStarts,      \* bound: calls of start() that find nothing running
    MaxCrashes      \* bound: deaths of the process

ASSUME PollingAssumption ==
    /\ MaxUpdates \in Nat /\ BatchLimit \in Nat \ {0}
    /\ MaxStarts \in Nat /\ MaxCrashes \in Nat

VARIABLES
    arrived,        \* updates Telegram has received
    confirmed,      \* it has forgotten those before this one
    polling,        \* `running`
    offset,
    loop,           \* where each loop is
    next,           \* the offset it asks with, then the update it is at
    upTo,           \* the end of its batch
    starts, crashes,
    loopsMet,       \* history: a loop was started while another was under way
    handled         \* history: how often the handler of each update has ended

pollVars == <<arrived, confirmed, polling, offset, loop, next, upTo, starts, crashes,
              loopsMet, handled>>

UpdateId == 0 .. MaxUpdates - 1

PollTypeOK ==
    /\ arrived \in 0 .. MaxUpdates /\ confirmed \in 0 .. arrived
    /\ polling \in BOOLEAN /\ loopsMet \in BOOLEAN /\ offset \in 0 .. arrived
    /\ loop \in [PollLoop -> {"none", "asking", "answered", "handling", "pausing"}]
    /\ next \in [PollLoop -> 0 .. MaxUpdates] /\ upTo \in [PollLoop -> 0 .. MaxUpdates]

PollInit ==
    /\ arrived = 0 /\ confirmed = 0
    /\ polling = FALSE /\ offset = 0
    /\ loop = [l \in PollLoop |-> "none"]
    /\ next = [l \in PollLoop |-> 0] /\ upTo = [l \in PollLoop |-> 0]
    /\ starts = 0 /\ crashes = 0
    /\ loopsMet = FALSE /\ handled = [u \in UpdateId |-> 0]

ServerFixed == UNCHANGED <<arrived, confirmed>>
StartsFixed == UNCHANGED <<starts, crashes, loopsMet>>
BotFixed == StartsFixed /\ UNCHANGED <<polling, offset, handled>>

\* Where a loop goes when its batch is done, and where at the next update.
Pauses == IF polling THEN "pausing" ELSE "none"
Handles == IF polling THEN "handling" ELSE "none"
-----------------------------------------------------------------------------
UpdateArrives ==
    /\ arrived < MaxUpdates
    /\ arrived' = arrived + 1
    /\ UNCHANGED <<confirmed, loop, next, upTo>>
    /\ BotFixed

\* getUpdates(): the updates from the offset on, none if it times out first.
GetUpdates(l) ==
    /\ loop[l] = "asking"
    /\ confirmed' = IF next[l] > confirmed THEN next[l] ELSE confirmed
    /\ next' = [next EXCEPT ![l] = confirmed']
    /\ upTo' = [upTo EXCEPT ![l] =
            IF arrived < confirmed' + BatchLimit THEN arrived ELSE confirmed' + BatchLimit]
    /\ loop' = [loop EXCEPT ![l] = "answered"]
    /\ UNCHANGED arrived
    /\ BotFixed

\* The request or its answer is lost.
RequestFails(l) ==
    /\ loop[l] \in {"asking", "answered"}
    /\ loop' = [loop EXCEPT ![l] = Pauses]
    /\ UNCHANGED <<next, upTo>>
    /\ ServerFixed /\ BotFixed

\* Error 409, another request being under way: all polling ends.
Conflict(l) ==
    /\ loop[l] = "asking"
    /\ \E other \in PollLoop \ {l} : loop[other] = "asking"
    /\ polling' = FALSE
    /\ loop' = [loop EXCEPT ![l] = "none"]
    /\ UNCHANGED <<offset, next, upTo, handled>>
    /\ ServerFixed /\ StartsFixed

\* The answer is here: the handler of its first update is called.
ReceiveBatch(l) ==
    /\ loop[l] = "answered"
    /\ loop' = [loop EXCEPT ![l] = IF next[l] = upTo[l] THEN Pauses ELSE Handles]
    /\ UNCHANGED <<next, upTo>>
    /\ ServerFixed /\ BotFixed

\* Mutant: the offset moves on when a batch is received, before the handlers.
OffsetAtOnce(l) == upTo[l]

\* The offset when the handler of an update has ended.
OffsetAfter(l) == next[l] + 1

\* The handler ends, or throws, which is reported and otherwise the same.
HandlerEnds(l) ==
    /\ loop[l] = "handling"
    /\ handled' = [handled EXCEPT ![next[l]] = @ + 1]
    /\ offset' = OffsetAfter(l)
    /\ next' = [next EXCEPT ![l] = @ + 1]
    /\ loop' = [loop EXCEPT ![l] = IF next[l] + 1 = upTo[l] THEN Pauses ELSE Handles]
    /\ UNCHANGED <<polling, upTo>>
    /\ ServerFixed /\ StartsFixed

\* The timer of the next poll; one whose polling was stopped ends here, and
\* one whose polling was stopped and started again goes on.
PollAgain(l) ==
    /\ loop[l] = "pausing"
    /\ loop' = [loop EXCEPT ![l] = IF polling THEN "asking" ELSE "none"]
    /\ next' = [next EXCEPT ![l] = IF polling THEN offset ELSE @]
    /\ UNCHANGED upTo
    /\ ServerFixed /\ BotFixed
-----------------------------------------------------------------------------
\* start(), up to the first request.
StartPolling(l) ==
    /\ ~polling /\ loop[l] = "none"
    /\ starts < MaxStarts
    /\ starts' = starts + 1
    /\ polling' = TRUE
    /\ loopsMet' = (loopsMet \/ \E other \in PollLoop : loop[other] # "none")
    /\ loop' = [loop EXCEPT ![l] = "asking"]
    /\ next' = [next EXCEPT ![l] = offset]
    /\ UNCHANGED <<offset, upTo, crashes, handled>>
    /\ ServerFixed

\* stop(), by the program or by the signal it was given.
StopPolling ==
    /\ polling
    /\ polling' = FALSE
    /\ UNCHANGED <<offset, loop, next, upTo, handled>>
    /\ ServerFixed /\ StartsFixed

\* The process dies: a new one asks from offset 0.
CrashPolling ==
    /\ starts > 0 /\ crashes < MaxCrashes
    /\ crashes' = crashes + 1
    /\ polling' = FALSE /\ offset' = 0
    /\ loop' = [l \in PollLoop |-> "none"]
    /\ next' = [l \in PollLoop |-> 0] /\ upTo' = [l \in PollLoop |-> 0]
    /\ UNCHANGED <<starts, loopsMet, handled>>
    /\ ServerFixed

PollNext ==
    \/ UpdateArrives \/ StopPolling \/ CrashPolling
    \/ \E l \in PollLoop :
        \/ GetUpdates(l) \/ RequestFails(l) \/ Conflict(l) \/ ReceiveBatch(l)
        \/ HandlerEnds(l) \/ PollAgain(l) \/ StartPolling(l)

PollSpec == PollInit /\ [][PollNext]_pollVars
-----------------------------------------------------------------------------
\* Telegram forgets an update only once its handler has ended, although two
\* loops that overlap set the offset back and forth and the process may die:
\* no update is skipped.
NoUpdateIsSkipped == \A u \in UpdateId : u < confirmed => handled[u] > 0

\* Unless two loops met or the process died, no update is handled twice,
\* whatever was lost on the way and however often polling was stopped.
HandledOnce ==
    ~loopsMet /\ crashes = 0 => \A u \in UpdateId : handled[u] <= 1

PollingInv == PollTypeOK /\ NoUpdateIsSkipped /\ HandledOnce
=============================================================================
