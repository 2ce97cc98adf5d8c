------------------------------ MODULE Throttle ------------------------------
(***************************************************************************)
(* packages/http/src/throttle.ts: the counter of one key.  The default     *)
(* store hands out its entries, any other a copy.  A request is one step   *)
(* up to the await of get() and one from there to the store's set().       *)
(***************************************************************************)
EXTENDS Naturals, FiniteSets

CONSTANTS
    Visit,          \* requests under the key, each made once
    Limit,
    NoWindow

ASSUME ThrottleAssumption ==
    /\ IsFiniteSet(Visit) /\ NoWindow \notin Visit
    /\ Limit \in Nat \ {0}

VARIABLES
    handsOut,       \* the store hands out its entries
    counts,         \* the count of each entry, named for the request that made it
    current,        \* the entry in the store, or NoWindow
    over,           \* entries whose resetAt has passed
    visit,          \* what each request is at, and saw in the store
    passedOn,       \* history: the requests each entry let pass
    raced,          \* history: requests under way together with another
    evicted         \* history: the entry was evicted to make room

throttleVars == <<handsOut, counts, current, over, visit, passedOn, raced, evicted>>

Seeing == [at: {"new", "read", "passed", "turned away"}, entry: Visit \cup {NoWindow},
           count: Nat, late: BOOLEAN]

ThrottleTypeOK ==
    /\ handsOut \in BOOLEAN /\ evicted \in BOOLEAN
    /\ counts \in [Visit -> Nat]
    /\ current \in Visit \cup {NoWindow}
    /\ over \subseteq Visit /\ raced \subseteq Visit
    /\ visit \in [Visit -> Seeing]
    /\ passedOn \in [Visit -> SUBSET Visit]

ThrottleInit ==
    /\ handsOut \in BOOLEAN
    /\ counts = [e \in Visit |-> 0]
    /\ current = NoWindow /\ over = {}
    /\ visit = [v \in Visit |->
           [at |-> "new", entry |-> NoWindow, count |-> 0, late |-> FALSE]]
    /\ passedOn = [e \in Visit |-> {}]
    /\ raced = {} /\ evicted = FALSE

NoneCurrent == current \in {NoWindow} \cup over
Underway == {v \in Visit : visit[v].at = "read"}
-----------------------------------------------------------------------------
\* The entry is read; whether it is over is decided on the time before.
GetEntry(v) ==
    /\ visit[v].at = "new"
    /\ visit' = [visit EXCEPT ![v] =
           [at |-> "read", entry |-> current, late |-> NoneCurrent,
            count |-> IF current = NoWindow THEN 0 ELSE counts[current]]]
    /\ raced' = IF Underway = {} THEN raced ELSE raced \cup Underway \cup {v}
    /\ UNCHANGED <<handsOut, counts, current, over, passedOn, evicted>>

Seen(v) == IF handsOut THEN counts[visit[v].entry] ELSE visit[v].count

LetPass(v, e, n) ==
    /\ counts' = [counts EXCEPT ![e] = n]
    /\ current' = e
    /\ passedOn' = [passedOn EXCEPT ![e] = @ \cup {v}]
    /\ visit' = [visit EXCEPT ![v].at = "passed"]
    /\ UNCHANGED <<handsOut, over, raced, evicted>>

\* No entry, or one that is over: a new one, with a window of its own.
OpenWindow(v) ==
    /\ visit[v].at = "read" /\ visit[v].late
    /\ LetPass(v, v, 1)

Count(v) ==
    /\ visit[v].at = "read" /\ ~visit[v].late
    /\ Seen(v) < Limit
    /\ LetPass(v, visit[v].entry, Seen(v) + 1)

\* Mutant: a request counts itself before it is judged.
TurnAwayEarly(v) ==
    /\ visit[v].at = "read" /\ ~visit[v].late
    /\ Seen(v) + 1 >= Limit
    /\ visit' = [visit EXCEPT ![v].at = "turned away"]
    /\ UNCHANGED <<handsOut, counts, current, over, passedOn, raced, evicted>>

TurnAway(v) ==
    /\ visit[v].at = "read" /\ ~visit[v].late
    /\ Seen(v) >= Limit
    /\ visit' = [visit EXCEPT ![v].at = "turned away"]
    /\ UNCHANGED <<handsOut, counts, current, over, passedOn, raced, evicted>>

EndWindow ==
    /\ ~NoneCurrent
    /\ over' = over \cup {current}
    /\ UNCHANGED <<handsOut, counts, current, visit, passedOn, raced, evicted>>

\* sweepExpiredEntries() of a request under any key, in the default store.
Sweep ==
    /\ handsOut /\ current \in over
    /\ current' = NoWindow
    /\ UNCHANGED <<handsOut, counts, over, visit, passedOn, raced, evicted>>

\* evictIfNeeded(): another key is new, the store is full, this the oldest.
Evict ==
    /\ handsOut /\ ~NoneCurrent
    /\ current' = NoWindow
    /\ evicted' = TRUE
    /\ UNCHANGED <<handsOut, counts, over, visit, passedOn, raced>>

ThrottleNext ==
    \/ \E v \in Visit : GetEntry(v) \/ OpenWindow(v) \/ Count(v) \/ TurnAway(v)
    \/ EndWindow \/ Sweep \/ Evict

ThrottleSpec == ThrottleInit /\ [][ThrottleNext]_throttleVars
-----------------------------------------------------------------------------
\* No more than Limit requests pass in a window, but for those that were read
\* and written back at once with others; entries the store hands out count
\* every one of these, and only the first of a window can pass in excess.
LimitHolds ==
    /\ ~evicted =>
          Cardinality(UNION {passedOn[e] : e \in Visit \ over}) <= Limit + Cardinality(raced)
    /\ handsOut => \A e \in Visit : Cardinality(passedOn[e]) <= Limit

\* A request is turned away only when Limit others have passed in the window,
\* whatever was read stale.
TurnedAwayLate ==
    \A v \in Visit : visit[v].at = "turned away" =>
        Cardinality(passedOn[visit[v].entry]) >= Limit

\* The throttle errs on neither side by more than it must.
ThrottleInv == ThrottleTypeOK /\ LimitHolds /\ TurnedAwayLate
=============================================================================
