----------------------------- MODULE CacheLock -----------------------------
(***************************************************************************)
(* The lock of packages/cache/src/cache-lock.ts: a cache entry that holds  *)
(* the owner's token, with a time to live when the lock has one.  A client *)
(* is one CacheLock object; its token is its own.  A step is one request   *)
(* to the store.                                                           *)
(***************************************************************************)
CONSTANTS
    Client,     \* CacheLock objects made for the same lock name
    None,
    AtomicAdd,  \* add() is one request (redis) or a get and a put (array, file)
    Expires,    \* the lock was made with seconds > 0
    Faults      \* what may go wrong in this instance, see LockFaults

\* A client dies; its callback outlasts the lease; the lease ends between
\* the two requests of release(); the store is flushed, or refuses a request.
LockFaults == {"crash", "overrun", "stall", "flush", "refuse"}

ASSUME LockAssumption ==
    /\ None \notin Client
    /\ AtomicAdd \in BOOLEAN
    /\ Expires \in BOOLEAN
    /\ Faults \subseteq LockFaults

VARIABLES
    entry,      \* the lock's cache entry: the owner in it, or None
    stage,      \* where each client is in acquire(), block() and release()
    lapsed      \* whether the lease of its last acquire() ran out

lockVars == <<entry, stage, lapsed>>

Stages == {"idle", "waiting", "checked", "held", "releasing"}

LockTypeOK ==
    /\ entry \in Client \cup {None}
    /\ stage \in [Client -> Stages]
    /\ lapsed \in [Client -> BOOLEAN]

LockInit ==
    /\ entry = None
    /\ stage = [c \in Client |-> "idle"]
    /\ lapsed = [c \in Client |-> FALSE]
-----------------------------------------------------------------------------
To(c, at) == stage' = [stage EXCEPT ![c] = at]

\* The entry names c and its lease starts.
Own(c) ==
    /\ entry' = c
    /\ lapsed' = [lapsed EXCEPT ![c] = FALSE]
    /\ To(c, "held")

\* block(): from now on acquire() is tried again until the deadline.
StartBlock(c) ==
    /\ stage[c] = "idle"
    /\ To(c, "waiting")
    /\ UNCHANGED <<entry, lapsed>>

\* Mutant: SET without NX.
AddBlindly(c) ==
    /\ AtomicAdd
    /\ stage[c] \in {"idle", "waiting"}
    /\ Own(c)

\* acquire() on a store whose add() is one request, SET NX EX.  When the
\* entry exists nothing changes: get() throws and block() sleeps.
Add(c) ==
    /\ AtomicAdd
    /\ stage[c] \in {"idle", "waiting"}
    /\ entry = None
    /\ Own(c)

\* add() of ArrayStore and FileStore: has() ...
AddHas(c) ==
    /\ ~AtomicAdd
    /\ stage[c] \in {"idle", "waiting"}
    /\ entry = None
    /\ To(c, "checked")
    /\ UNCHANGED <<entry, lapsed>>

\* ... and, after its await, put().
AddPut(c) ==
    /\ stage[c] = "checked"
    /\ Own(c)

\* Mutant: the deadline is looked at only when the lock is free.
TimeOutFree(c) ==
    /\ stage[c] = "waiting"
    /\ entry = None
    /\ To(c, "idle")
    /\ UNCHANGED <<entry, lapsed>>

\* block(): the deadline has passed, LockTimeoutError.
TimeOut(c) ==
    /\ stage[c] = "waiting"
    /\ To(c, "idle")
    /\ UNCHANGED <<entry, lapsed>>

\* release(): the entry still names this client ...
ReleaseGet(c) ==
    /\ stage[c] = "held"
    /\ To(c, IF entry = c THEN "releasing" ELSE "idle")
    /\ UNCHANGED <<entry, lapsed>>

\* ... and is deleted, whomever it names by now.
ReleaseForget(c) ==
    /\ stage[c] = "releasing"
    /\ entry' = None
    /\ To(c, "idle")
    /\ UNCHANGED lapsed
-----------------------------------------------------------------------------
\* What the lease of the entry's owner may outlive it by.
MayLapse(c) ==
    /\ stage[c] = "held" => "overrun" \in Faults
    /\ stage[c] = "releasing" => "stall" \in Faults

\* Mutant: the store keeps the entry of an owner that is gone.
ExpireAlive ==
    /\ Expires
    /\ entry # None
    /\ stage[entry] = "held" /\ MayLapse(entry)
    /\ entry' = None
    /\ lapsed' = [lapsed EXCEPT ![entry] = TRUE]
    /\ UNCHANGED stage

Expire ==
    /\ Expires
    /\ entry # None
    /\ MayLapse(entry)
    /\ entry' = None
    /\ lapsed' = [lapsed EXCEPT ![entry] = TRUE]
    /\ UNCHANGED stage

\* Cache.flush() deletes the locks with everything else.
Flush ==
    /\ "flush" \in Faults
    /\ entry' = None
    /\ UNCHANGED <<stage, lapsed>>

\* The client is done with the lock; the entry stays.
Abandon(c) ==
    /\ stage[c] # "idle"
    /\ To(c, "idle")
    /\ UNCHANGED <<entry, lapsed>>

\* The client's process dies, or the store refuses a request and block()
\* throws.
Crash(c) ==
    /\ Faults \cap {"crash", "refuse"} # {}
    /\ Abandon(c)

LockStep(c) ==
    \/ StartBlock(c) \/ Add(c) \/ AddHas(c) \/ AddPut(c) \/ TimeOut(c)
    \/ ReleaseGet(c) \/ ReleaseForget(c)

LockNext ==
    \/ \E c \in Client : LockStep(c) \/ Crash(c)
    \/ Expire
    \/ Flush

LockSpec == LockInit /\ [][LockNext]_lockVars
-----------------------------------------------------------------------------
\* The clients that may rely on the lock: they acquired it, have yet to
\* release it, and their lease has not run out.
Holders == {c \in Client : stage[c] \in {"held", "releasing"} /\ ~lapsed[c]}

Abstract == INSTANCE Mutex WITH holders <- Holders

\* With add() in one request, and no lease that ends inside a release() and
\* no flush, the lock is a mutex, although its holders may die, outlast
\* their lease and come back to release what is no longer theirs.
ImplementsMutex == Abstract!Spec

\* Two clients never rely on the lock at once.
Exclusive == \A c, d \in Holders : c = d

\* Whoever relies on the lock is named by the entry: the invariant that
\* makes the refinement go through.
HoldersOwnEntry ==
    /\ \A c \in Holders : entry = c
    /\ \A c \in Client : stage[c] = "releasing" => entry = c
    /\ \A c \in Client : stage[c] # "checked"
-----------------------------------------------------------------------------
\* Clients ask for the lock and release it as often as they like, hang in
\* their callbacks and die; time passes, and a release() once begun goes on.
LockFairness == WF_lockVars(Expire) /\ \A c \in Client : WF_lockVars(ReleaseForget(c))

FairLockSpec == LockSpec /\ LockFairness

\* A lock with a time to live never stays taken, whoever dies or hangs.
AlwaysFreed == []<>(entry = None)
=============================================================================
