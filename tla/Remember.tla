----------------------------- MODULE Remember -----------------------------
(***************************************************************************)
(* CacheRepository.remember(key, ttl, callback), for one key, on top of    *)
(* the lock it takes (module CacheLock: a client is one call, which makes  *)
(* a CacheLock of its own).  Each repository lives in a process and keeps  *)
(* a map of the computations under way there; the store is shared.  A      *)
(* callback throws, or returns something other than null and undefined.    *)
(***************************************************************************)
EXTENDS CacheLock

CONSTANTS
    Repository,
    Home,       \* the repository each call is made on
    Error       \* the outcome of a call that throws

ASSUME RememberAssumption ==
    /\ Home \in [Client -> Repository]
    /\ Error \notin Client \cup {None}

VARIABLES
    cached,     \* the call that computed the cached value, or None
    at,         \* where each call is
    pending,    \* pendingRemember: the call computing in each repository
    joined,     \* the call whose computation a call awaits
    outcome     \* what each call returns: the call that computed it, or Error

callVars == <<at, joined, outcome>>
rememberVars == <<cached, callVars, pending, lockVars>>

Points == {"get", "missed", "lead", "recheck", "compute", "store", "unlock",
           "forget", "rescue", "settle", "joined", "done", "dead"}

RememberTypeOK ==
    /\ LockTypeOK
    /\ cached \in Client \cup {None}
    /\ at \in [Client -> Points]
    /\ pending \in [Repository -> Client \cup {None}]
    /\ joined \in [Client -> Client \cup {None}]
    /\ outcome \in [Client -> Client \cup {None, Error}]

RememberInit ==
    /\ LockInit
    /\ cached = None
    /\ at = [c \in Client |-> "get"]
    /\ pending = [r \in Repository |-> None]
    /\ joined = [c \in Client |-> None]
    /\ outcome = [c \in Client |-> None]

Move(c, from, to) == at[c] = from /\ at' = [at EXCEPT ![c] = to]

Yields(c, value) == outcome' = [outcome EXCEPT ![c] = value]
-----------------------------------------------------------------------------
(***************************************************************************)
(* remember().                                                             *)
(***************************************************************************)

\* A cached value is returned.
Hit(c) ==
    /\ cached # None
    /\ Move(c, "get", "done")
    /\ Yields(c, cached)
    /\ UNCHANGED <<cached, joined, pending, lockVars>>

Miss(c) ==
    /\ cached = None
    /\ Move(c, "get", "missed")
    /\ UNCHANGED <<cached, joined, outcome, pending, lockVars>>

\* Mutant: the map of computations under way is not looked at.
LeadAlways(c) ==
    /\ Move(c, "missed", "lead")
    /\ StartBlock(c)
    /\ pending' = [pending EXCEPT ![Home[c]] = c]
    /\ UNCHANGED <<cached, joined, outcome>>

\* Nobody in this repository computes the value: this call does.
Lead(c) ==
    /\ pending[Home[c]] = None
    /\ Move(c, "missed", "lead")
    /\ StartBlock(c)
    /\ pending' = [pending EXCEPT ![Home[c]] = c]
    /\ UNCHANGED <<cached, joined, outcome>>

Join(c) ==
    /\ pending[Home[c]] # None
    /\ Move(c, "missed", "joined")
    /\ joined' = [joined EXCEPT ![c] = pending[Home[c]]]
    /\ UNCHANGED <<cached, outcome, pending, lockVars>>

\* The computation a call joined has ended, with a value or an error.
Share(c) ==
    /\ Move(c, "joined", "done")
    /\ at[joined[c]] \in {"settle", "done"}
    /\ Yields(c, outcome[joined[c]])
    /\ UNCHANGED <<cached, joined, pending, lockVars>>

\* Mutant: no finally, an error leaves the computation in the map.
SettleOnSuccess(c) ==
    /\ Move(c, "settle", "done")
    /\ pending' = IF outcome[c] = Error THEN pending
                  ELSE [pending EXCEPT ![Home[c]] = None]
    /\ UNCHANGED <<cached, joined, outcome, lockVars>>

\* The finally of the call that led.
Settle(c) ==
    /\ Move(c, "settle", "done")
    /\ pending' = [pending EXCEPT ![Home[c]] = None]
    /\ UNCHANGED <<cached, joined, outcome, lockVars>>
-----------------------------------------------------------------------------
(***************************************************************************)
(* rememberWithLock(): the lock's block(), with the body of its callback.  *)
(***************************************************************************)
AskLock(c) ==
    /\ at[c] = "lead"
    /\ AddHas(c)
    /\ UNCHANGED <<cached, callVars, pending>>

GetLock(c) ==
    /\ Move(c, "lead", "recheck")
    /\ Add(c) \/ AddPut(c)
    /\ UNCHANGED <<cached, joined, outcome, pending>>

LockTimesOut(c) ==
    /\ Move(c, "lead", "rescue")
    /\ TimeOut(c)
    /\ Yields(c, Error)
    /\ UNCHANGED <<cached, joined, pending>>

\* Mutant: the cache is not read again under the lock.
RecheckNot(c) ==
    /\ Move(c, "recheck", "compute")
    /\ UNCHANGED <<cached, joined, outcome, pending, lockVars>>

\* Under the lock the cache is read again: another process may have
\* computed the value while this call waited.
Recheck(c) ==
    /\ IF cached # None
       THEN Move(c, "recheck", "unlock") /\ Yields(c, cached)
       ELSE Move(c, "recheck", "compute") /\ UNCHANGED outcome
    /\ UNCHANGED <<cached, joined, pending, lockVars>>

Compute(c) ==
    /\ Move(c, "compute", "store")
    /\ UNCHANGED <<cached, joined, outcome, pending, lockVars>>

Store(c) ==
    /\ Move(c, "store", "unlock")
    /\ cached' = c
    /\ Yields(c, c)
    /\ UNCHANGED <<joined, pending, lockVars>>

\* callback() or put() throws.
Throw(c) ==
    /\ Move(c, "compute", "unlock") \/ Move(c, "store", "unlock")
    /\ Yields(c, Error)
    /\ UNCHANGED <<cached, joined, pending, lockVars>>

\* Where block() goes once the lock is released.
AfterBlock(c) == IF outcome[c] = Error THEN "rescue" ELSE "settle"

Unlock(c) ==
    /\ ReleaseGet(c)
    /\ Move(c, "unlock", IF entry = c THEN "forget" ELSE AfterBlock(c))
    /\ UNCHANGED <<cached, joined, outcome, pending>>

Forget(c) ==
    /\ ReleaseForget(c)
    /\ Move(c, "forget", AfterBlock(c))
    /\ UNCHANGED <<cached, joined, outcome, pending>>

\* The catch: whatever went wrong, a value that is cached by now will do.
Rescue(c) ==
    /\ Move(c, "rescue", "settle")
    /\ Yields(c, IF cached # None THEN cached ELSE Error)
    /\ UNCHANGED <<cached, joined, pending, lockVars>>

\* The store refuses a request: of the first get(), of the lock, of the get()
\* under the lock, of the lock's release, or of the get() in the catch.
Refused(c) ==
    /\ "refuse" \in Faults
    /\ \/ /\ \/ Move(c, "get", "done") \/ Move(c, "recheck", "unlock")
             \/ Move(c, "rescue", "settle")
          /\ UNCHANGED lockVars
       \/ /\ \/ Move(c, "lead", "rescue") \/ Move(c, "unlock", "rescue")
             \/ Move(c, "forget", "rescue")
          /\ Abandon(c)
    /\ Yields(c, Error)
    /\ UNCHANGED <<cached, joined, pending>>
-----------------------------------------------------------------------------
\* The cached value's time to live ends, or somebody forgets the key.
Drop ==
    /\ cached # None
    /\ cached' = None
    /\ UNCHANGED <<callVars, pending, lockVars>>

LeaseEnds == Expire /\ UNCHANGED <<cached, callVars, pending>>

\* Cache.flush(): the value goes, and with it the lock.
FlushAll ==
    /\ Flush
    /\ cached' = None
    /\ UNCHANGED <<callVars, pending>>

\* The process of a repository dies, with every call that has begun there.
Kill(r) ==
    LET killed == {c \in Client : Home[c] = r /\ at[c] \notin {"get", "done"}} IN
        /\ "crash" \in Faults
        /\ killed # {}
        /\ at' = [c \in Client |-> IF c \in killed THEN "dead" ELSE at[c]]
        /\ stage' = [c \in Client |-> IF c \in killed THEN "idle" ELSE stage[c]]
        /\ pending' = [pending EXCEPT ![r] = None]
        /\ UNCHANGED <<cached, joined, outcome, entry, lapsed>>

CallStep(c) ==
    \/ Hit(c) \/ Miss(c) \/ Lead(c) \/ Join(c) \/ Share(c) \/ Settle(c)
    \/ AskLock(c) \/ GetLock(c) \/ LockTimesOut(c) \/ Recheck(c) \/ Compute(c)
    \/ Store(c) \/ Throw(c) \/ Unlock(c) \/ Forget(c) \/ Rescue(c)

RememberNext ==
    \/ \E c \in Client : CallStep(c) \/ Refused(c)
    \/ Drop \/ LeaseEnds \/ FlushAll
    \/ \E r \in Repository : Kill(r)

RememberSpec == RememberInit /\ [][RememberNext]_rememberVars

\* Every call runs on while its process lives; a callback returns or throws.
FairRememberSpec ==
    /\ RememberSpec
    /\ \A c \in Client : WF_rememberVars(CallStep(c))
-----------------------------------------------------------------------------
Computing(c) == at[c] \in {"compute", "store"}

\* Stampede protection: at any time one call at most, of all processes,
\* computes the value, and none while it is cached.
NoStampede ==
    \A c \in Client : Computing(c) =>
        /\ cached = None
        /\ \A d \in Client : Computing(d) => c = d

\* The map of computations under way names only calls that are under way, in
\* its own process: a call that joins one will get its outcome, whatever
\* threw, timed out or died.
PendingUnderWay ==
    /\ \A r \in Repository : pending[r] # None =>
          /\ Home[pending[r]] = r
          /\ at[pending[r]] \notin {"get", "missed", "joined", "done", "dead"}
    /\ \A c \in Client : at[c] = "joined" =>
          /\ Home[joined[c]] = Home[c]
          /\ at[joined[c]] \notin {"get", "missed", "joined", "dead"}

\* Whoever relies on the lock is named by its entry, and a computation that is
\* shared is under way, whatever throws or dies in it.
LocksInv == RememberTypeOK /\ HoldersOwnEntry /\ PendingUnderWay

\* Every call returns or throws, unless its process dies, whatever becomes of
\* the locks other processes left behind: no call is under way for ever.
EveryCallReturns ==
    []<>(\A c \in Client : at[c] \in {"get", "done", "dead"})
=============================================================================
