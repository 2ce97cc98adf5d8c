---------------------------- MODULE CacheProofs ----------------------------
(***************************************************************************)
(* Proofs about CacheLock and Remember, for every set of calls, clients    *)
(* and repositories.                                                       *)
(***************************************************************************)
EXTENDS Remember, TLAPS

LEMMA LockTypeStep ==
    ASSUME LockTypeOK, [LockNext]_lockVars
    PROVE  LockTypeOK'
<1>1. ASSUME NEW c \in Client, LockStep(c) \/ Crash(c) PROVE LockTypeOK'
  <2>1. PICK to \in Stages : stage' = [stage EXCEPT ![c] = to]
    BY <1>1 DEF LockStep, StartBlock, Add, AddHas, AddPut, TimeOut, ReleaseGet,
       ReleaseForget, Crash, Abandon, Own, To, Stages
  <2>2. entry' \in {entry, c, None}
    BY <1>1 DEF LockStep, StartBlock, Add, AddHas, AddPut, TimeOut, ReleaseGet,
       ReleaseForget, Crash, Abandon, Own
  <2>3. lapsed' = lapsed \/ lapsed' = [lapsed EXCEPT ![c] = FALSE]
    BY <1>1 DEF LockStep, StartBlock, Add, AddHas, AddPut, TimeOut, ReleaseGet,
       ReleaseForget, Crash, Abandon, Own
  <2> QED
    BY <2>1, <2>2, <2>3 DEF LockTypeOK
<1>2. CASE Expire \/ Flush
  BY <1>2 DEF LockTypeOK, Expire, Flush
<1>3. CASE UNCHANGED lockVars
  BY <1>3 DEF LockTypeOK, lockVars
<1> QED
  BY <1>1, <1>2, <1>3 DEF LockNext

\* Every store, every fault: the entry, stages and leases stay well formed.
THEOREM LockTypeCorrect == LockSpec => []LockTypeOK
<1>1. LockInit => LockTypeOK
  BY DEF LockInit, LockTypeOK, Stages
<1>2. LockTypeOK /\ [LockNext]_lockVars => LockTypeOK'
  BY LockTypeStep
<1> QED
  BY <1>1, <1>2, PTL DEF LockSpec

\* An atomic store, and no lease that ends inside a release().
Orderly == AtomicAdd /\ Faults \cap {"stall", "flush"} = {}

LEMMA OwnershipInit == LockInit => HoldersOwnEntry
BY LockAssumption DEF LockInit, HoldersOwnEntry, Holders

LEMMA OwnershipStep ==
    ASSUME Orderly, LockTypeOK, HoldersOwnEntry, [LockNext]_lockVars
    PROVE  HoldersOwnEntry'
<1> USE LockAssumption DEF LockTypeOK, HoldersOwnEntry, Holders, To
<1>1. ASSUME NEW c \in Client, StartBlock(c) \/ TimeOut(c) \/ Crash(c)
      PROVE  HoldersOwnEntry'
  BY <1>1 DEF StartBlock, TimeOut, Crash, Abandon
<1>2. ASSUME NEW c \in Client, Add(c) PROVE HoldersOwnEntry'
  BY <1>2 DEF Add, Own
<1>3. ASSUME NEW c \in Client, AddHas(c) \/ AddPut(c) PROVE HoldersOwnEntry'
  BY <1>3 DEF Orderly, AddHas, AddPut
<1>4. ASSUME NEW c \in Client, ReleaseGet(c) PROVE HoldersOwnEntry'
  BY <1>4 DEF ReleaseGet
<1>5. ASSUME NEW c \in Client, ReleaseForget(c) PROVE HoldersOwnEntry'
  BY <1>5 DEF ReleaseForget
<1>6. CASE Expire
  <2>1. stage[entry] # "releasing"
    BY <1>6 DEF Expire, MayLapse, Orderly
  <2> QED
    BY <1>6, <2>1 DEF Expire
<1>7. CASE Flush
  BY <1>7 DEF Flush, Orderly
<1>8. CASE UNCHANGED lockVars
  BY <1>8 DEF lockVars
<1> QED
  BY <1>1, <1>2, <1>3, <1>4, <1>5, <1>6, <1>7, <1>8 DEF LockNext, LockStep

\* Each step acquires the mutex, releases it, or leaves its holders alone.
LEMMA MutexStep ==
    ASSUME Orderly, LockTypeOK, HoldersOwnEntry, [LockNext]_lockVars
    PROVE  [Abstract!Next]_Holders
<1> USE LockAssumption DEF LockTypeOK, Holders, To
<1>1. ASSUME NEW c \in Client, StartBlock(c) \/ TimeOut(c) \/ AddHas(c) \/ AddPut(c)
      PROVE  UNCHANGED Holders
  BY <1>1 DEF StartBlock, TimeOut, AddHas, AddPut, Orderly, HoldersOwnEntry
<1>2. ASSUME NEW c \in Client, Add(c) PROVE Abstract!Acquire(c)
  <2>1. Holders = {}
    BY <1>2 DEF Add, HoldersOwnEntry
  <2>2. Holders' = {c}
    BY <1>2, <2>1 DEF Add, Own
  <2> QED
    BY <2>1, <2>2 DEF Abstract!Acquire
<1>3. ASSUME NEW c \in Client, ReleaseGet(c) \/ ReleaseForget(c) \/ Crash(c)
      PROVE  Abstract!Release(c) \/ UNCHANGED Holders
  <2>1. Holders' = Holders \/ Holders' = Holders \ {c}
    BY <1>3 DEF ReleaseGet, ReleaseForget, Crash, Abandon
  <2>2. c \in Holders => Holders = {c}
    BY DEF HoldersOwnEntry
  <2> QED
    BY <2>1, <2>2 DEF Abstract!Release
<1>4. ASSUME Expire PROVE \E c \in Client : Abstract!Release(c) \/ UNCHANGED Holders
  <2>1. PICK c \in Client : c = entry
    BY <1>4 DEF Expire
  <2>2. Holders' = Holders \/ Holders' = Holders \ {c}
    BY <1>4, <2>1 DEF Expire
  <2>3. c \in Holders => Holders = {c}
    BY DEF HoldersOwnEntry
  <2> QED
    BY <2>2, <2>3 DEF Abstract!Release
<1>5. CASE Flush
  BY <1>5 DEF Flush, Orderly
<1>6. CASE UNCHANGED lockVars
  BY <1>6 DEF lockVars
<1> QED
  BY <1>1, <1>2, <1>3, <1>4, <1>5, <1>6 DEF LockNext, LockStep, Abstract!Next

\* On a store with an atomic add(), as long as no lease ends between the two
\* requests of a release() and nobody flushes the store, the lock is a
\* mutex: whoever dies, hangs or comes back late, there is one holder.
THEOREM LockIsMutex == ASSUME Orderly PROVE LockSpec => ImplementsMutex
<1>1. LockInit => Abstract!Init
  BY DEF LockInit, Abstract!Init, Holders
<1>2. LockTypeOK /\ HoldersOwnEntry /\ [LockNext]_lockVars => HoldersOwnEntry'
  BY OwnershipStep
<1>3. LockTypeOK /\ HoldersOwnEntry /\ [LockNext]_lockVars => [Abstract!Next]_Holders
  BY MutexStep
<1> QED
  BY <1>1, <1>2, <1>3, LockTypeCorrect, OwnershipInit, PTL
     DEF LockSpec, ImplementsMutex, Abstract!Spec

\* What the mutex gives a program that uses the lock.
THEOREM LockIsExclusive == ASSUME Orderly PROVE LockSpec => []Exclusive
<1>1. LockTypeOK /\ HoldersOwnEntry /\ [LockNext]_lockVars => HoldersOwnEntry'
  BY OwnershipStep
<1>2. HoldersOwnEntry => Exclusive
  BY DEF HoldersOwnEntry, Exclusive
<1> QED
  BY <1>1, <1>2, LockTypeCorrect, OwnershipInit, PTL DEF LockSpec
-----------------------------------------------------------------------------
\* A call's point in remember() says where its lock is, and whoever has the
\* lock is named by the lock's entry.
LockAt(c) ==
    /\ stage[c] = "held" => at[c] \in {"recheck", "compute", "store", "unlock"}
    /\ at[c] \in {"recheck", "compute", "store", "unlock"} => stage[c] = "held"
    /\ stage[c] = "releasing" <=> at[c] = "forget"
    /\ stage[c] \in {"held", "releasing"} => entry = c
    /\ stage[c] # "checked"

\* What keeps stampedes out: the lock, and the second look at the cache.
Guarded ==
    /\ entry \in Client \cup {None}
    /\ at \in [Client -> Points]
    /\ stage \in [Client -> Stages]
    /\ \A c \in Client : LockAt(c)
    /\ \A c \in Client : Computing(c) => cached = None

\* A store whose add() is one request, and leases that outlast callbacks.
Sheltered == AtomicAdd /\ Faults \subseteq {"crash", "refuse"}

LEMMA GuardedInit == RememberInit => Guarded
BY LockAssumption, RememberAssumption
   DEF RememberInit, LockInit, Guarded, LockAt, Computing, Points, Stages

\* The steps of a call that leave the lock and the cached value alone.
LEMMA QuietStep ==
    ASSUME Guarded, NEW c \in Client,
           Hit(c) \/ Miss(c) \/ Join(c) \/ Share(c) \/ Settle(c) \/ Rescue(c)
    PROVE  Guarded'
<1>1. PICK to \in {"missed", "joined", "settle", "done"} :
         /\ at' = [at EXCEPT ![c] = to]
         /\ at[c] \in {"get", "missed", "joined", "settle", "rescue"}
  BY DEF Hit, Miss, Join, Share, Settle, Rescue, Move
<1>2. UNCHANGED <<stage, entry, cached>>
  BY DEF Hit, Miss, Join, Share, Settle, Rescue, lockVars
<1> QED
  BY <1>1, <1>2 DEF Guarded, LockAt, Computing, Points

\* The steps inside the lock's callback.
LEMMA CallbackStep ==
    ASSUME Guarded, LockAssumption, NEW c \in Client,
           Recheck(c) \/ Compute(c) \/ Store(c) \/ Throw(c)
    PROVE  Guarded'
<1>1. UNCHANGED <<stage, entry>>
  BY DEF Recheck, Compute, Store, Throw, lockVars
<1>2. \A d \in Client : Computing(d) => LockAt(d) /\ (stage[c] = "held" => d = c)
  BY DEF Guarded, LockAt, Computing
<1>3. CASE Recheck(c)
  BY <1>1, <1>3 DEF Recheck, Move, Guarded, LockAt, Computing, Points
<1>4. CASE Compute(c) \/ Throw(c)
  BY <1>1, <1>4 DEF Compute, Throw, Move, Guarded, LockAt, Computing, Points
<1>5. CASE Store(c)
  <2>1. at[c] = "store" /\ at' = [at EXCEPT ![c] = "unlock"]
    BY <1>5 DEF Store, Move
  <2>2. stage[c] = "held"
    BY <2>1 DEF Guarded, LockAt
  <2>3. \A d \in Client : ~Computing(d)'
    BY <1>2, <2>1, <2>2 DEF Computing, Guarded
  <2> QED
    BY <1>1, <2>1, <2>3 DEF Guarded, LockAt, Points
<1> QED
  BY <1>3, <1>4, <1>5

\* The steps that move the lock.
LEMMA LockingStep ==
    ASSUME Guarded, Sheltered, NEW c \in Client,
           Lead(c) \/ AskLock(c) \/ GetLock(c) \/ LockTimesOut(c)
             \/ Unlock(c) \/ Forget(c)
    PROVE  Guarded'
<1> USE LockAssumption, RememberAssumption DEF Move, To
<1>1. CASE Lead(c)
  BY <1>1 DEF Lead, StartBlock, Guarded, LockAt, Computing, Points, Stages
<1>2. CASE AskLock(c)
  BY <1>2 DEF AskLock, AddHas, Sheltered
<1>3. CASE GetLock(c)
  <2>1. Add(c)
    BY <1>3 DEF GetLock, AddPut, Guarded, LockAt
  <2>2. /\ at[c] = "lead" /\ at' = [at EXCEPT ![c] = "recheck"]
        /\ entry = None /\ entry' = c /\ stage' = [stage EXCEPT ![c] = "held"]
        /\ UNCHANGED cached
    BY <1>3, <2>1 DEF GetLock, Add, Own
  <2>3. \A d \in Client : stage[d] \notin {"held", "releasing"}
    BY <2>2 DEF Guarded, LockAt
  <2> QED
    BY <2>2, <2>3 DEF Guarded, LockAt, Computing, Points, Stages
<1>4. CASE LockTimesOut(c)
  BY <1>4 DEF LockTimesOut, TimeOut, Guarded, LockAt, Computing, Points, Stages
<1>5. CASE Unlock(c)
  BY <1>5 DEF Unlock, ReleaseGet, AfterBlock, Guarded, LockAt, Computing, Points, Stages
<1>6. CASE Forget(c)
  <2>1. /\ at[c] = "forget" /\ at' = [at EXCEPT ![c] = AfterBlock(c)]
        /\ entry' = None /\ stage' = [stage EXCEPT ![c] = "idle"]
        /\ UNCHANGED cached
    BY <1>6 DEF Forget, ReleaseForget
  <2>2. \A d \in Client \ {c} : stage[d] \notin {"held", "releasing"}
    BY <2>1 DEF Guarded, LockAt
  <2> QED
    BY <2>1, <2>2 DEF AfterBlock, Guarded, LockAt, Computing, Points, Stages
<1> QED
  BY <1>1, <1>2, <1>3, <1>4, <1>5, <1>6

\* Time, flushes and the death of a process.
LEMMA OutsideStep ==
    ASSUME Guarded, Sheltered,
           Drop \/ LeaseEnds \/ FlushAll \/ \E r \in Repository : Kill(r)
    PROVE  Guarded'
<1> USE LockAssumption
<1>1. CASE Drop
  BY <1>1 DEF Drop, lockVars, callVars, Guarded, LockAt, Computing
<1>2. CASE LeaseEnds
  <2>1. /\ entry \in Client /\ stage[entry] \notin {"held", "releasing"}
        /\ entry' = None /\ UNCHANGED <<at, stage, cached>>
    BY <1>2 DEF LeaseEnds, Expire, MayLapse, Sheltered, callVars, Guarded
  <2> QED
    BY <2>1 DEF Guarded, LockAt, Computing
<1>3. CASE FlushAll
  BY <1>3 DEF FlushAll, Flush, Sheltered
<1>4. ASSUME NEW r \in Repository, Kill(r) PROVE Guarded'
  <2>1. PICK killed \in SUBSET Client :
           /\ \A c \in killed : at[c] \notin {"get", "done"}
           /\ at' = [c \in Client |-> IF c \in killed THEN "dead" ELSE at[c]]
           /\ stage' = [c \in Client |-> IF c \in killed THEN "idle" ELSE stage[c]]
           /\ UNCHANGED <<entry, cached>>
    BY <1>4 DEF Kill
  <2> QED
    BY <2>1 DEF Guarded, LockAt, Computing, Points, Stages
<1> QED
  BY <1>1, <1>2, <1>3, <1>4

\* A request the store refuses.
LEMMA RefusedStep ==
    ASSUME Guarded, NEW c \in Client, Refused(c)
    PROVE  Guarded'
<1>1. PICK to \in {"done", "unlock", "settle", "rescue"} :
         at' = [at EXCEPT ![c] = to]
  BY DEF Refused, Move
<1>2. UNCHANGED <<entry, cached>>
  BY DEF Refused, Abandon, lockVars
<1>3. CASE stage' = stage
  <2>1. \/ at[c] \in {"get", "rescue"} /\ at'[c] \in {"done", "settle"}
        \/ at[c] = "recheck" /\ at'[c] = "unlock"
        \/ at[c] = "lead" /\ at'[c] = "rescue"
    BY <1>1, <1>3 DEF Refused, Move, Abandon, To, Guarded, LockAt, Points
  <2> QED
    BY <1>1, <1>2, <1>3, <2>1 DEF Guarded, LockAt, Computing, Points
<1>4. CASE stage' = [stage EXCEPT ![c] = "idle"] /\ to = "rescue"
  BY <1>1, <1>2, <1>4 DEF Guarded, LockAt, Computing, Points, Stages
<1>5. \/ stage' = stage
      \/ stage' = [stage EXCEPT ![c] = "idle"] /\ to = "rescue"
  BY <1>1 DEF Refused, Move, Abandon, To, lockVars, Guarded
<1> QED
  BY <1>3, <1>4, <1>5

LEMMA GuardedStep ==
    ASSUME Guarded, Sheltered, [RememberNext]_rememberVars
    PROVE  Guarded'
<1>1. ASSUME NEW c \in Client, CallStep(c) PROVE Guarded'
  BY <1>1, QuietStep, CallbackStep, LockingStep, LockAssumption DEF CallStep
<1>2. ASSUME NEW c \in Client, Refused(c) PROVE Guarded'
  BY <1>2, RefusedStep
<1>3. CASE UNCHANGED rememberVars
  BY <1>3 DEF rememberVars, callVars, lockVars, Guarded, LockAt, Computing
<1> QED
  BY <1>1, <1>2, <1>3, OutsideStep DEF RememberNext

\* remember() keeps stampedes out, however many processes call it and die:
\* on a store with an atomic add(), whatever requests it refuses, as long as
\* no callback outlasts its lock and nobody flushes the store, one call at most computes the value, and
\* none while it is cached.
THEOREM StampedesAreKeptOut == ASSUME Sheltered PROVE RememberSpec => []NoStampede
<1>1. Guarded /\ [RememberNext]_rememberVars => Guarded'
  BY GuardedStep
<1>2. Guarded => NoStampede
  BY DEF Guarded, LockAt, NoStampede, Computing
<1> QED
  BY <1>1, <1>2, GuardedInit, PTL DEF RememberSpec
-----------------------------------------------------------------------------
(***************************************************************************)
(* The computation shared in a process: the calls that lead are the ones   *)
(* the map names, and a call that joined waits for one of them, or for one *)
(* that has ended.                                                         *)
(***************************************************************************)
Leading == {"lead", "recheck", "compute", "store", "unlock", "forget",
            "rescue", "settle"}

CallTypes ==
    /\ cached \in Client \cup {None}
    /\ at \in [Client -> Points]
    /\ pending \in [Repository -> Client \cup {None}]
    /\ joined \in [Client -> Client \cup {None}]
    /\ outcome \in [Client -> Client \cup {None, Error}]

Named(r) == pending[r] # None =>
    Home[pending[r]] = r /\ at[pending[r]] \in Leading

Awaits(c) == at[c] = "joined" =>
    /\ joined[c] \in Client
    /\ Home[joined[c]] = Home[c]
    /\ at[joined[c]] \in Leading \cup {"done"}

Led ==
    /\ CallTypes
    /\ \A r \in Repository : Named(r)
    /\ \A c \in Client : at[c] \in Leading => pending[Home[c]] = c
    /\ \A c \in Client : Awaits(c)

LEMMA LedInit == RememberInit => Led
BY RememberAssumption, LockAssumption
   DEF RememberInit, Led, CallTypes, Named, Awaits, Leading, Points

\* A call that leads moves on, and still leads.
LEMMA LeaderMoves ==
    ASSUME Led, NEW c \in Client, at[c] \in Leading,
           NEW to \in Leading, at' = [at EXCEPT ![c] = to],
           cached' \in Client \cup {None},
           NEW value \in Client \cup {None, Error},
           outcome' = [outcome EXCEPT ![c] = value],
           UNCHANGED <<joined, pending>>
    PROVE  Led'
<1> USE RememberAssumption
<1>1. CallTypes'
  BY DEF Led, CallTypes, Leading, Points
<1>2. ASSUME NEW r \in Repository PROVE Named(r)'
  BY DEF Led, Named, CallTypes
<1>3. ASSUME NEW d \in Client PROVE at'[d] \in Leading => pending'[Home[d]] = d
  BY DEF Led, CallTypes
<1>4. ASSUME NEW d \in Client PROVE Awaits(d)'
  BY DEF Led, Awaits, CallTypes, Leading
<1> QED
  BY <1>1, <1>2, <1>3, <1>4 DEF Led

\* A call that does not lead returns, or finds that it has to wait.
LEMMA FollowerMoves ==
    ASSUME Led, NEW c \in Client, at[c] \in {"get", "missed", "joined"},
           NEW to \in {"missed", "done"}, at' = [at EXCEPT ![c] = to],
           NEW value \in Client \cup {None, Error},
           outcome' = [outcome EXCEPT ![c] = value],
           UNCHANGED <<cached, joined, pending>>
    PROVE  Led'
<1> USE RememberAssumption
<1>1. CallTypes'
  BY DEF Led, CallTypes, Points
<1>2. ASSUME NEW r \in Repository PROVE Named(r)'
  BY DEF Led, Named, CallTypes, Leading
<1>3. ASSUME NEW d \in Client PROVE at'[d] \in Leading => pending'[Home[d]] = d
  BY DEF Led, CallTypes, Leading
<1>4. ASSUME NEW d \in Client PROVE Awaits(d)'
  BY DEF Led, Awaits, CallTypes, Leading
<1> QED
  BY <1>1, <1>2, <1>3, <1>4 DEF Led

\* The steps of a call that leads, and those of a call that does not.
Presses(c) ==
    \/ AskLock(c) \/ GetLock(c) \/ LockTimesOut(c) \/ Recheck(c) \/ Compute(c)
    \/ Store(c) \/ Throw(c) \/ Unlock(c) \/ Forget(c) \/ Rescue(c)

LEMMA PressesStep ==
    ASSUME Led, NEW c \in Client, Presses(c)
    PROVE  Led'
<1> USE LockAssumption, RememberAssumption DEF Move, Yields, Leading
<1>1. at[c] \in Leading /\ UNCHANGED <<joined, pending>>
  BY DEF Presses, AskLock, GetLock, LockTimesOut, Recheck, Compute, Store, Throw,
     Unlock, Forget, Rescue, callVars
<1>2. PICK to \in Leading : at' = [at EXCEPT ![c] = to]
  <2>1. CASE AskLock(c)
    BY <2>1 DEF AskLock, callVars, Led, CallTypes
  <2> QED
    BY <2>1 DEF Presses, GetLock, LockTimesOut, Recheck, Compute, Store, Throw,
       Unlock, Forget, Rescue, AfterBlock
<1>3. cached' \in Client \cup {None}
  BY DEF Presses, AskLock, GetLock, LockTimesOut, Recheck, Compute, Store, Throw,
     Unlock, Forget, Rescue, Led, CallTypes
<1>4. PICK value \in Client \cup {None, Error} : outcome' = [outcome EXCEPT ![c] = value]
  <2>1. outcome = [outcome EXCEPT ![c] = outcome[c]] /\ outcome[c] \in Client \cup {None, Error}
    BY DEF Led, CallTypes
  <2>2. cached \in Client \cup {None}
    BY DEF Led, CallTypes
  <2> QED
    BY <2>1, <2>2 DEF Presses, AskLock, GetLock, LockTimesOut, Recheck, Compute,
       Store, Throw, Unlock, Forget, Rescue, callVars
<1> QED
  BY <1>1, <1>2, <1>3, <1>4, LeaderMoves

LEMMA FollowerStep ==
    ASSUME Led, NEW c \in Client, Hit(c) \/ Miss(c) \/ Share(c)
    PROVE  Led'
<1> USE DEF Move, Yields
<1>1. at[c] \in {"get", "missed", "joined"} /\ UNCHANGED <<cached, joined, pending>>
  BY DEF Hit, Miss, Share
<1>2. PICK to \in {"missed", "done"} : at' = [at EXCEPT ![c] = to]
  BY DEF Hit, Miss, Share
<1>3. PICK value \in Client \cup {None, Error} : outcome' = [outcome EXCEPT ![c] = value]
  <2>1. outcome = [outcome EXCEPT ![c] = outcome[c]] /\ outcome[c] \in Client \cup {None, Error}
    BY DEF Led, CallTypes
  <2>2. Share(c) => joined[c] \in Client
    BY DEF Share, Led, Awaits
  <2>3. cached \in Client \cup {None} /\ outcome \in [Client -> Client \cup {None, Error}]
    BY DEF Led, CallTypes
  <2> QED
    BY <2>1, <2>2, <2>3 DEF Hit, Miss, Share
<1> QED
  BY <1>1, <1>2, <1>3, FollowerMoves

\* The first call of a repository enters itself in the map, the next ones
\* join it, and the leader's finally takes it out.
LEMMA MapStep ==
    ASSUME Led, NEW c \in Client, Lead(c) \/ Join(c) \/ Settle(c)
    PROVE  Led'
<1> USE LockAssumption, RememberAssumption DEF Move, Leading
<1>1. CASE Lead(c)
  <2>1. /\ at[c] = "missed" /\ at' = [at EXCEPT ![c] = "lead"]
        /\ pending[Home[c]] = None /\ pending' = [pending EXCEPT ![Home[c]] = c]
        /\ UNCHANGED <<cached, joined, outcome>>
    BY <1>1 DEF Lead
  <2>2. CallTypes'
    BY <2>1 DEF Led, CallTypes, Points
  <2>3. ASSUME NEW r \in Repository PROVE Named(r)'
    BY <2>1 DEF Led, Named, CallTypes
  <2>4. ASSUME NEW d \in Client PROVE at'[d] \in Leading => pending'[Home[d]] = d
    BY <2>1 DEF Led, CallTypes
  <2>5. ASSUME NEW d \in Client PROVE Awaits(d)'
    BY <2>1 DEF Led, Awaits, CallTypes
  <2> QED
    BY <2>2, <2>3, <2>4, <2>5 DEF Led
<1>2. CASE Join(c)
  <2>1. /\ at[c] = "missed" /\ at' = [at EXCEPT ![c] = "joined"]
        /\ pending[Home[c]] # None /\ joined' = [joined EXCEPT ![c] = pending[Home[c]]]
        /\ UNCHANGED <<cached, outcome, pending>>
    BY <1>2 DEF Join
  <2>2. CallTypes'
    BY <2>1 DEF Led, CallTypes, Points
  <2>3. ASSUME NEW r \in Repository PROVE Named(r)'
    BY <2>1 DEF Led, Named, CallTypes
  <2>4. ASSUME NEW d \in Client PROVE at'[d] \in Leading => pending'[Home[d]] = d
    BY <2>1 DEF Led, CallTypes
  <2>5. Named(Home[c]) /\ Home[c] \in Repository
    BY DEF Led
  <2>6. ASSUME NEW d \in Client PROVE Awaits(d)'
    BY <2>1, <2>5 DEF Led, Awaits, CallTypes, Named
  <2> QED
    BY <2>2, <2>3, <2>4, <2>6 DEF Led
<1>3. CASE Settle(c)
  <2>1. /\ at[c] = "settle" /\ at' = [at EXCEPT ![c] = "done"]
        /\ pending' = [pending EXCEPT ![Home[c]] = None]
        /\ UNCHANGED <<cached, joined, outcome>>
    BY <1>3 DEF Settle
  <2>2. CallTypes'
    BY <2>1 DEF Led, CallTypes, Points
  <2>3. pending[Home[c]] = c
    BY <2>1 DEF Led
  <2>4. ASSUME NEW r \in Repository PROVE Named(r)'
    BY <2>1, <2>3 DEF Led, Named, CallTypes
  <2>5. ASSUME NEW d \in Client PROVE at'[d] \in Leading => pending'[Home[d]] = d
    BY <2>1, <2>3 DEF Led, CallTypes
  <2>6. ASSUME NEW d \in Client PROVE Awaits(d)'
    BY <2>1 DEF Led, Awaits, CallTypes
  <2> QED
    BY <2>2, <2>4, <2>5, <2>6 DEF Led
<1> QED
  BY <1>1, <1>2, <1>3

LEMMA RefusalStep ==
    ASSUME Led, NEW c \in Client, Refused(c)
    PROVE  Led'
<1> USE LockAssumption, RememberAssumption DEF Move, Yields, Leading
<1>1. /\ UNCHANGED <<cached, joined, pending>>
      /\ outcome' = [outcome EXCEPT ![c] = Error]
  BY DEF Refused
<1>2. \/ at[c] = "get" /\ at' = [at EXCEPT ![c] = "done"]
      \/ at[c] \in Leading /\ \E to \in Leading : at' = [at EXCEPT ![c] = to]
  BY DEF Refused
<1>3. cached \in Client \cup {None}
  BY DEF Led, CallTypes
<1> QED
  BY <1>1, <1>2, <1>3, LeaderMoves, FollowerMoves

LEMMA KillStep ==
    ASSUME Led, NEW r \in Repository, Kill(r)
    PROVE  Led'
<1> USE LockAssumption, RememberAssumption DEF Leading
<1>1. PICK killed \in SUBSET Client :
         /\ killed = {c \in Client : Home[c] = r /\ at[c] \notin {"get", "done"}}
         /\ at' = [c \in Client |-> IF c \in killed THEN "dead" ELSE at[c]]
         /\ pending' = [pending EXCEPT ![r] = None]
         /\ UNCHANGED <<cached, joined, outcome>>
  BY DEF Kill
<1>2. CallTypes'
  BY <1>1 DEF Led, CallTypes, Points
<1>3. ASSUME NEW s \in Repository PROVE Named(s)'
  BY <1>1 DEF Led, Named, CallTypes
<1>4. ASSUME NEW d \in Client PROVE at'[d] \in Leading => pending'[Home[d]] = d
  BY <1>1 DEF Led, CallTypes
<1>5. ASSUME NEW d \in Client PROVE Awaits(d)'
  BY <1>1 DEF Led, Awaits, CallTypes
<1> QED
  BY <1>2, <1>3, <1>4, <1>5 DEF Led

LEMMA LedStep ==
    ASSUME Led, [RememberNext]_rememberVars
    PROVE  Led'
<1>1. ASSUME NEW c \in Client, CallStep(c) PROVE Led'
  BY <1>1, PressesStep, FollowerStep, MapStep DEF CallStep, Presses
<1>2. CASE Drop
  BY <1>2 DEF Drop, callVars, Led, CallTypes, Named, Awaits
<1>3. CASE FlushAll
  BY <1>3 DEF FlushAll, callVars, Led, CallTypes, Named, Awaits
<1>4. CASE LeaseEnds \/ UNCHANGED rememberVars
  BY <1>4 DEF LeaseEnds, rememberVars, callVars, Led, CallTypes, Named, Awaits
<1> QED
  BY <1>1, <1>2, <1>3, <1>4, RefusalStep, KillStep DEF RememberNext

\* What remember() does to its lock is what a client of the lock may do, but
\* for the death of a process, which takes all its clients.
LEMMA RememberLocks ==
    ASSUME [RememberNext]_rememberVars
    PROVE  [LockNext]_lockVars \/ \E r \in Repository : Kill(r)
<1>1. ASSUME NEW c \in Client, CallStep(c) PROVE [LockNext]_lockVars
  <2>1. \/ UNCHANGED lockVars
        \/ LockStep(c)
    BY <1>1 DEF CallStep, LockStep, Hit, Miss, Lead, Join, Share, Settle, AskLock,
       GetLock, LockTimesOut, Recheck, Compute, Store, Throw, Unlock, Forget, Rescue
  <2> QED
    BY <2>1 DEF LockNext
<1>2. ASSUME NEW c \in Client, Refused(c) PROVE [LockNext]_lockVars
  BY <1>2 DEF Refused, LockNext, Crash
<1>3. Drop \/ LeaseEnds \/ FlushAll \/ UNCHANGED rememberVars => [LockNext]_lockVars
  BY DEF Drop, LeaseEnds, FlushAll, rememberVars, LockNext
<1> QED
  BY <1>1, <1>2, <1>3 DEF RememberNext

LEMMA KillKeepsOwnership ==
    ASSUME LockTypeOK, NEW r \in Repository, Kill(r)
    PROVE  LockTypeOK' /\ (HoldersOwnEntry => HoldersOwnEntry')
<1>1. PICK killed \in SUBSET Client :
         /\ stage' = [c \in Client |-> IF c \in killed THEN "idle" ELSE stage[c]]
         /\ UNCHANGED <<entry, lapsed>>
  BY DEF Kill
<1>2. LockTypeOK'
  BY <1>1 DEF LockTypeOK, Stages
<1>3. HoldersOwnEntry => HoldersOwnEntry'
  BY <1>1 DEF LockTypeOK, HoldersOwnEntry, Holders
<1> QED
  BY <1>2, <1>3

\* On a store with an atomic add() that nobody flushes, whatever throws, times
\* out or dies, and although callbacks may outlast their leases: whoever
\* relies on the lock is named by its entry, and a call that joins another's
\* computation joins one that is under way in its own process and will hand
\* it its outcome.
THEOREM SharedComputationsEnd ==
    ASSUME Orderly PROVE RememberSpec => []LocksInv
<1> DEFINE Kept == Led /\ LockTypeOK /\ HoldersOwnEntry
<1>1. RememberInit => Kept
  <2>1. LockInit => LockTypeOK
    BY DEF LockInit, LockTypeOK, Stages
  <2> QED
    BY <2>1, LedInit, OwnershipInit DEF RememberInit
<1>2. Kept /\ [RememberNext]_rememberVars => Kept'
  <2> SUFFICES ASSUME Kept, [RememberNext]_rememberVars PROVE Kept'
    OBVIOUS
  <2>1. Led'
    BY LedStep
  <2>2. CASE [LockNext]_lockVars
    BY <2>1, <2>2, LockTypeStep, OwnershipStep
  <2>3. ASSUME NEW r \in Repository, Kill(r) PROVE Kept'
    BY <2>1, <2>3, KillKeepsOwnership
  <2> QED
    BY <2>2, <2>3, RememberLocks
<1>3. Kept => LocksInv
  <2>1. Led => PendingUnderWay
    BY LockAssumption DEF Led, Named, Awaits, Leading, PendingUnderWay, CallTypes
  <2> QED
    BY <2>1 DEF LocksInv, RememberTypeOK, Led, CallTypes
<1> QED
  BY <1>1, <1>2, <1>3, PTL DEF RememberSpec
=============================================================================
