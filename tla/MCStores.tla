------------------------------ MODULE MCStores ------------------------------
(***************************************************************************)
(* What keeps state outside a request: the array and file stores of the    *)
(* cache with the lock, remember() in one process, tags and files on them, *)
(* the transactions and migrations of the database, the sessions, the      *)
(* throttle and the trail of the debug bar.  They share nothing: a         *)
(* behaviour is one of a single part, and all others stay as they began.   *)
(***************************************************************************)
EXTENDS Remember, TaggedCache, FileStore, SqliteTransaction, PooledTransaction,
        Migrator, SessionStore, Throttle, DebugTrail

CONSTANTS t1, t2

OneRepository == [c \in Client |-> CHOOSE r \in Repository : TRUE]

BothTags == {{t1, t2}}

VARIABLE part

storesVars == <<rememberVars, tagVars, fileVars, sqliteVars, pooledVars,
                migratorVars, sessionVars, throttleVars, trailVars, part>>

Parts == {"lock", "remember", "tags", "files", "sqlite", "pooled", "migrations",
          "sessions", "throttle", "trail"}

StoresInit ==
    /\ RememberInit /\ TagInit /\ FileInit /\ SqliteInit /\ PooledInit
    /\ MigratorInit /\ SessionInit /\ ThrottleInit /\ TrailInit
    /\ part \in Parts
    /\ part # "throttle" => handsOut
    /\ part # "sessions" => recognised

CacheNext ==
    \/ part = "lock" /\ LockNext /\ UNCHANGED <<cached, callVars, pending>>
    \/ part = "remember" /\ RememberNext

StoresNext ==
    /\ UNCHANGED part
    /\ IF part \in {"lock", "remember"} THEN CacheNext ELSE UNCHANGED rememberVars
    /\ IF part = "tags" THEN TagNext ELSE UNCHANGED tagVars
    /\ IF part = "files" THEN FileNext ELSE UNCHANGED fileVars
    /\ IF part = "sqlite" THEN SqliteNext ELSE UNCHANGED sqliteVars
    /\ IF part = "pooled" THEN PooledNext ELSE UNCHANGED pooledVars
    /\ IF part = "migrations" THEN MigratorNext ELSE UNCHANGED migratorVars
    /\ IF part = "sessions" THEN SessionNext ELSE UNCHANGED sessionVars
    /\ IF part = "throttle" THEN ThrottleNext ELSE UNCHANGED throttleVars
    /\ IF part = "trail" THEN TrailNext ELSE UNCHANGED trailVars

\* Leases end, a release() once begun goes on, the database answers, writes of
\* the trail and its watcher go on.
StoresSpec ==
    /\ StoresInit /\ [][StoresNext]_storesVars
    /\ WF_lockVars(part \in {"lock", "remember"} /\ Expire)
    /\ \A c \in Client : WF_lockVars(part = "lock" /\ ReleaseForget(c))
    /\ \A t \in Transaction : WF_pooledVars(part = "pooled" /\ PooledGoesOn(t))
    /\ WF_trailVars(part = "trail" /\ TrailStep)
-----------------------------------------------------------------------------
\* What was put stays in the files of the cache, in the lists of its tags and
\* in the trail's file, unless calls overlap in the ways each part names; a
\* flush by tags is complete.
StoredInv == FileInv /\ TagsInv /\ TrailInv

\* The writes of a transaction take effect all or not at all, on one handle
\* and on a pool of clients, and other writes are lost only within one.
TransactionsInv == SqliteInv /\ PooledInv
=============================================================================
