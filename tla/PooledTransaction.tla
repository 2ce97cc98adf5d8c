-------------------------- MODULE PooledTransaction --------------------------
(***************************************************************************)
(* DatabaseManager.transaction() on a pooled connection                    *)
(* (packages/database/src/database-manager.ts on                           *)
(* packages/database-pg/src/postgres-connection.ts; that of MySQL is       *)
(* alike): each transaction has a client of the pool to itself, and so     *)
(* has one begun in the callback of another.  A callback writes one row,   *)
(* through the connection of its context.  A step is one request.          *)
(***************************************************************************)
EXTENDS Naturals, FiniteSets

CONSTANTS
    Request,        \* requests that call transaction()
    Nester,         \* those whose callback calls it again
    PoolClient,     \* the clients of the pool
    NoClient

ASSUME PooledAssumption ==
    /\ IsFiniteSet(Request) /\ Nester \subseteq Request
    /\ IsFiniteSet(PoolClient) /\ NoClient \notin PoolClient

VARIABLES
    phase,          \* where each transaction() is
    lent,           \* the client it has of the pool
    inTransaction,  \* clients between a BEGIN and its end
    unsaved,        \* the rows written on each client since its BEGIN
    saved,          \* rows that are committed
    unheard         \* history: transactions whose COMMIT was not answered

pooledVars == <<phase, lent, inTransaction, unsaved, saved, unheard>>

\* A request's own transaction, and the one in its callback.
Transaction == (Request \X {"outer"}) \cup (Nester \X {"inner"})

Phases == {"new", "wait", "begin", "write", "nested", "commit", "rollback",
           "resolved", "rejected"}
Ended == {"resolved", "rejected"}

PooledTypeOK ==
    /\ phase \in [Transaction -> Phases]
    /\ lent \in [Transaction -> PoolClient \cup {NoClient}]
    /\ inTransaction \subseteq PoolClient
    /\ unsaved \in [PoolClient -> SUBSET Transaction]
    /\ saved \subseteq Transaction /\ unheard \subseteq Transaction

PooledInit ==
    /\ phase = [t \in Transaction |-> "new"]
    /\ lent = [t \in Transaction |-> NoClient]
    /\ inTransaction = {}
    /\ unsaved = [p \in PoolClient |-> {}]
    /\ saved = {} /\ unheard = {}

Turns(t, from, to) == phase[t] = from /\ phase' = [phase EXCEPT ![t] = to]
-----------------------------------------------------------------------------
\* transaction() is called; the inner one by the callback, which awaits it.
CallTransaction(t) ==
    /\ phase[t] = "new" /\ (t[2] = "inner" => phase[<<t[1], "outer">>] = "write")
    /\ phase' = [u \in Transaction |->
           IF u = t THEN "wait"
           ELSE IF t[2] = "inner" /\ u = <<t[1], "outer">> THEN "nested" ELSE phase[u]]
    /\ UNCHANGED <<lent, inTransaction, unsaved, saved, unheard>>

\* pool.connect() waits for a client that nobody has.
Connects(t) ==
    \E p \in PoolClient :
        /\ \A u \in Transaction : lent[u] # p
        /\ Turns(t, "wait", "begin")
        /\ lent' = [lent EXCEPT ![t] = p]
        /\ UNCHANGED <<inTransaction, unsaved, saved, unheard>>

\* BEGIN, which is but a warning within a transaction.
BeginPooled(t) ==
    /\ Turns(t, "begin", "write")
    /\ inTransaction' = inTransaction \cup {lent[t]}
    /\ UNCHANGED <<lent, unsaved, saved, unheard>>

\* The callback writes, and returns.
WritePooled(t) ==
    /\ Turns(t, "write", "commit")
    /\ unsaved' = [unsaved EXCEPT ![lent[t]] = @ \cup {t}]
    /\ UNCHANGED <<lent, inTransaction, saved, unheard>>

\* The callback's own transaction() has ended, and its error is thrown on.
Unnest(t) ==
    /\ t[2] = "outer" /\ t[1] \in Nester
    /\ phase[<<t[1], "inner">>] \in Ended
    /\ Turns(t, "nested", IF phase[<<t[1], "inner">>] = "resolved" THEN "write" ELSE "rollback")
    /\ UNCHANGED <<lent, inTransaction, unsaved, saved, unheard>>

\* The finally: the client goes back to the pool.
ReleaseClient(t) == lent' = [lent EXCEPT ![t] = NoClient]

\* Whatever was written on the client since BEGIN is stored.
CommitClient(t) ==
    /\ saved' = saved \cup unsaved[lent[t]]
    /\ unsaved' = [unsaved EXCEPT ![lent[t]] = {}]
    /\ inTransaction' = inTransaction \ {lent[t]}

CommitPooled(t) ==
    /\ Turns(t, "commit", "resolved")
    /\ CommitClient(t) /\ ReleaseClient(t)
    /\ UNCHANGED unheard

\* The connection is lost behind the COMMIT: transaction() throws.
CommitUnheard(t) ==
    /\ Turns(t, "commit", "rollback")
    /\ CommitClient(t)
    /\ unheard' = unheard \cup {t}
    /\ UNCHANGED lent

\* A statement is refused, or the callback throws.
FailsPooled(t) ==
    /\ phase[t] \in {"begin", "write", "commit"}
    /\ Turns(t, phase[t], "rollback")
    /\ UNCHANGED <<lent, inTransaction, unsaved, saved, unheard>>

\* Mutant: no finally, the client of a transaction that failed is not released.
RollbackKeeps(t) ==
    /\ Turns(t, "rollback", "rejected")
    /\ unsaved' = [unsaved EXCEPT ![lent[t]] = {}]
    /\ inTransaction' = inTransaction \ {lent[t]}
    /\ UNCHANGED <<lent, saved, unheard>>

\* Mutant: the client goes back to the pool as it is.
RollbackNot(t) ==
    /\ Turns(t, "rollback", "rejected")
    /\ ReleaseClient(t)
    /\ UNCHANGED <<inTransaction, unsaved, saved, unheard>>

\* The catch and the finally.  A client whose connection is lost leaves the
\* pool, which is as good as one that was rolled back.
RollbackPooled(t) ==
    /\ Turns(t, "rollback", "rejected")
    /\ unsaved' = [unsaved EXCEPT ![lent[t]] = {}]
    /\ inTransaction' = inTransaction \ {lent[t]}
    /\ ReleaseClient(t)
    /\ UNCHANGED <<saved, unheard>>

PooledStep(t) ==
    \/ CallTransaction(t) \/ Connects(t) \/ BeginPooled(t) \/ WritePooled(t) \/ Unnest(t)
    \/ CommitPooled(t) \/ CommitUnheard(t) \/ FailsPooled(t) \/ RollbackPooled(t)

PooledNext == \E t \in Transaction : PooledStep(t)

\* The database answers, callbacks end.
PooledGoesOn(t) == phase[t] # "new" /\ PooledStep(t)

PooledSpec == PooledInit /\ [][PooledNext]_pooledVars
              /\ \A t \in Transaction : WF_pooledVars(PooledGoesOn(t))
-----------------------------------------------------------------------------
\* What a transaction wrote is stored just when it resolved, or when the
\* answer to its COMMIT was lost; the inner one of a callback on its own,
\* whatever becomes of the outer one.  A client is free of any transaction
\* when the next one gets it.
PooledAllOrNothing ==
    /\ \A t \in Transaction :
          t \in saved <=> phase[t] = "resolved" \/ t \in unheard
    /\ \A p \in PoolClient : (\A t \in Transaction : lent[t] # p) =>
          p \notin inTransaction /\ unsaved[p] = {}

\* Every transaction() ends, as long as fewer requests than the pool has
\* clients hold one while they wait for another.
TransactionsEnd ==
    Cardinality(Nester) < Cardinality(PoolClient) =>
        \A t \in Transaction : phase[t] = "wait" ~> phase[t] \in Ended

\* What requests that share a pool may rely on.
PooledInv == PooledTypeOK /\ PooledAllOrNothing
=============================================================================
