-------------------------- MODULE SqliteTransaction --------------------------
(***************************************************************************)
(* packages/database/src/sqlite-connection.ts: the requests of one process *)
(* share one SQLite handle.  Some call transaction() with a callback of    *)
(* two writes, others write outside any transaction.  A step is one        *)
(* statement.                                                              *)
(***************************************************************************)
EXTENDS Naturals

CONSTANTS
    Transactor,     \* requests that call transaction()
    PlainWriter,    \* requests that write by themselves
    NoOwner

ASSUME TransactionAssumption ==
    NoOwner \notin Transactor /\ Transactor \cap PlainWriter = {}

VARIABLES
    owner,          \* whose BEGIN opened the transaction the handle is in
    uncommitted,    \* rows written in it
    durable,        \* rows that will be there after a crash
    call,           \* where each transaction() is
    swallowed       \* history: rows of theirs written in another's

sqliteVars == <<owner, uncommitted, durable, call, swallowed>>

Rows(r) == {<<r, 1>>, <<r, 2>>}
Row == UNION {Rows(r) : r \in Transactor \cup PlainWriter}

SqliteTypeOK ==
    /\ owner \in Transactor \cup {NoOwner}
    /\ durable \subseteq Row /\ swallowed \subseteq Row
    /\ uncommitted \subseteq (IF owner = NoOwner THEN {} ELSE Row \ durable)
    /\ call \in [Transactor \cup PlainWriter ->
           {"begin", "first", "second", "commit", "rollback", "resolved", "rejected", "dead"}]

SqliteInit ==
    /\ owner = NoOwner
    /\ uncommitted = {} /\ durable = {} /\ swallowed = {}
    /\ call = [r \in Transactor \cup PlainWriter |->
                 IF r \in PlainWriter THEN "first" ELSE "begin"]

Proceed(r, to) == call' = [call EXCEPT ![r] = to]

\* A write outside a transaction commits at once.
WriteRow(row) ==
    IF owner = NoOwner
    THEN durable' = durable \cup {row} /\ UNCHANGED uncommitted
    ELSE uncommitted' = uncommitted \cup {row} /\ UNCHANGED durable

\* Mutant: BEGIN inside the try, so that its failure is rolled back too.
BeginInTry(r) ==
    /\ call[r] = "begin"
    /\ IF owner = NoOwner
       THEN owner' = r /\ Proceed(r, "first")
       ELSE Proceed(r, "rollback") /\ UNCHANGED owner
    /\ UNCHANGED <<uncommitted, durable, swallowed>>

\* BEGIN fails within a transaction, before the try: nothing is rolled back.
Begin(r) ==
    /\ call[r] = "begin"
    /\ IF owner = NoOwner
       THEN owner' = r /\ Proceed(r, "first")
       ELSE Proceed(r, "rejected") /\ UNCHANGED owner
    /\ UNCHANGED <<uncommitted, durable, swallowed>>

\* query() of the callback, or of a request without a transaction.
Write(r) ==
    /\ \/ call[r] = "first" /\ WriteRow(<<r, 1>>) /\ Proceed(r, "second")
       \/ /\ call[r] = "second" /\ WriteRow(<<r, 2>>)
          /\ Proceed(r, IF r \in PlainWriter THEN "resolved" ELSE "commit")
    /\ swallowed' = IF r \in PlainWriter /\ owner # NoOwner
                    THEN swallowed \cup (uncommitted' \cap Rows(r)) ELSE swallowed
    /\ UNCHANGED owner

\* A statement is refused, or the callback throws.
RefuseStatement(r) ==
    /\ call[r] \in {"begin", "first", "second", "commit"}
    /\ Proceed(r, IF r \in PlainWriter \/ call[r] = "begin" THEN "rejected" ELSE "rollback")
    /\ UNCHANGED <<owner, uncommitted, durable, swallowed>>

\* COMMIT commits whatever was written since BEGIN, and fails without one.
Commit(r) ==
    /\ call[r] = "commit"
    /\ IF owner = NoOwner
       THEN Proceed(r, "rollback") /\ UNCHANGED <<durable, owner, uncommitted>>
       ELSE /\ Proceed(r, "resolved")
            /\ durable' = durable \cup uncommitted
            /\ owner' = NoOwner /\ uncommitted' = {}
    /\ UNCHANGED swallowed

Rollback(r) ==
    /\ call[r] = "rollback"
    /\ Proceed(r, "rejected")
    /\ owner' = NoOwner /\ uncommitted' = {}
    /\ UNCHANGED <<durable, swallowed>>

\* The process dies.
Die ==
    /\ call' = [r \in DOMAIN call |->
           IF call[r] \in {"resolved", "rejected"} THEN call[r] ELSE "dead"]
    /\ owner' = NoOwner /\ uncommitted' = {}
    /\ UNCHANGED <<durable, swallowed>>

SqliteNext ==
    \/ \E r \in Transactor : Begin(r) \/ Commit(r) \/ Rollback(r)
    \/ \E r \in Transactor \cup PlainWriter : Write(r) \/ RefuseStatement(r)
    \/ Die

SqliteSpec == SqliteInit /\ [][SqliteNext]_sqliteVars
-----------------------------------------------------------------------------
\* Although all share a handle, both rows of a transaction are stored when
\* transaction() resolves, and neither of them when it does not.
AllOrNothing ==
    \A r \in Transactor : IF call[r] = "resolved" THEN Rows(r) \subseteq durable
                                                  ELSE Rows(r) \cap durable = {}

\* A row written outside a transaction and acknowledged is lost only when it
\* fell into the transaction of another request.
OnlySwallowedRowsAreLost ==
    \A w \in PlainWriter : call[w] = "resolved" =>
        Rows(w) \subseteq durable \cup swallowed

\* What requests that share a handle may rely on.
SqliteInv == SqliteTypeOK /\ AllOrNothing /\ OnlySwallowedRowsAreLost
=============================================================================
