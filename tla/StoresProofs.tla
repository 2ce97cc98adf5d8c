---------------------------- MODULE StoresProofs ----------------------------
(***************************************************************************)
(* Proofs about the parts of MCStores, each for itself and then in their   *)
(* common behaviours: for every number of requests, processes and keys.    *)
(***************************************************************************)
EXTENDS MCStores, TLAPS, FiniteSetTheorems, SequenceTheorems, WellFoundedInduction

(***************************************************************************)
(* Sessions (module SessionStore).                                         *)
(***************************************************************************)

\* A write that is to retry lost its row to a removal, a read that is to
\* destroy a live session found it outdated; a read has looks left, and who
\* put the row there has written.
SessionsSafe ==
    /\ SessionTypeOK /\ WritesGetThrough
    /\ session # NoRow => write[session] = "written"
    /\ \A w \in Writer : write[w] = "retry" => recognised
    /\ \A w \in Writer : write[w] = "retry" /\ session = NoRow => w \in robbed
    /\ \A r \in Reader : /\ read[r] = "expired" /\ session # NoRow /\ ~outdated =>
                                r \in betrayed
                         /\ read[r] = "look" => looks[r] >= 1

LEMMA SessionsInit == SessionInit => SessionsSafe
<1> SUFFICES ASSUME SessionInit PROVE SessionsSafe
  OBVIOUS
<1>1. SessionTypeOK
  <2>1. destroys \in 0 .. MaxDestroys
    BY SessionAssumption DEF SessionInit
  <2>2. looks \in [Reader -> 0 .. READ_ATTEMPTS]
    BY DEF SessionInit, READ_ATTEMPTS
  <2> QED
    BY <2>1, <2>2 DEF SessionInit, SessionTypeOK
<1>2. \A r \in Reader : read[r] = "look" /\ looks[r] >= 1
  BY DEF SessionInit, READ_ATTEMPTS
<1>3. session = NoRow /\ \A w \in Writer : write[w] = "update"
  BY DEF SessionInit
<1> QED
  BY <1>1, <1>2, <1>3 DEF SessionsSafe, WritesGetThrough

LEMMA SessionsStep == SessionsSafe /\ [SessionNext]_sessionVars => SessionsSafe'
<1> SUFFICES ASSUME SessionsSafe, [SessionNext]_sessionVars PROVE SessionsSafe'
  OBVIOUS
<1>a. SessionTypeOK /\ WritesGetThrough
  BY DEF SessionsSafe
<1>1. ASSUME NEW w \in Writer, UpdateSession(w) \/ InsertSession(w) \/ RetryUpdate(w)
      PROVE  SessionsSafe'
  <2>1. SaveRow(w) => session' # NoRow
    BY SessionAssumption DEF SaveRow
  <2>2. \E to \in {"written", "insert", "retry", "threw"} :
          /\ write' = [write EXCEPT ![w] = to] /\ write[w] \in {"update", "insert", "retry"}
          /\ IF to = "written" THEN SaveRow(w) ELSE KeepRow
          /\ to = "retry" => session # NoRow /\ recognised
          /\ to = "threw" => IF recognised THEN write[w] = "retry" /\ session = NoRow
                             ELSE session # NoRow
    <3>1. write[w] = "retry" => recognised
      BY DEF SessionsSafe
    <3> QED
      BY <1>1, <3>1 DEF UpdateSession, InsertSession, RetryUpdate, Writes
  <2>3. UNCHANGED <<read, looks, destroys, recognised, robbed>>
    BY <1>1 DEF UpdateSession, InsertSession, RetryUpdate
  <2>4. PICK to \in {"written", "insert", "retry", "threw"} :
          /\ write' = [write EXCEPT ![w] = to] /\ write[w] \in {"update", "insert", "retry"}
          /\ IF to = "written" THEN SaveRow(w) ELSE KeepRow
          /\ to = "retry" => session # NoRow /\ recognised
          /\ to = "threw" => IF recognised THEN write[w] = "retry" /\ session = NoRow
                             ELSE session # NoRow
    BY <2>2
  <2>5. SessionTypeOK'
    BY <1>a, <2>3, <2>4 DEF SessionTypeOK, SaveRow, KeepRow
  <2>6. /\ \A v \in Writer : write'[v] = IF v = w THEN to ELSE write[v]
        /\ session \in Writer \cup {NoRow} /\ write'[w] = to
    BY <1>a, <2>4 DEF SessionTypeOK
  <2>7. WritesGetThrough'
    <3> SUFFICES ASSUME NEW v \in Writer, write'[v] = "threw"
                 PROVE  IF recognised THEN v \in robbed ELSE \E u \in Writer \ {v} : write'[u] = "written"
      BY <2>3 DEF WritesGetThrough
    <3>1. CASE v = w
      <4>1. recognised => v \in robbed
        BY <3>1, <2>4, <2>6 DEF SessionsSafe
      <4>2. ~recognised => session \in Writer \ {v} /\ write'[session] = "written"
        BY <3>1, <2>4, <2>6 DEF SessionsSafe
      <4> QED
        BY <4>1, <4>2
    <3>2. CASE v # w
      <4>1. write[v] = "threw"
        BY <3>2, <2>6
      <4>2. ASSUME NEW u \in Writer, write[u] = "written" PROVE write'[u] = "written"
        BY <4>2, <2>4, <2>6
      <4> QED
        BY <1>a, <4>1, <4>2 DEF WritesGetThrough
    <3> QED
      BY <3>1, <3>2
  <2>8. session' # NoRow => write'[session'] = "written"
    BY <2>4, <2>6 DEF SaveRow, KeepRow, SessionsSafe
  <2>9. \A v \in Writer : write'[v] = "retry" => recognised'
    BY <2>3, <2>4, <2>6 DEF SessionsSafe
  <2>10. \A v \in Writer : write'[v] = "retry" /\ session' = NoRow => v \in robbed'
    BY <2>1, <2>3, <2>4, <2>6 DEF SessionsSafe, KeepRow
  <2>11. \A r \in Reader : /\ read'[r] = "expired" /\ session' # NoRow /\ ~outdated' =>
                                  r \in betrayed'
                           /\ read'[r] = "look" => looks'[r] >= 1
    BY <2>3, <2>4 DEF SessionsSafe, SaveRow, KeepRow
  <2> QED
    BY <2>5, <2>7, <2>8, <2>9, <2>10, <2>11, Zenon DEF SessionsSafe
<1>2. ASSUME NEW r \in Reader, Look(r) PROVE SessionsSafe'
  <2>1. looks[r] \in 1 .. READ_ATTEMPTS
    BY <1>2, <1>a DEF SessionsSafe, Look, SessionTypeOK, READ_ATTEMPTS
  <2>2. looks' \in [Reader -> 0 .. READ_ATTEMPTS]
    BY <1>2, <1>a, <2>1 DEF Look, SessionTypeOK, READ_ATTEMPTS
  <2>3. WritesGetThrough'
    BY <1>2, <1>a DEF Look, WritesGetThrough
  <2> QED
    BY <1>2, <1>a, <2>1, <2>2, <2>3 DEF SessionsSafe, Look, SessionTypeOK, READ_ATTEMPTS
<1>3. CASE RemoveRow /\ UNCHANGED <<write, looks, recognised>> /\ destroys' \in 0 .. MaxDestroys
           /\ read' \in [Reader -> {"look", "expired", "returned"}]
           /\ \A r \in Reader : read'[r] = "look" => read[r] = "look"
  <2>1. WritesGetThrough'
    <3>1. robbed \subseteq robbed' /\ UNCHANGED <<write, recognised>>
      BY <1>3 DEF RemoveRow
    <3>2. ASSUME NEW w \in Writer, write'[w] = "threw"
          PROVE  IF recognised' THEN w \in robbed' ELSE \E v \in Writer \ {w} : write'[v] = "written"
      <4>1. IF recognised THEN w \in robbed ELSE \E v \in Writer \ {w} : write[v] = "written"
        BY <1>a, <3>1, <3>2 DEF WritesGetThrough
      <4> QED
        BY <3>1, <4>1
    <3> QED
      BY <3>2 DEF WritesGetThrough
  <2>2. \A w \in Writer : write'[w] = "retry" => recognised'
    BY <1>3 DEF SessionsSafe
  <2>3. SessionTypeOK'
    BY <1>3, <1>a DEF RemoveRow, SessionTypeOK
  <2>4. \A w \in Writer : write'[w] = "retry" /\ session' = NoRow => w \in robbed'
    BY <1>3 DEF RemoveRow
  <2>5. session' = NoRow
    BY <1>3 DEF RemoveRow
  <2>6. \A r \in Reader : read'[r] = "look" => looks'[r] >= 1
    BY <1>3 DEF SessionsSafe
  <2> QED
    BY <2>1, <2>2, <2>3, <2>4, <2>5, <2>6, Zenon DEF SessionsSafe
<1>4. CASE LifetimeEnds \/ UNCHANGED sessionVars
  <2>1. WritesGetThrough'
    BY <1>4, <1>a DEF LifetimeEnds, sessionVars, WritesGetThrough
  <2> QED
    BY <1>4, <1>a, <2>1 DEF SessionsSafe, LifetimeEnds, sessionVars, SessionTypeOK
<1>5. \A r \in Reader : DestroyExpired(r) =>
          RemoveRow /\ UNCHANGED <<write, looks, recognised>> /\ destroys' \in 0 .. MaxDestroys
          /\ read' \in [Reader -> {"look", "expired", "returned"}]
          /\ \A q \in Reader : read'[q] = "look" => read[q] = "look"
  BY <1>a DEF DestroyExpired, SessionTypeOK
<1>6. DestroySession \/ PruneExpired =>
          RemoveRow /\ UNCHANGED <<write, looks, recognised>> /\ destroys' \in 0 .. MaxDestroys
          /\ read' \in [Reader -> {"look", "expired", "returned"}]
          /\ \A q \in Reader : read'[q] = "look" => read[q] = "look"
  BY <1>a, SessionAssumption DEF DestroySession, PruneExpired, SessionTypeOK
<1> QED
  BY <1>1, <1>2, <1>3, <1>4, <1>5, <1>6 DEF SessionNext

LEMMA LiveSessionsStep ==
    ASSUME SessionsSafe, [SessionNext]_sessionVars,
           session # NoRow, ~outdated, session' = NoRow
    PROVE  destroys' > destroys \/ \E r \in betrayed : read'[r] # read[r]
<1>1. ASSUME NEW w \in Writer, UpdateSession(w) \/ InsertSession(w) \/ RetryUpdate(w) PROVE FALSE
  BY <1>1, SessionAssumption DEF UpdateSession, InsertSession, RetryUpdate, SaveRow, KeepRow
<1>2. ASSUME NEW r \in Reader, DestroyExpired(r) PROVE r \in betrayed /\ read'[r] # read[r]
  BY <1>2 DEF SessionsSafe, SessionTypeOK, DestroyExpired
<1>3. DestroySession => destroys' > destroys
  BY DEF DestroySession, SessionsSafe, SessionTypeOK
<1> QED
  BY <1>1, <1>2, <1>3 DEF SessionNext, Look, PruneExpired, LifetimeEnds, sessionVars

\* Two first writes of a session do not fail each other where the database's
\* error is recognised, and a live session goes by destroy() alone, or with a
\* read() that found it outdated just before it was written: for any number of
\* requests.
THEOREM SessionsKept == SessionSpec => SessionsAreKept
<1>1. SessionsSafe /\ [SessionNext]_sessionVars =>
          [session # NoRow /\ ~outdated /\ session' = NoRow =>
              destroys' > destroys \/ \E r \in betrayed : read'[r] # read[r]]_sessionVars
  BY LiveSessionsStep
<1>2. SessionsSafe => SessionTypeOK /\ WritesGetThrough
  BY DEF SessionsSafe
<1> QED
  BY <1>1, <1>2, SessionsInit, SessionsStep, PTL DEF SessionSpec, SessionsAreKept, LiveSessionsStay
-----------------------------------------------------------------------------
(***************************************************************************)
(* Transactions on one handle (module SqliteTransaction).                  *)
(***************************************************************************)
InBlock == {"first", "second", "commit", "rollback"}

\* The transaction the handle is in is that of the one request inside its
\* block, and holds what this one wrote so far and nothing of the others.
SqliteCall(r) ==
    /\ call[r] = "first" => Rows(r) \cap (durable \cup uncommitted) = {}
    /\ call[r] = "second" => <<r, 2>> \notin durable \cup uncommitted
    /\ r \in Transactor =>
        /\ owner = r <=> call[r] \in InBlock
        /\ owner # r => Rows(r) \cap uncommitted = {}
        /\ call[r] = "second" => <<r, 1>> \in uncommitted
        /\ call[r] = "commit" => Rows(r) \subseteq uncommitted
        /\ IF call[r] = "resolved" THEN Rows(r) \subseteq durable
                                   ELSE Rows(r) \cap durable = {}
    /\ r \in PlainWriter =>
        /\ call[r] = "second" => <<r, 1>> \in durable \cup swallowed
        /\ call[r] = "resolved" => Rows(r) \subseteq durable \cup swallowed
        /\ call[r] \notin {"begin", "commit", "rollback"}

SqliteSafe == SqliteTypeOK /\ \A r \in Transactor \cup PlainWriter : SqliteCall(r)

LEMMA RowsOf ==
    ASSUME NEW r
    PROVE  /\ Rows(r) = {<<r, 1>>, <<r, 2>>}
           /\ r \in Transactor \cup PlainWriter => Rows(r) \subseteq Row
           /\ \A q : q # r => Rows(q) \cap Rows(r) = {}
BY DEF Rows, Row

LEMMA SqliteStarts == SqliteInit => SqliteSafe
<1> SUFFICES ASSUME SqliteInit PROVE SqliteSafe
  OBVIOUS
<1>1. SqliteTypeOK
  BY DEF SqliteInit, SqliteTypeOK
<1>2. ASSUME NEW r \in Transactor \cup PlainWriter PROVE SqliteCall(r)
  BY TransactionAssumption DEF SqliteInit, SqliteCall, InBlock
<1> QED
  BY <1>1, <1>2 DEF SqliteSafe

LEMMA SqliteStep == SqliteSafe /\ [SqliteNext]_sqliteVars => SqliteSafe'
<1> SUFFICES ASSUME SqliteSafe, [SqliteNext]_sqliteVars PROVE SqliteSafe'
  OBVIOUS
<1> DEFINE Someone == Transactor \cup PlainWriter
<1>a. SqliteTypeOK /\ \A r \in Someone : SqliteCall(r)
  BY DEF SqliteSafe
<1>1. ASSUME NEW r \in Transactor, Begin(r) PROVE SqliteSafe'
  <2>1. SqliteTypeOK'
    BY <1>a, <1>1, TransactionAssumption DEF Begin, Proceed, SqliteTypeOK
  <2>2. ASSUME NEW q \in Someone PROVE SqliteCall(q)'
    <3>1. SqliteCall(q)
      BY <1>a
    <3>2. call'[q] = call[q] \/ (q = r /\ call'[q] \in {"first", "rejected"})
      <4>1. PICK to \in {"first", "rejected"} : call' = [call EXCEPT ![r] = to]
        BY <1>1 DEF Begin, Proceed
      <4> QED
        BY <1>a, <4>1 DEF SqliteTypeOK
    <3>3. UNCHANGED <<uncommitted, durable, swallowed>>
      BY <1>1 DEF Begin
    <3>4. CASE q \in Transactor
      <4>1. q \notin PlainWriter
        BY <3>4, TransactionAssumption
      <4>2. call'[q] \notin {"second", "commit", "resolved"} \/ call'[q] = call[q]
        BY <3>2
      <4>3. call'[q] = "first" => Rows(q) \cap (durable \cup uncommitted) = {}
        BY <1>a, <1>1, <3>1, <3>4, TransactionAssumption
           DEF Begin, Proceed, SqliteTypeOK, SqliteCall
      <4>4. (owner' = q <=> call'[q] \in InBlock) /\ (owner' # q => Rows(q) \cap uncommitted = {})
        BY <1>a, <1>1, <3>1, <3>4, TransactionAssumption
           DEF Begin, Proceed, SqliteTypeOK, SqliteCall, InBlock
      <4>5. IF call'[q] = "resolved" THEN Rows(q) \subseteq durable
                                    ELSE Rows(q) \cap durable = {}
        BY <1>1, <3>1, <3>2, <3>4 DEF Begin, SqliteCall
      <4> QED
        BY <3>1, <3>3, <4>1, <4>2, <4>3, <4>4, <4>5 DEF SqliteCall
    <3>5. CASE q \notin Transactor
      BY <3>1, <3>2, <3>3, <3>5 DEF SqliteCall
    <3> QED
      BY <3>4, <3>5
  <2> QED
    BY <2>1, <2>2 DEF SqliteSafe
<1>2. ASSUME NEW r \in Someone, Write(r) PROVE SqliteSafe'
  <2>1. PICK i \in {1, 2} :
          /\ call[r] = (IF i = 1 THEN "first" ELSE "second")
          /\ call'[r] = IF i = 1 THEN "second"
                        ELSE IF r \in PlainWriter THEN "resolved" ELSE "commit"
          /\ IF owner = NoOwner
             THEN durable' = durable \cup {<<r, i>>} /\ uncommitted' = uncommitted
             ELSE uncommitted' = uncommitted \cup {<<r, i>>} /\ durable' = durable
    BY <1>a, <1>2 DEF Write, WriteRow, Proceed, SqliteTypeOK
  <2>2. /\ owner' = owner
        /\ \A q \in Someone : q # r => call'[q] = call[q]
        /\ r \in Transactor => owner = r /\ owner # NoOwner /\ r \notin PlainWriter
        /\ <<r, i>> \in Row /\ <<r, i>> \in Rows(r) /\ <<r, i>> \notin durable
    <3>1. owner' = owner /\ \A q \in Someone : q # r => call'[q] = call[q]
      BY <1>a, <1>2 DEF Write, Proceed, SqliteTypeOK
    <3>2. r \in Transactor => owner = r /\ owner # NoOwner /\ r \notin PlainWriter
      BY <1>a, <2>1, TransactionAssumption DEF SqliteCall, InBlock
    <3>3. /\ call[r] = "first" => <<r, 1>> \notin durable
          /\ call[r] = "second" => <<r, 2>> \notin durable
      BY <1>a, RowsOf DEF SqliteCall
    <3>4. <<r, i>> \in Rows(r) /\ Rows(r) \subseteq Row
      BY <2>1, RowsOf
    <3>5. <<r, i>> \notin durable
      BY <2>1, <3>3
    <3> QED
      BY <3>1, <3>2, <3>4, <3>5
  <2>3. /\ swallowed \subseteq swallowed' /\ swallowed' \subseteq swallowed \cup Rows(r)
        /\ r \in PlainWriter => <<r, i>> \in durable' \cup swallowed'
    BY <1>2, <2>1, <2>2 DEF Write
  <2>4. SqliteTypeOK'
    <3>1. call' \in [Someone ->
           {"begin", "first", "second", "commit", "rollback", "resolved", "rejected", "dead"}]
      BY <1>a, <1>2 DEF Write, Proceed, SqliteTypeOK
    <3>2. durable' \subseteq Row /\ swallowed' \subseteq Row
      BY <1>a, <2>1, <2>2, <2>3, RowsOf DEF SqliteTypeOK
    <3>3. uncommitted' \subseteq (IF owner = NoOwner THEN {} ELSE Row \ durable')
      BY <1>a, <2>1, <2>2 DEF SqliteTypeOK
    <3> QED
      BY <1>a, <2>2, <3>1, <3>2, <3>3 DEF SqliteTypeOK
  <2>5. ASSUME NEW q \in Someone, q # r PROVE SqliteCall(q)'
    <3>1. SqliteCall(q) /\ call'[q] = call[q] /\ Rows(q) \cap Rows(r) = {} /\ owner' = owner
      BY <1>a, <2>2, <2>5, RowsOf
    <3>2. /\ Rows(q) \cap durable' = Rows(q) \cap durable
          /\ Rows(q) \cap uncommitted' = Rows(q) \cap uncommitted
          /\ <<q, 1>> \in Rows(q) /\ <<q, 2>> \in Rows(q)
      BY <2>1, <2>2, <3>1, RowsOf
    <3> QED
      BY <2>3, <3>1, <3>2 DEF SqliteCall
  <2>6. SqliteCall(r)'
    <3>1. SqliteCall(r) /\ Rows(r) = {<<r, 1>>, <<r, 2>>} /\ <<r, 1>> # <<r, 2>>
      BY <1>a, RowsOf
    <3>2. CASE r \in Transactor
      BY <2>1, <2>2, <3>1, <3>2 DEF SqliteCall, InBlock
    <3>3. CASE r \notin Transactor
      BY <2>1, <2>3, <3>1, <3>3 DEF SqliteCall
    <3> QED
      BY <3>2, <3>3
  <2> QED
    BY <2>4, <2>5, <2>6 DEF SqliteSafe
<1>3. ASSUME NEW r \in Someone, RefuseStatement(r) PROVE SqliteSafe'
  <2>1. SqliteTypeOK'
    BY <1>a, <1>3 DEF RefuseStatement, Proceed, SqliteTypeOK
  <2>2. ASSUME NEW q \in Someone PROVE SqliteCall(q)'
    BY <1>a, <1>3, TransactionAssumption
       DEF RefuseStatement, Proceed, SqliteTypeOK, SqliteCall, InBlock
  <2> QED
    BY <2>1, <2>2 DEF SqliteSafe
<1>4. ASSUME NEW r \in Transactor, Commit(r) PROVE SqliteSafe'
  <2>1. /\ call[r] = "commit" /\ call' = [call EXCEPT ![r] = "resolved"]
        /\ owner = r /\ owner' = NoOwner /\ uncommitted' = {} /\ swallowed' = swallowed
        /\ durable' = durable \cup uncommitted
    BY <1>a, <1>4, TransactionAssumption DEF Commit, Proceed, SqliteCall, InBlock
  <2>2. SqliteTypeOK'
    BY <1>a, <2>1, TransactionAssumption DEF SqliteTypeOK
  <2>3. ASSUME NEW q \in Someone PROVE SqliteCall(q)'
    <3>1. SqliteCall(q)
      BY <1>a
    <3>2. CASE q = r
      BY <1>a, <2>1, <3>1, <3>2, TransactionAssumption DEF SqliteTypeOK, SqliteCall, InBlock
    <3>3. CASE q # r
      <4>1. call'[q] = call[q]
        BY <1>a, <2>1, <3>3 DEF SqliteTypeOK
      <4>2. q \in Transactor => Rows(q) \cap uncommitted = {} /\ owner # q /\ owner' # q
        BY <2>1, <3>1, <3>3, TransactionAssumption DEF SqliteCall
      <4>3. /\ durable' \cup uncommitted' = durable \cup uncommitted
            /\ durable \subseteq durable' /\ uncommitted' = {}
        BY <2>1
      <4>4. CASE q \in Transactor
        <5>1. q \notin PlainWriter /\ Rows(q) \cap durable' = Rows(q) \cap durable
              /\ call[q] \notin InBlock
          BY <2>1, <3>1, <4>2, <4>4, TransactionAssumption DEF SqliteCall
        <5> QED
          BY <3>1, <4>1, <4>2, <4>3, <4>4, <5>1 DEF SqliteCall, InBlock
      <4>5. CASE q \notin Transactor
        BY <2>1, <3>1, <4>1, <4>3, <4>5 DEF SqliteCall
      <4> QED
        BY <4>4, <4>5
    <3> QED
      BY <3>2, <3>3
  <2> QED
    BY <2>2, <2>3 DEF SqliteSafe
<1>5. ASSUME NEW r \in Transactor, Rollback(r) PROVE SqliteSafe'
  <2>1. SqliteTypeOK'
    BY <1>a, <1>5, TransactionAssumption DEF Rollback, Proceed, SqliteTypeOK
  <2>2. owner = r
    BY <1>a, <1>5 DEF Rollback, SqliteCall, InBlock
  <2>3. ASSUME NEW q \in Someone PROVE SqliteCall(q)'
    BY <1>a, <1>5, <2>2, TransactionAssumption
       DEF Rollback, Proceed, SqliteTypeOK, SqliteCall, InBlock
  <2> QED
    BY <2>1, <2>3 DEF SqliteSafe
<1>6. CASE Die
  <2>1. SqliteTypeOK'
    BY <1>a, <1>6, TransactionAssumption DEF Die, SqliteTypeOK
  <2>2. ASSUME NEW q \in Someone PROVE SqliteCall(q)'
    BY <1>a, <1>6, TransactionAssumption DEF Die, SqliteTypeOK, SqliteCall, InBlock
  <2> QED
    BY <2>1, <2>2 DEF SqliteSafe
<1>7. CASE UNCHANGED sqliteVars
  BY <1>a, <1>7 DEF sqliteVars, SqliteSafe, SqliteTypeOK, SqliteCall
<1> QED
  BY <1>1, <1>2, <1>3, <1>4, <1>5, <1>6, <1>7 DEF SqliteNext

LEMMA SqliteSafety == SqliteSafe => SqliteInv
BY DEF SqliteSafe, SqliteInv, SqliteCall, AllOrNothing, OnlySwallowedRowsAreLost

\* However requests interleave on the handle they share, whatever is refused
\* and whenever the process dies, a transaction is stored just when it
\* resolved, and other rows are lost only in a transaction they fell into.
THEOREM SqliteIsSafe == SqliteSpec => []SqliteInv
BY SqliteStarts, SqliteStep, SqliteSafety, PTL DEF SqliteSpec
-----------------------------------------------------------------------------
(***************************************************************************)
(* The file of a key (module FileStore).                                   *)
(***************************************************************************)

\* A write that met no other call that may undo it is alone with its file,
\* and whoever is about to remove the file takes nothing the cache owes.
FilesSafe ==
    /\ FileTypeOK /\ PutsStay
    /\ ~shaky => \A c \in FileUser : doing[c] = "write" =>
                     c \in linked /\ file = Garbled /\ ~Others(c, {"remove", "write"})
    /\ expired \/ (\E c \in FileUser : doing[c] = "remove") => answer = NoFile \/ shaky

LEMMA FilesInit == FileInit => FilesSafe
BY FileAssumption DEF FileInit, FilesSafe, FileTypeOK, PutsStay

LEMMA FilesStep == FilesSafe /\ [FileNext]_fileVars => FilesSafe'
<1> SUFFICES ASSUME FilesSafe, [FileNext]_fileVars PROVE FilesSafe'
  OBVIOUS
<1>a. FileTypeOK /\ PutsStay
  BY DEF FilesSafe
<1> USE FileAssumption
<1>1. ASSUME NEW c \in FileUser, GetExpired(c) PROVE FilesSafe'
  BY <1>1, <1>a DEF FilesSafe, GetExpired, Turn, Others, FileTypeOK, PutsStay
<1>2. ASSUME NEW c \in FileUser, RemoveFile(c) PROVE FilesSafe'
  BY <1>2, <1>a DEF FilesSafe, RemoveFile, Unlinks, Turn, Others, FileTypeOK, PutsStay
<1>3. ASSUME NEW c \in FileUser, Open(c) PROVE FilesSafe'
  BY <1>3, <1>a DEF FilesSafe, Open, Turn, Others, FileTypeOK, PutsStay
<1>4. ASSUME NEW c \in FileUser, WriteFile(c) PROVE FilesSafe'
  BY <1>4, <1>a DEF FilesSafe, WriteFile, Turn, Others, FileTypeOK, PutsStay
<1>5. ASSUME NEW c \in FileUser, ForgetFile(c) PROVE FilesSafe'
  BY <1>5, <1>a DEF FilesSafe, ForgetFile, Unlinks, Turn, Others, FileTypeOK, PutsStay
<1>6. ASSUME NEW c \in FileUser, KillFileUser(c) PROVE FilesSafe'
  BY <1>6, <1>a DEF FilesSafe, KillFileUser, Turn, Others, FileTypeOK, PutsStay
<1>7. ASSUME NEW c \in FileUser, NEW adds \in BOOLEAN, StartPut(c, adds) PROVE FilesSafe'
  BY <1>7, <1>a DEF FilesSafe, StartPut, Turn, Others, FileTypeOK, PutsStay
<1>8. CASE PassTime
  BY <1>8, <1>a DEF FilesSafe, PassTime, Turn, Others, FileTypeOK, PutsStay
<1>9. CASE UNCHANGED fileVars
  BY <1>9, <1>a DEF FilesSafe, fileVars, Others, FileTypeOK, PutsStay
<1>10. CASE FlushFiles
  BY <1>10, <1>a DEF FilesSafe, FlushFiles, Others, FileTypeOK, PutsStay
<1> QED
  BY <1>1, <1>2, <1>3, <1>4, <1>5, <1>6, <1>7, <1>8, <1>9, <1>10 DEF FileNext

\* What put() acknowledged stays until it expires, is put over, forgotten or
\* flushed, unless it met a call that may undo it: for any number of processes.
THEOREM PutsAreKept == FileSpec => []FileInv
<1>1. FilesSafe => FileInv
  BY DEF FilesSafe, FileInv
<1> QED
  BY <1>1, FilesInit, FilesStep, PTL DEF FileSpec
-----------------------------------------------------------------------------
(***************************************************************************)
(* The trail of the debug bar (module DebugTrail).                         *)
(***************************************************************************)

\* As long as no two writes overlap, the one under way has the text of what
\* memory holds, from mkdir() on.
TrailSafe ==
    /\ TrailInv
    /\ saw \in BoundedSeq(Entry, maxEntries) \cup {Empty, Torn}
    /\ text \in [TrailWrite -> BoundedSeq(Entry, maxEntries)]
    /\ ~mixed =>
        /\ \A v, w \in TrailWrite : UnderWay(v) /\ UnderWay(w) => v = w
        /\ \A w \in TrailWrite :
              /\ writing[w] \in {"open", "write"} => text[w] = entries
              /\ writing[w] = "write" => trailFile = Empty
              /\ w = Clearing /\ UnderWay(w) => entries = <<>>

LEMMA EmptyTrail == <<>> \in BoundedSeq(Entry, maxEntries)
<1>1. 0 \in 0 .. maxEntries /\ <<>> \in [1 .. 0 -> Entry]
  BY TrailAssumption
<1> QED
  BY <1>1 DEF BoundedSeq, SeqOf

LEMMA NewestBounded ==
    ASSUME NEW s \in BoundedSeq(Entry, maxEntries), NEW e \in Entry
    PROVE  Newest(<<e>> \o s) \in BoundedSeq(Entry, maxEntries)
<1>1. PICK m \in 0 .. maxEntries : s \in [1 .. m -> Entry]
  BY DEF BoundedSeq, SeqOf
<1>2. s \in Seq(Entry) /\ Len(s) = m /\ <<e>> \in Seq(Entry)
  BY <1>1
<1>3. PICK t : t = <<e>> \o s
  OBVIOUS
<1>4. t \in Seq(Entry) /\ Len(t) = m + 1
  BY <1>2, <1>3
<1>5. CASE m + 1 > maxEntries
  <2>1. m = maxEntries /\ maxEntries \in Nat \ {0}
    BY <1>1, <1>5, TrailAssumption
  <2>2. \A i \in 1 .. maxEntries : t[i] \in Entry
    BY <1>4, <2>1, ElementOfSeq
  <2>3. /\ SubSeq(t, 1, maxEntries) \in Seq(Entry)
        /\ Len(SubSeq(t, 1, maxEntries)) = maxEntries
    BY <2>1, <2>2, SubSeqProperties
  <2>4. SubSeq(t, 1, maxEntries) \in [1 .. maxEntries -> Entry] /\ maxEntries \in 0 .. maxEntries
    BY <2>1, <2>3, LenProperties
  <2> QED
    BY <1>3, <1>4, <1>5, <2>4 DEF Newest, BoundedSeq, SeqOf
<1>6. CASE ~(m + 1 > maxEntries)
  <2>1. m + 1 \in 0 .. maxEntries /\ t \in [1 .. m + 1 -> Entry]
    BY <1>1, <1>4, <1>6, TrailAssumption
  <2> QED
    BY <1>3, <1>4, <1>6, <2>1 DEF Newest, BoundedSeq, SeqOf
<1> QED
  BY <1>5, <1>6

LEMMA TrailStarts == TrailInit => TrailSafe
<1> SUFFICES ASSUME TrailInit PROVE TrailSafe
  OBVIOUS
<1>1. TrailTypeOK
  BY EmptyTrail DEF TrailInit, TrailTypeOK
<1>2. \A w \in TrailWrite : writing[w] = "idle"
  BY DEF TrailInit
<1> QED
  BY <1>1, <1>2, EmptyTrail DEF TrailInit, TrailSafe, TrailInv, FileFollows, UnderWay

\* The watcher writes nothing.
LEMMA WatcherLooks ==
    ASSUME TrailSafe, Refresh \/ ReadTrail \/ ShowEntries
    PROVE  TrailSafe'
<1>a. TrailTypeOK
  BY DEF TrailSafe, TrailInv
<1>1. UNCHANGED <<entries, trailFile, writing, text, mixed>>
  BY DEF Refresh, ReadTrail, ShowEntries, StoreFixed
<1>2. reading' \in {"no", "reads", "has read"}
  BY <1>a DEF Refresh, ReadTrail, ShowEntries, TrailTypeOK
<1>3. PendingKeeps \in BOOLEAN
  BY Zenon DEF PendingKeeps
<1>4. {mixed', changed', readAgain'} \subseteq BOOLEAN
  BY <1>a, <1>1, <1>3 DEF Refresh, ReadTrail, ShowEntries, TrailTypeOK
<1>5. saw' \in BoundedSeq(Entry, maxEntries) \cup {Empty, Torn}
  BY <1>a, EmptyTrail DEF Refresh, ReadTrail, ShowEntries, TrailSafe, TrailTypeOK
<1>6. shown' \subseteq Entry
  <2>1. saw \in BoundedSeq(Entry, maxEntries) => ToSet(saw) \subseteq Entry
    BY DEF BoundedSeq, SeqOf, ToSet
  <2> QED
    BY <1>a, <2>1 DEF Refresh, ReadTrail, ShowEntries, TrailSafe, TrailTypeOK
<1>7. TrailTypeOK'
  BY <1>a, <1>1, <1>2, <1>4, <1>6 DEF TrailTypeOK
<1> QED
  BY <1>1, <1>5, <1>7 DEF TrailSafe, TrailInv, FileFollows, UnderWay

LEMMA TrailSteps == TrailSafe /\ [TrailNext]_trailVars => TrailSafe'
<1> SUFFICES ASSUME TrailSafe, [TrailNext]_trailVars PROVE TrailSafe'
  OBVIOUS
<1>a. TrailTypeOK /\ FileFollows
  BY DEF TrailSafe, TrailInv
<1>1. ASSUME NEW w \in TrailWrite, BeginWrite(w),
             entries' \in BoundedSeq(Entry, maxEntries), w = Clearing => entries' = <<>>
      PROVE  TrailSafe'
  <2>1. PICK m \in BOOLEAN : m = \E other \in TrailWrite : UnderWay(other)
    OBVIOUS
  <2>2. TrailTypeOK'
    BY <1>a, <1>1, <2>1 DEF BeginWrite, WatcherFixed, TrailTypeOK
  <2>3. UNCHANGED <<text, saw, trailFile>>
    BY <1>1 DEF BeginWrite, WatcherFixed
  <2>4. UnderWay(w)' /\ \A v \in TrailWrite : v # w => writing'[v] = writing[v]
    BY <1>a, <1>1 DEF BeginWrite, TrailTypeOK, UnderWay
  <2>5. ASSUME ~mixed' PROVE \A v \in TrailWrite : v # w => ~UnderWay(v) /\ ~UnderWay(v)'
    BY <1>1, <2>4, <2>5 DEF BeginWrite, UnderWay
  <2>6. writing'[w] = "mkdir"
    BY <1>a, <1>1 DEF BeginWrite, TrailTypeOK
  <2> QED
    BY <1>1, <2>2, <2>3, <2>4, <2>5, <2>6 DEF TrailSafe, TrailInv, FileFollows, UnderWay
<1>2. ASSUME NEW w \in TrailWrite, Directory(w) PROVE TrailSafe'
  <2>1. TrailTypeOK'
    BY <1>a, <1>2 DEF Directory, WatcherFixed, TrailTypeOK
  <2>2. text' \in [TrailWrite -> BoundedSeq(Entry, maxEntries)]
    BY <1>a, <1>2, EmptyTrail DEF Directory, TrailSafe, TrailTypeOK
  <2>3. /\ UnderWay(w) /\ UnderWay(w)' /\ writing'[w] = "open"
        /\ \A v \in TrailWrite : v # w => writing'[v] = writing[v]
        /\ UNCHANGED <<entries, trailFile, saw, mixed>>
        /\ text'[w] = IF w = Clearing THEN <<>> ELSE entries
    BY <1>a, <1>2 DEF Directory, WatcherFixed, TrailTypeOK, TrailSafe, UnderWay
  <2>4. ASSUME ~mixed, NEW v \in TrailWrite, v # w PROVE ~UnderWay(v) /\ ~UnderWay(v)'
    BY <2>3, <2>4 DEF TrailSafe, UnderWay
  <2> QED
    BY <2>1, <2>2, <2>3, <2>4 DEF TrailSafe, TrailInv, FileFollows, UnderWay
<1>3. ASSUME NEW w \in TrailWrite, OpenTrail(w) PROVE TrailSafe'
  <2>1. TrailTypeOK'
    BY <1>a, <1>3 DEF OpenTrail, WatcherFixed, TrailTypeOK
  <2>2. /\ UnderWay(w) /\ UnderWay(w)' /\ writing[w] = "open" /\ writing'[w] = "write"
        /\ \A v \in TrailWrite : v # w => writing'[v] = writing[v]
        /\ UNCHANGED <<entries, text, saw, mixed>> /\ trailFile' = Empty
    BY <1>a, <1>3 DEF OpenTrail, WatcherFixed, TrailTypeOK, UnderWay
  <2>3. ASSUME ~mixed, NEW v \in TrailWrite, v # w PROVE ~UnderWay(v) /\ ~UnderWay(v)'
    BY <2>2, <2>3 DEF TrailSafe, UnderWay
  <2> QED
    BY <2>1, <2>2, <2>3 DEF TrailSafe, TrailInv, FileFollows, UnderWay
<1>4. ASSUME NEW w \in TrailWrite, WriteTrail(w) PROVE TrailSafe'
  <2>1. trailFile' \in {text[w], Torn} /\ (trailFile = Empty => trailFile' = text[w])
    BY <1>4 DEF WriteTrail
  <2>2. TrailTypeOK'
    BY <1>a, <1>4, <2>1 DEF WriteTrail, WatcherFixed, TrailTypeOK, TrailSafe
  <2>3. text' \in [TrailWrite -> BoundedSeq(Entry, maxEntries)]
    BY <1>4, EmptyTrail DEF WriteTrail, TrailSafe
  <2>4. /\ UnderWay(w) /\ ~UnderWay(w)' /\ writing[w] = "write"
        /\ \A v \in TrailWrite : v # w => writing'[v] = writing[v]
        /\ UNCHANGED <<entries, saw, mixed>>
    BY <1>a, <1>4 DEF WriteTrail, WatcherFixed, TrailTypeOK, UnderWay
  <2>5. ASSUME ~mixed, NEW v \in TrailWrite PROVE ~UnderWay(v)'
    BY <2>4, <2>5 DEF TrailSafe, UnderWay
  <2>6. ~mixed => trailFile' = entries
    BY <2>1, <2>4 DEF TrailSafe
  <2> QED
    BY <2>2, <2>3, <2>4, <2>5, <2>6 DEF TrailSafe, TrailInv, FileFollows, UnderWay
<1>5. ASSUME NEW e \in Entry, Push(e) PROVE TrailSafe'
  <2>1. entries' \in BoundedSeq(Entry, maxEntries) /\ e # Clearing /\ e \in TrailWrite
    BY <1>a, <1>5, NewestBounded, TrailAssumption DEF Push, TrailTypeOK, TrailWrite
  <2> QED
    BY <1>1, <1>5, <2>1 DEF Push
<1>6. CASE ClearTrail
  BY <1>1, <1>6, EmptyTrail DEF ClearTrail, TrailWrite
<1>7. CASE UNCHANGED trailVars
  BY <1>a, <1>7 DEF trailVars, TrailSafe, TrailInv, TrailTypeOK, FileFollows, UnderWay
<1> QED
  BY <1>2, <1>3, <1>4, <1>5, <1>6, <1>7, WatcherLooks DEF TrailNext, TrailStep

\* The trail's file follows memory as long as writes do not overlap.
THEOREM TrailFollows == TrailSpec => []TrailInv
<1>1. TrailSafe => TrailInv
  BY DEF TrailSafe
<1> QED
  BY <1>1, TrailStarts, TrailSteps, PTL DEF TrailSpec
-----------------------------------------------------------------------------
(***************************************************************************)
(* Transactions on a pool (module PooledTransaction).                      *)
(***************************************************************************)
Lending == {"begin", "write", "nested", "commit", "rollback"}

\* A client is lent to one transaction at a time, and holds what this one
\* wrote and nothing else.
PoolLends ==
    /\ \A t \in Transaction : lent[t] # NoClient <=> phase[t] \in Lending
    /\ \A t, u \in Transaction : t # u /\ lent[t] # NoClient => lent[t] # lent[u]
    /\ \A p \in inTransaction : \E t \in Transaction : lent[t] = p

PoolWrites ==
    /\ \A p \in PoolClient : \A t \in unsaved[p] :
           lent[t] = p /\ phase[t] \in {"commit", "rollback"}
    /\ \A t \in Transaction :
           /\ phase[t] = "commit" => t \in unsaved[lent[t]]
           /\ t \in saved <=> phase[t] = "resolved" \/ t \in unheard
           /\ t \in unheard => phase[t] \in {"rollback", "rejected"}

PooledSafe == PooledTypeOK /\ PoolLends /\ PoolWrites

LEMMA PooledStarts == PooledInit => PooledSafe
<1> SUFFICES ASSUME PooledInit PROVE PooledSafe
  OBVIOUS
<1>1. PooledTypeOK
  BY DEF PooledInit, PooledTypeOK, Phases
<1>2. PoolLends /\ PoolWrites
  BY DEF PooledInit, PoolLends, PoolWrites, Lending
<1> QED
  BY <1>1, <1>2 DEF PooledSafe

\* A transaction whose phase changes and nothing else.
LEMMA PhaseTurns ==
    ASSUME PooledSafe, UNCHANGED <<lent, inTransaction, unsaved, saved, unheard>>,
           phase' \in [Transaction -> Phases],
           \A u \in Transaction : phase'[u] # phase[u] =>
               /\ phase'[u] \notin {"commit", "resolved"} /\ phase[u] # "resolved"
               /\ phase'[u] \in Lending <=> phase[u] \in Lending
               /\ phase[u] \in {"commit", "rollback"} => phase'[u] = "rollback"
               /\ phase[u] # "rejected"
    PROVE  PooledSafe'
<1>1. PooledTypeOK'
  BY DEF PooledSafe, PooledTypeOK
<1>2. PoolLends'
  BY DEF PooledSafe, PoolLends
<1>3. PoolWrites'
  <2>1. ASSUME NEW p \in PoolClient, NEW u \in unsaved[p]
        PROVE  lent[u] = p /\ phase'[u] \in {"commit", "rollback"}
    BY <2>1 DEF PooledSafe, PooledTypeOK, PoolWrites
  <2>2. ASSUME NEW u \in Transaction
        PROVE  /\ phase'[u] = "commit" => u \in unsaved[lent[u]]
               /\ u \in saved <=> phase'[u] = "resolved" \/ u \in unheard
               /\ u \in unheard => phase'[u] \in {"rollback", "rejected"}
    BY DEF PooledSafe, PoolWrites
  <2> QED
    BY <2>1, <2>2 DEF PoolWrites
<1> QED
  BY <1>1, <1>2, <1>3 DEF PooledSafe

\* The end of a transaction: its client is free of it, and of its writes.
Frees(t, to) ==
    /\ phase[t] \in {"commit", "rollback"} /\ to \in {"resolved", "rejected", "rollback"}
    /\ phase' = [phase EXCEPT ![t] = to]
    /\ unsaved' = [unsaved EXCEPT ![lent[t]] = {}]
    /\ inTransaction' = inTransaction \ {lent[t]}
    /\ to # "rollback" => lent' = [lent EXCEPT ![t] = NoClient]
    /\ to = "rollback" => lent' = lent
    /\ unheard' \in {unheard, unheard \cup {t}} /\ saved' \in {saved, saved \cup {t}}
    /\ t \in unheard' => to # "resolved"
    /\ t \in saved' <=> to = "resolved" \/ t \in unheard'

LEMMA ClientFreed ==
    ASSUME PooledSafe, NEW t \in Transaction, NEW to, Frees(t, to)
    PROVE  PooledSafe'
<1> USE DEF Frees
<1>a. PooledTypeOK /\ PoolLends /\ PoolWrites
  BY DEF PooledSafe
<1>1. lent[t] \in PoolClient /\ phase' \in [Transaction -> Phases] /\ phase'[t] = to
  BY <1>a DEF PooledTypeOK, PoolLends, Lending, Phases
<1>2. \A u \in Transaction : u # t =>
          phase'[u] = phase[u] /\ lent'[u] = lent[u] /\ lent[u] # lent[t]
          /\ (u \in saved' <=> u \in saved) /\ (u \in unheard' <=> u \in unheard)
  BY <1>a, <1>1, PooledAssumption DEF PooledTypeOK, PoolLends
<1>3. PooledTypeOK'
  BY <1>a, <1>1 DEF PooledTypeOK
<1>4. lent'[t] # NoClient <=> to = "rollback"
  BY <1>a, <1>1, PooledAssumption DEF PooledTypeOK
<1>5. PoolLends'
  <2>1. \A u \in Transaction : lent'[u] # NoClient <=> phase'[u] \in Lending
    BY <1>a, <1>1, <1>2, <1>4 DEF PoolLends, Lending
  <2>2. \A u, v \in Transaction : u # v /\ lent'[u] # NoClient => lent'[u] # lent'[v]
    BY <1>a, <1>1, <1>2, <1>4, PooledAssumption DEF PoolLends
  <2>3. \A p \in inTransaction' : \E u \in Transaction : lent'[u] = p
    BY <1>a, <1>2 DEF PoolLends
  <2> QED
    BY <2>1, <2>2, <2>3 DEF PoolLends
<1>6. PoolWrites'
  <2>1. \A p \in PoolClient : unsaved'[p] = IF p = lent[t] THEN {} ELSE unsaved[p]
    BY <1>a, <1>1 DEF PooledTypeOK
  <2>2. ASSUME NEW p \in PoolClient, NEW u \in unsaved'[p]
        PROVE  lent'[u] = p /\ phase'[u] \in {"commit", "rollback"}
    <3>1. p # lent[t] /\ u \in unsaved[p] /\ u \in Transaction
      BY <1>a, <2>1, <2>2 DEF PooledTypeOK
    <3> QED
      BY <1>a, <1>2, <3>1 DEF PoolWrites
  <2>3. ASSUME NEW u \in Transaction
        PROVE  /\ phase'[u] = "commit" => u \in unsaved'[lent'[u]]
               /\ u \in saved' <=> phase'[u] = "resolved" \/ u \in unheard'
               /\ u \in unheard' => phase'[u] \in {"rollback", "rejected"}
    <3>1. CASE u = t
      BY <1>a, <1>1, <3>1 DEF PoolWrites
    <3>2. CASE u # t
      <4>1. phase[u] = "commit" => lent[u] \in PoolClient
        BY <1>a DEF PooledTypeOK, PoolLends, Lending
      <4> QED
        BY <1>a, <1>2, <2>1, <3>2, <4>1 DEF PoolWrites
    <3> QED
      BY <3>1, <3>2
  <2> QED
    BY <2>2, <2>3 DEF PoolWrites
<1> QED
  BY <1>3, <1>5, <1>6 DEF PooledSafe

LEMMA PooledSteps == PooledSafe /\ [PooledNext]_pooledVars => PooledSafe'
<1> SUFFICES ASSUME PooledSafe, [PooledNext]_pooledVars PROVE PooledSafe'
  OBVIOUS
<1>a. PooledTypeOK /\ PoolLends /\ PoolWrites
  BY DEF PooledSafe
<1>1. ASSUME NEW t \in Transaction, CallTransaction(t) PROVE PooledSafe'
  <2>1. phase' \in [Transaction -> Phases]
    BY <1>a, <1>1 DEF CallTransaction, PooledTypeOK, Phases
  <2>2. \A u \in Transaction : phase'[u] # phase[u] =>
            (phase[u] = "new" /\ phase'[u] = "wait") \/ (phase[u] = "write" /\ phase'[u] = "nested")
    BY <1>1 DEF CallTransaction
  <2> QED
    BY <1>1, <2>1, <2>2, PhaseTurns DEF CallTransaction, Lending
<1>2. ASSUME NEW t \in Transaction, NEW from, NEW to, Turns(t, from, to),
             UNCHANGED <<lent, inTransaction, unsaved, saved, unheard>>,
             from \in {"begin", "write", "nested", "commit"},
             to \in {"write", "rollback"}, from = "commit" => to = "rollback"
      PROVE  PooledSafe'
  <2>1. phase' \in [Transaction -> Phases] /\ from # to => phase'[t] = to
    BY <1>a, <1>2 DEF Turns, PooledTypeOK, Phases
  <2>2. phase' \in [Transaction -> Phases]
    BY <1>a, <1>2 DEF Turns, PooledTypeOK, Phases
  <2>3. \A u \in Transaction : phase'[u] # phase[u] => phase[u] = from /\ phase'[u] = to
    BY <1>a, <1>2 DEF Turns, PooledTypeOK
  <2> QED
    BY <1>2, <2>2, <2>3, PhaseTurns DEF Lending
<1>3. ASSUME NEW t \in Transaction, Connects(t) PROVE PooledSafe'
  <2>1. PICK p \in PoolClient :
          /\ \A u \in Transaction : lent[u] # p
          /\ phase[t] = "wait" /\ phase' = [phase EXCEPT ![t] = "begin"]
          /\ lent' = [lent EXCEPT ![t] = p]
          /\ UNCHANGED <<inTransaction, unsaved, saved, unheard>>
    BY <1>3 DEF Connects, Turns
  <2>2. PooledTypeOK'
    BY <1>a, <2>1 DEF PooledTypeOK, Phases
  <2>3. /\ lent[t] = NoClient /\ lent'[t] = p /\ phase'[t] = "begin" /\ p # NoClient
        /\ \A u \in Transaction : u # t => lent'[u] = lent[u] /\ phase'[u] = phase[u]
    BY <1>a, <2>1, PooledAssumption DEF PooledTypeOK, PoolLends, Lending
  <2>4. PoolLends'
    BY <1>a, <2>1, <2>3, PooledAssumption DEF PoolLends, Lending, PooledTypeOK
  <2>5. PoolWrites'
    BY <1>a, <2>1, <2>3 DEF PoolWrites, PooledTypeOK
  <2> QED
    BY <2>2, <2>4, <2>5 DEF PooledSafe
<1>4. ASSUME NEW t \in Transaction, BeginPooled(t) PROVE PooledSafe'
  <2>1. /\ phase[t] = "begin" /\ phase' = [phase EXCEPT ![t] = "write"]
        /\ lent[t] \in PoolClient /\ inTransaction' = inTransaction \cup {lent[t]}
        /\ UNCHANGED <<lent, unsaved, saved, unheard>>
    BY <1>a, <1>4 DEF BeginPooled, Turns, PoolLends, Lending, PooledTypeOK
  <2>2. PooledTypeOK'
    BY <1>a, <2>1 DEF PooledTypeOK, Phases
  <2>3. \A u \in Transaction : phase'[u] = IF u = t THEN "write" ELSE phase[u]
    BY <1>a, <2>1 DEF PooledTypeOK
  <2>4. PoolLends'
    BY <1>a, <2>1, <2>3 DEF PoolLends, Lending
  <2>5. PoolWrites'
    BY <1>a, <2>1, <2>3 DEF PoolWrites, PooledTypeOK
  <2> QED
    BY <2>2, <2>4, <2>5 DEF PooledSafe
<1>5. ASSUME NEW t \in Transaction, WritePooled(t) PROVE PooledSafe'
  <2>1. /\ phase[t] = "write" /\ phase' = [phase EXCEPT ![t] = "commit"]
        /\ lent[t] \in PoolClient /\ unsaved' = [unsaved EXCEPT ![lent[t]] = @ \cup {t}]
        /\ UNCHANGED <<lent, inTransaction, saved, unheard>>
    BY <1>a, <1>5 DEF WritePooled, Turns, PoolLends, Lending, PooledTypeOK
  <2>2. PooledTypeOK'
    BY <1>a, <2>1 DEF PooledTypeOK, Phases
  <2>3. /\ \A u \in Transaction : phase'[u] = IF u = t THEN "commit" ELSE phase[u]
        /\ \A p \in PoolClient : unsaved'[p] = IF p = lent[t] THEN unsaved[p] \cup {t} ELSE unsaved[p]
    BY <1>a, <2>1 DEF PooledTypeOK
  <2>4. PoolLends'
    BY <1>a, <2>1, <2>3 DEF PoolLends, Lending
  <2>5. \A u \in Transaction : phase[u] = "commit" => lent[u] \in PoolClient
    BY <1>a DEF PoolLends, Lending, PooledTypeOK
  <2>6. PoolWrites'
    BY <1>a, <2>1, <2>3, <2>5 DEF PoolWrites, PooledTypeOK
  <2> QED
    BY <2>2, <2>4, <2>6 DEF PooledSafe
<1>6. ASSUME NEW t \in Transaction, CommitPooled(t) \/ CommitUnheard(t) PROVE PooledSafe'
  <2>1. lent[t] \in PoolClient /\ unsaved[lent[t]] = {t} /\ phase[t] = "commit"
        /\ t \notin saved /\ t \notin unheard
    BY <1>a, <1>6 DEF CommitPooled, CommitUnheard, Turns, PoolLends, PoolWrites, Lending,
       PooledTypeOK
  <2>2. CASE CommitPooled(t)
    <3>1. Frees(t, "resolved")
      BY <2>1, <2>2 DEF CommitPooled, Turns, CommitClient, ReleaseClient, Frees
    <3> QED
      BY <3>1, ClientFreed
  <2>3. CASE CommitUnheard(t)
    <3>1. Frees(t, "rollback")
      BY <2>1, <2>3 DEF CommitUnheard, Turns, CommitClient, Frees
    <3> QED
      BY <3>1, ClientFreed
  <2> QED
    BY <1>6, <2>2, <2>3
<1>7. ASSUME NEW t \in Transaction, RollbackPooled(t) PROVE PooledSafe'
  <2>1. Frees(t, "rejected")
    BY <1>a, <1>7 DEF RollbackPooled, Turns, ReleaseClient, PoolWrites, Frees
  <2> QED
    BY <2>1, ClientFreed
<1>8. ASSUME NEW t \in Transaction, FailsPooled(t) \/ Unnest(t) PROVE PooledSafe'
  BY <1>2, <1>8 DEF FailsPooled, Unnest
<1>9. CASE UNCHANGED pooledVars
  BY <1>a, <1>9 DEF pooledVars, PooledSafe, PooledTypeOK, PoolLends, PoolWrites
<1> QED
  BY <1>1, <1>3, <1>4, <1>5, <1>6, <1>7, <1>8, <1>9 DEF PooledNext, PooledStep

LEMMA PooledSafety == PooledSafe => PooledInv
<1> SUFFICES ASSUME PooledSafe PROVE PooledAllOrNothing
  BY DEF PooledSafe, PooledInv
<1>1. ASSUME NEW p \in PoolClient, \A t \in Transaction : lent[t] # p
      PROVE  p \notin inTransaction /\ unsaved[p] = {}
  BY <1>1 DEF PooledSafe, PooledTypeOK, PoolLends, PoolWrites
<1> QED
  BY <1>1 DEF PooledSafe, PoolWrites, PooledAllOrNothing

\* Each transaction on the pool is stored just when it resolved or when the
\* answer to its COMMIT was lost, and hands on a client that is free of it:
\* for any number of requests, nested as they like, and of clients.
THEOREM PooledIsSafe == PooledSpec => []PooledInv
<1>1. PooledSpec => PooledInit /\ [][PooledNext]_pooledVars
  BY PTL DEF PooledSpec
<1> QED
  BY <1>1, PooledStarts, PooledSteps, PooledSafety, PTL
-----------------------------------------------------------------------------
(***************************************************************************)
(* Migrations (module Migrator).                                           *)
(***************************************************************************)
LEMMA LeastNumber ==
    ASSUME NEW S, S \subseteq Nat, S # {}
    PROVE  \E x \in S : \A y \in S : x <= y
<1>1. PICK x \in S : \A y \in S : ~(<<y, x>> \in OpToRel(<, Nat))
  BY NatLessThanWellFounded, WFMin
<1>2. \A y \in S : ~(y < x)
  BY <1>1 DEF OpToRel
<1> QED
  BY <1>2

LEMMA MinIsLeast ==
    ASSUME NEW S, S \subseteq Nat, S # {}
    PROVE  Min(S) \in S /\ \A y \in S : Min(S) <= y
BY LeastNumber DEF Min

LEMMA MaxIsGreatest ==
    ASSUME NEW S, S \subseteq Nat, S # {}, NEW n \in Nat, \A x \in S : x <= n
    PROVE  Max(S) \in S /\ \A y \in S : y <= Max(S)
<1> DEFINE Bounds == {m \in Nat : \A x \in S : x <= m}
<1>1. PICK m \in Bounds : \A k \in Bounds : m <= k
  <2>1. n \in Bounds /\ Bounds \subseteq Nat
    OBVIOUS
  <2> QED
    BY <2>1, LeastNumber
<1>2. m \in S
  <2>1. SUFFICES ASSUME m \notin S PROVE FALSE
    OBVIOUS
  <2>2. PICK x \in S : x <= m /\ x # m /\ x \in Nat
    BY <1>1, <2>1
  <2>3. m - 1 \in Nat /\ \A y \in S : y <= m - 1
    BY <1>1, <2>1, <2>2
  <2>4. m - 1 \in Bounds
    BY <2>3
  <2> QED
    BY <1>1, <2>4
<1>3. \E x \in S : \A y \in S : x >= y
  BY <1>1, <1>2
<1>4. Max(S) \in S /\ \A y \in S : Max(S) >= y
  BY <1>3 DEF Max
<1> QED
  BY <1>4

LogRow == [name: Migration, batch: Nat, by: Runner]

LEMMA LogRows ==
    ASSUME MigratorTypeOK
    PROVE  /\ log \in Seq(LogRow) /\ Len(log) \in Nat /\ DOMAIN log = 1 .. Len(log)
           /\ \A i \in DOMAIN log : log[i] \in LogRow
<1>1. log \in Seq(LogRow)
  BY Zenon DEF MigratorTypeOK, LogRow
<1> QED
  BY <1>1, ElementOfSeq, LenProperties

\* Batch numbers have not run out.
Bounded == \E n \in Nat : \A i \in DOMAIN log : log[i].batch <= n

\* Of what is no longer on a run's list every up() has run.
RunsInOrder(r) ==
    /\ step[r] # "off" =>
          /\ todo[r] # {}
          /\ \A m \in Migration \ todo[r] : done[m] = 2
    /\ step[r] = "second" => done[Min(todo[r])] >= 1
    /\ step[r] = "record" => done[Min(todo[r])] = 2

\* A run that never met another records each migration once, under its number.
RunsAlone(r) ==
    step[r] # "off" =>
        /\ \A q \in Runner : step[q] # "off" => q = r
        /\ todo[r] \cap Recorded = {}
        /\ step[r] # "pending" =>
              \A i \in DOMAIN log : log[i].batch = batch[r] => log[i].by = r

MigrationsSafe ==
    /\ MigratorInv /\ Bounded
    /\ \A r \in Runner : RunsInOrder(r) /\ (~overlapped => RunsAlone(r))

LEMMA MigrationsInit == MigratorInit => MigrationsSafe
<1> SUFFICES ASSUME MigratorInit PROVE MigrationsSafe
  OBVIOUS
<1>1. MigratorTypeOK
  <2>1. log \in Seq(LogRow)
    BY EmptySeq DEF MigratorInit
  <2>2. todo \in [Runner -> SUBSET Migration] /\ step \in [Runner -> Steps]
    BY DEF MigratorInit, Steps
  <2>3. batch \in [Runner -> Nat] /\ done \in [Migration -> 0 .. 2]
    BY DEF MigratorInit
  <2>4. overlapped \in BOOLEAN
    BY DEF MigratorInit
  <2> QED
    BY <2>1, <2>2, <2>3, <2>4, Zenon DEF MigratorTypeOK, LogRow
<1>2. DOMAIN log = {} /\ Recorded = {}
  BY DEF MigratorInit, Recorded
<1>3. RecordedAreDone /\ OneRunPerRow /\ Bounded
  BY <1>2 DEF MigratorInit, RecordedAreDone, OneRunPerRow, Bounded
<1> QED
  <2>1. \A r \in Runner : step[r] = "off"
    BY DEF MigratorInit
  <2> QED
    BY <1>1, <1>3, <2>1 DEF MigrationsSafe, MigratorInv, RunsInOrder, RunsAlone

LEMMA LatestIsLast ==
    ASSUME MigratorTypeOK, Bounded
    PROVE  LatestBatch \in Nat /\ \A i \in DOMAIN log : log[i].batch <= LatestBatch
<1> DEFINE S == {0} \cup {log[i].batch : i \in DOMAIN log}
<1>1. \A i \in DOMAIN log : log[i] \in LogRow
  BY LogRows
<1>2. S \subseteq Nat /\ S # {}
  BY <1>1 DEF LogRow
<1>3. PICK n \in Nat : \A x \in S : x <= n
  BY DEF Bounded
<1>4. Max(S) \in S /\ \A y \in S : y <= Max(S)
  BY <1>2, <1>3, MaxIsGreatest
<1> QED
  BY <1>2, <1>4 DEF LatestBatch

\* What is next on a run's list is the first that is left.
LEMMA NextUp ==
    ASSUME MigrationsSafe, NEW r \in Runner, step[r] # "off", NEW m, m = Min(todo[r])
    PROVE  /\ m \in todo[r] /\ m \in Migration /\ m \in Nat
           /\ \A e \in 1 .. m - 1 : e \in Migration /\ done[e] = 2
<1>1. /\ todo[r] \subseteq Migration /\ todo[r] # {}
      /\ \A e \in Migration \ todo[r] : done[e] = 2
  BY DEF MigrationsSafe, MigratorInv, MigratorTypeOK, RunsInOrder
<1>2. Migration \subseteq Nat /\ FileCount \in Nat
  BY MigratorAssumption DEF Migration
<1>3. m \in todo[r] /\ \A e \in todo[r] : m <= e
  BY <1>1, <1>2, MinIsLeast
<1>4. \A e \in 1 .. m - 1 : e \in Migration /\ e \notin todo[r]
  BY <1>1, <1>2, <1>3 DEF Migration
<1> QED
  BY <1>1, <1>2, <1>3, <1>4

\* A run that stops leaves the others, and what is done and recorded, alone.
LEMMA QuitStep ==
    ASSUME MigrationsSafe, NEW r \in Runner, step[r] # "off", Quit(r),
           UNCHANGED <<done, log, overlapped>>
    PROVE  MigrationsSafe'
<1>a. MigratorTypeOK
  BY DEF MigrationsSafe, MigratorInv
<1>1. MigratorTypeOK'
  BY <1>a DEF Quit, MigratorTypeOK, Steps
<1>2. RecordedAreDone' /\ OneRunPerRow' /\ Bounded' /\ Recorded' = Recorded
  BY DEF MigrationsSafe, MigratorInv, RecordedAreDone, OneRunPerRow, Bounded, Recorded
<1>3. ASSUME NEW q \in Runner PROVE RunsInOrder(q)' /\ (~overlapped' => RunsAlone(q)')
  <2>1. CASE q = r
    BY <1>a, <2>1 DEF Quit, MigratorTypeOK, RunsInOrder, RunsAlone
  <2>2. CASE q # r
    <3>1. step'[q] = step[q] /\ todo'[q] = todo[q] /\ batch'[q] = batch[q]
      BY <1>a, <2>2 DEF Quit, MigratorTypeOK
    <3>2. \A p \in Runner : step'[p] # "off" => step[p] # "off"
      BY <1>a DEF Quit, MigratorTypeOK
    <3> QED
      BY <1>2, <3>1, <3>2 DEF MigrationsSafe, RunsInOrder, RunsAlone
  <2> QED
    BY <2>1, <2>2
<1> QED
  BY <1>1, <1>2, <1>3 DEF MigrationsSafe, MigratorInv

\* A statement of an up() takes effect.
Ups(r, m, n, to) ==
    /\ step[r] \in {"first", "second"} /\ m = Min(todo[r])
    /\ step' = [step EXCEPT ![r] = to] /\ done' = [done EXCEPT ![m] = n]
    /\ n \in 0 .. 2 /\ done[m] <= n
    /\ (to = "second" /\ n >= 1) \/ (to = "record" /\ n = 2)
    /\ UNCHANGED <<log, overlapped, todo, batch>>

LEMMA UpStep ==
    ASSUME MigrationsSafe, NEW r \in Runner, NEW m, NEW n, NEW to, Ups(r, m, n, to)
    PROVE  MigrationsSafe'
<1>u. /\ step[r] \in {"first", "second"} /\ m = Min(todo[r])
      /\ step' = [step EXCEPT ![r] = to] /\ done' = [done EXCEPT ![m] = n]
      /\ n \in 0 .. 2 /\ done[m] <= n /\ to \in {"second", "record"}
      /\ (to = "second" => n >= 1) /\ (to = "record" => n = 2)
      /\ UNCHANGED <<log, overlapped, todo, batch>>
  BY DEF Ups
<1>a. MigratorTypeOK /\ RecordedAreDone /\ OneRunPerRow
  BY DEF MigrationsSafe, MigratorInv
<1>b. m \in todo[r] /\ m \in Migration /\ \A e \in 1 .. m - 1 : e \in Migration /\ done[e] = 2
  BY <1>u, NextUp
<1>1. \A e \in Migration : done'[e] = IF e = m THEN n ELSE done[e]
  BY <1>a, <1>u DEF MigratorTypeOK
<1>2. \A e \in Migration : done[e] = 2 => done'[e] = 2
  BY <1>1, <1>u
<1>3. MigratorTypeOK'
  <2>1. done' \in [Migration -> 0 .. 2]
    BY <1>a, <1>u DEF MigratorTypeOK
  <2>2. step' \in [Runner -> Steps]
    BY <1>a, <1>u DEF MigratorTypeOK, Steps
  <2> QED
    BY <1>a, <1>u, <2>1, <2>2, Zenon DEF MigratorTypeOK
<1>4. Recorded' = Recorded /\ OneRunPerRow' /\ Bounded' /\ Recorded \subseteq Migration
  BY <1>a, <1>u, LogRows DEF MigrationsSafe, MigratorInv, OneRunPerRow, Bounded, Recorded, LogRow
<1>5. RecordedAreDone'
  <2>1. \A e \in Recorded : done'[e] = 2
    BY <1>a, <1>2, <1>4 DEF RecordedAreDone
  <2>2. ASSUME NEW e \in Migration, done'[e] > 0, NEW d \in 1 .. e - 1 PROVE done'[d] = 2
    <3>1. d \in Migration
      BY MigratorAssumption DEF Migration
    <3>2. CASE e = m
      BY <1>2, <1>b, <3>1, <3>2
    <3>3. CASE e # m
      BY <1>1, <1>2, <1>a, <2>2, <3>1, <3>3 DEF RecordedAreDone
    <3> QED
      BY <3>2, <3>3
  <2> QED
    BY <2>1, <2>2, <1>4 DEF RecordedAreDone
<1>6. ASSUME NEW q \in Runner PROVE RunsInOrder(q)'
  <2>1. RunsInOrder(q) /\ todo[q] \subseteq Migration
    BY <1>a DEF MigrationsSafe, MigratorTypeOK
  <2>2. CASE q = r
    BY <1>1, <1>2, <1>a, <1>b, <1>u, <2>1, <2>2 DEF MigratorTypeOK, RunsInOrder
  <2>3. CASE q # r
    <3>1. step'[q] = step[q]
      BY <1>a, <1>u, <2>3 DEF MigratorTypeOK
    <3>2. step[q] # "off" => Min(todo[q]) \in Migration
      BY NextUp
    <3>3. ASSUME NEW e \in Migration, done[e] >= 1 PROVE done'[e] >= 1
      BY <1>1, <1>a, <1>b, <1>u, <3>3 DEF MigratorTypeOK
    <3>4. PICK e : e = Min(todo[q])
      OBVIOUS
    <3> QED
      BY <1>2, <1>u, <2>1, <3>1, <3>2, <3>3, <3>4 DEF RunsInOrder
  <2> QED
    BY <2>2, <2>3
<1>7. ASSUME NEW q \in Runner, ~overlapped PROVE RunsAlone(q)'
  <2>1. \A p \in Runner : /\ step'[p] # "off" => step[p] # "off"
                          /\ step'[p] # "pending" => step[p] # "pending"
    BY <1>a, <1>u DEF MigratorTypeOK
  <2> QED
    BY <1>4, <1>7, <1>u, <2>1 DEF MigrationsSafe, RunsAlone
<1> QED
  BY <1>3, <1>4, <1>5, <1>6, <1>7, <1>u DEF MigrationsSafe, MigratorInv

LEMMA RecordStep ==
    ASSUME MigrationsSafe, NEW r \in Runner, Record(r)
    PROVE  MigrationsSafe'
<1> DEFINE m == Min(todo[r])
<1> DEFINE row == [name |-> m, batch |-> batch[r], by |-> r]
<1>a. MigratorTypeOK /\ RecordedAreDone /\ OneRunPerRow /\ Bounded /\ step[r] = "record"
  BY DEF MigrationsSafe, MigratorInv, Record
<1>b. m \in todo[r] /\ m \in Migration /\ done[m] = 2
  BY <1>a, NextUp DEF MigrationsSafe, RunsInOrder
<1>c. UNCHANGED <<done, overlapped>> /\ log' = Append(log, row)
  BY DEF Record
<1>d. todo[r] \subseteq Migration
  BY <1>a DEF MigratorTypeOK
<1>1. /\ log' \in Seq(LogRow) /\ DOMAIN log' = DOMAIN log \cup {Len(log) + 1}
      /\ Len(log) + 1 \notin DOMAIN log /\ log'[Len(log) + 1] = row
      /\ \A i \in DOMAIN log : log'[i] = log[i]
  <2>1. row \in LogRow
    BY <1>a, <1>b DEF LogRow, MigratorTypeOK
  <2>2. log \in Seq(LogRow) /\ Len(log) \in Nat /\ DOMAIN log = 1 .. Len(log)
    BY <1>a, LogRows
  <2>3. log' \in Seq(LogRow) /\ Len(log') = Len(log) + 1
    BY <1>c, <2>1, <2>2, AppendProperties
  <2>4. \A i \in 1 .. Len(log) : log'[i] = log[i]
    BY <1>c, <2>1, <2>2, AppendProperties
  <2>5. log'[Len(log) + 1] = row
    BY <1>c, <2>1, <2>2, AppendProperties
  <2>6. DOMAIN log' = 1 .. Len(log) + 1
    BY <2>3, LenProperties
  <2> QED
    BY <2>2, <2>3, <2>4, <2>5, <2>6
<1>2. Recorded' = Recorded \cup {m}
  BY <1>1 DEF Recorded
<1>3. \/ Quit(r)
      \/ /\ todo' = [todo EXCEPT ![r] = @ \ {m}] /\ todo[r] # {m}
         /\ step' = [step EXCEPT ![r] = "first"] /\ UNCHANGED batch
  BY DEF Record
<1>4. MigratorTypeOK'
  <2>1. todo' \in [Runner -> SUBSET Migration]
    BY <1>3, <1>a DEF Quit, MigratorTypeOK
  <2>2. step' \in [Runner -> Steps]
    BY <1>3, <1>a DEF Quit, MigratorTypeOK, Steps
  <2>3. batch' \in [Runner -> Nat]
    <3>1. batch \in [Runner -> Nat]
      BY <1>a, Zenon DEF MigratorTypeOK
    <3>2. CASE Quit(r)
      BY <3>1, <3>2 DEF Quit
    <3> QED
      BY <1>3, <3>1, <3>2, Zenon
  <2> QED
    BY <1>a, <1>c, <1>1, <2>1, <2>2, <2>3, Zenon DEF MigratorTypeOK, LogRow
<1>5. RecordedAreDone'
  BY <1>a, <1>b, <1>c, <1>2 DEF RecordedAreDone
<1>6. Bounded'
  <2>1. PICK n \in Nat : \A i \in DOMAIN log : log[i].batch <= n
    BY <1>a DEF Bounded
  <2>2. PICK k \in Nat : n <= k /\ batch[r] <= k /\ batch[r] \in Nat
    <3>1. batch[r] \in Nat
      BY <1>a DEF MigratorTypeOK
    <3>2. CASE n <= batch[r]
      BY <3>1, <3>2
    <3>3. CASE ~(n <= batch[r])
      BY <3>1, <3>3
    <3> QED
      BY <3>2, <3>3
  <2>3. \A i \in DOMAIN log : log[i].batch \in Nat
    BY <1>a, LogRows DEF LogRow
  <2>4. \A i \in DOMAIN log' : log'[i].batch <= k
    BY <1>1, <2>1, <2>2, <2>3
  <2> QED
    BY <2>4 DEF Bounded
<1>7. ~overlapped => RunsAlone(r)
  BY DEF MigrationsSafe
<1>8. OneRunPerRow'
  <2>1. SUFFICES ASSUME ~overlapped PROVE OneRunPerRow'
    BY <1>c DEF OneRunPerRow
  <2>2. \A i \in DOMAIN log : log[i].name # m /\ (log[i].batch = batch[r] => log[i].by = r)
    BY <1>7, <1>a, <1>b, <2>1 DEF RunsAlone, Recorded
  <2> QED
    BY <1>a, <1>1, <2>1, <2>2 DEF OneRunPerRow
<1>9. ASSUME NEW q \in Runner PROVE RunsInOrder(q)'
  <2>1. RunsInOrder(q)
    BY DEF MigrationsSafe
  <2>2. CASE q = r
    BY <1>3, <1>a, <1>b, <1>c, <2>1, <2>2 DEF Quit, MigratorTypeOK, RunsInOrder
  <2>3. CASE q # r
    BY <1>3, <1>a, <1>c, <2>1, <2>3 DEF Quit, MigratorTypeOK, RunsInOrder
  <2> QED
    BY <2>2, <2>3
<1>10. ASSUME NEW q \in Runner, ~overlapped PROVE RunsAlone(q)'
  <2>1. \A p \in Runner : step[p] # "off" => p = r
    BY <1>7, <1>10, <1>a DEF RunsAlone
  <2>2. \A p \in Runner : step'[p] # "off" => p = r
    BY <1>3, <1>a, <2>1 DEF Quit, MigratorTypeOK
  <2>3. step'[r] # "off" => /\ todo'[r] \cap Recorded' = {} /\ batch'[r] = batch[r]
    BY <1>3, <1>7, <1>10, <1>2, <1>a DEF Quit, MigratorTypeOK, RunsAlone
  <2>4. \A i \in DOMAIN log' : log'[i].batch = batch[r] => log'[i].by = r
    BY <1>1, <1>7, <1>10, <1>a DEF RunsAlone
  <2> QED
    BY <2>2, <2>3, <2>4 DEF RunsAlone
<1> QED
  BY <1>4, <1>5, <1>6, <1>8, <1>9, <1>10, <1>c DEF MigrationsSafe, MigratorInv

LEMMA MigrationsStep == MigrationsSafe /\ [MigratorNext]_migratorVars => MigrationsSafe'
<1> SUFFICES ASSUME MigrationsSafe, [MigratorNext]_migratorVars PROVE MigrationsSafe'
  OBVIOUS
<1>a. MigratorTypeOK /\ RecordedAreDone /\ OneRunPerRow /\ Bounded
  BY DEF MigrationsSafe, MigratorInv
<1>1. ASSUME NEW r \in Runner, FindPending(r) PROVE MigrationsSafe'
  <2>1. /\ step[r] = "off" /\ UNCHANGED <<done, log, batch>> /\ Recorded' = Recorded
        /\ todo' = [todo EXCEPT ![r] = Migration \ Recorded]
        /\ step' = [step EXCEPT ![r] = "pending"] /\ Recorded # Migration
        /\ ~overlapped' => ~overlapped /\ \A q \in Runner : step[q] = "off"
    BY <1>1 DEF FindPending, Recorded
  <2>2. Recorded \subseteq Migration
    BY <1>a, LogRows DEF Recorded, LogRow
  <2>3. MigratorTypeOK'
    <3>1. todo' \in [Runner -> SUBSET Migration] /\ step' \in [Runner -> Steps]
      BY <1>a, <2>1 DEF MigratorTypeOK, Steps
    <3>2. overlapped' \in BOOLEAN
      <4>1. PICK o \in BOOLEAN : o = (overlapped \/ \E q \in Runner : step[q] # "off")
        BY Zenon
      <4> QED
        BY <1>1, <4>1, Zenon DEF FindPending
    <3> QED
      BY <1>a, <2>1, <3>1, <3>2, Zenon DEF MigratorTypeOK
  <2>4. RecordedAreDone' /\ OneRunPerRow' /\ Bounded'
    BY <1>a, <2>1 DEF RecordedAreDone, OneRunPerRow, Bounded
  <2>5. ASSUME NEW q \in Runner PROVE RunsInOrder(q)'
    <3>1. CASE q = r
      BY <1>a, <2>1, <2>2, <3>1 DEF MigratorTypeOK, RunsInOrder, RecordedAreDone
    <3>2. CASE q # r
      BY <1>a, <2>1, <3>2 DEF MigrationsSafe, MigratorTypeOK, RunsInOrder
    <3> QED
      BY <3>1, <3>2
  <2>6. ASSUME NEW q \in Runner, ~overlapped' PROVE RunsAlone(q)'
    BY <1>a, <2>1, <2>6 DEF MigratorTypeOK, RunsAlone
  <2> QED
    BY <2>3, <2>4, <2>5, <2>6 DEF MigrationsSafe, MigratorInv
<1>2. ASSUME NEW r \in Runner, ReadBatch(r) PROVE MigrationsSafe'
  <2>1. LatestBatch \in Nat /\ \A i \in DOMAIN log : log[i].batch <= LatestBatch
    BY <1>a, LatestIsLast
  <2>2. PICK n \in Nat : n = LatestBatch + 1 /\ \A i \in DOMAIN log : log[i].batch # n
    BY <1>a, <2>1, LogRows DEF LogRow
  <2>3. /\ step[r] = "pending" /\ UNCHANGED <<done, log, todo, overlapped>>
        /\ batch' = [batch EXCEPT ![r] = n] /\ step' = [step EXCEPT ![r] = "first"]
        /\ Recorded' = Recorded
    BY <1>2, <2>2 DEF ReadBatch, Recorded
  <2>4. MigratorTypeOK'
    <3>1. batch' \in [Runner -> Nat] /\ step' \in [Runner -> Steps]
      BY <1>a, <2>3 DEF MigratorTypeOK, Steps
    <3> QED
      BY <1>a, <2>3, <3>1, Zenon DEF MigratorTypeOK
  <2>5. RecordedAreDone' /\ OneRunPerRow' /\ Bounded'
    BY <1>a, <2>3 DEF RecordedAreDone, OneRunPerRow, Bounded
  <2>6. ASSUME NEW q \in Runner PROVE RunsInOrder(q)' /\ (~overlapped' => RunsAlone(q)')
    <3>1. /\ step'[q] = (IF q = r THEN "first" ELSE step[q])
          /\ batch'[q] = IF q = r THEN n ELSE batch[q]
      BY <1>a, <2>3 DEF MigratorTypeOK
    <3>2. \A p \in Runner : step'[p] # "off" => step[p] # "off"
      BY <1>a, <2>3 DEF MigratorTypeOK
    <3> QED
      BY <2>2, <2>3, <3>1, <3>2 DEF MigrationsSafe, RunsInOrder, RunsAlone
  <2> QED
    BY <2>4, <2>5, <2>6 DEF MigrationsSafe, MigratorInv
<1>3. ASSUME NEW r \in Runner, UpFirst(r) \/ UpSecond(r) PROVE MigrationsSafe'
  <2>1. PICK m \in Migration : m = Min(todo[r])
    BY <1>3, NextUp DEF UpFirst, UpSecond
  <2>2. done[m] \in 0 .. 2
    BY <1>a DEF MigratorTypeOK
  <2>3. CASE Quit(r) /\ UNCHANGED done
    BY <1>3, <2>3, QuitStep DEF UpFirst, UpSecond
  <2>4. CASE UpFirst(r) /\ ~(Quit(r) /\ UNCHANGED done)
    <3>1. PICK n \in {1, 2} : n = IF done[m] = 0 THEN 1 ELSE done[m]
      BY <2>2
    <3>2. /\ step[r] = "first" /\ done' = [done EXCEPT ![m] = n]
          /\ step' = [step EXCEPT ![r] = "second"] /\ UNCHANGED <<log, overlapped, todo, batch>>
      BY <2>1, <2>4, <3>1 DEF UpFirst
    <3>3. Ups(r, m, n, "second")
      <4>1. n \in 0 .. 2 /\ done[m] <= n /\ n >= 1
        BY <2>2, <3>1
      <4> QED
        BY <2>1, <3>2, <4>1 DEF Ups
    <3> QED
      BY <3>3, UpStep
  <2>5. CASE UpSecond(r) /\ ~(Quit(r) /\ UNCHANGED done)
    <3>1. /\ step[r] = "second" /\ done' = [done EXCEPT ![m] = 2]
          /\ step' = [step EXCEPT ![r] = "record"] /\ UNCHANGED <<log, overlapped, todo, batch>>
      BY <2>1, <2>5 DEF UpSecond
    <3>2. Ups(r, m, 2, "record")
      BY <2>1, <2>2, <3>1 DEF Ups
    <3> QED
      BY <3>2, UpStep
  <2> QED
    BY <1>3, <2>3, <2>4, <2>5
<1>4. ASSUME NEW r \in Runner, Stops(r) PROVE MigrationsSafe'
  BY <1>4, QuitStep DEF Stops
<1>5. CASE UNCHANGED migratorVars
  <2>1. /\ done' = done /\ log' = log /\ todo' = todo /\ step' = step /\ batch' = batch
        /\ overlapped' = overlapped
    BY <1>5 DEF migratorVars
  <2>2. MigratorTypeOK'
    BY <1>a, <2>1, Zenon DEF MigratorTypeOK
  <2>3. RecordedAreDone' /\ OneRunPerRow' /\ Bounded' /\ Recorded' = Recorded
    BY <1>a, <2>1 DEF RecordedAreDone, OneRunPerRow, Bounded, Recorded
  <2>4. ASSUME NEW q \in Runner PROVE RunsInOrder(q)' /\ (~overlapped' => RunsAlone(q)')
    BY <2>1, <2>3 DEF MigrationsSafe, RunsInOrder, RunsAlone
  <2> QED
    BY <2>2, <2>3, <2>4 DEF MigrationsSafe, MigratorInv
<1> QED
  BY <1>1, <1>2, <1>3, <1>4, <1>5, RecordStep DEF MigratorNext

\* Whatever dies and whoever runs at once, the migrations table names only
\* migrations that ran to their end and in their order, and each of them once
\* and each batch for one process as long as no two runs overlap.
THEOREM MigrationsAreKept == MigratorSpec => []MigratorInv
<1>1. MigrationsSafe => MigratorInv
  BY DEF MigrationsSafe
<1> QED
  BY <1>1, MigrationsInit, MigrationsStep, PTL DEF MigratorSpec
-----------------------------------------------------------------------------
(***************************************************************************)
(* Throttle.  A request is either alone from its read to its write, or     *)
(* among the raced ones.                                                   *)
(***************************************************************************)
\* The count of an entry lies between the requests it let pass alone and all
\* those it let pass, and is exact where the store hands out its entries.
Counted(e) ==
    /\ counts[e] <= Limit /\ counts[e] <= Cardinality(passedOn[e])
    /\ Cardinality(passedOn[e] \ raced) <= counts[e]
    /\ handsOut => Cardinality(passedOn[e]) <= counts[e]
    /\ \A v \in passedOn[e] : visit[v].at = "passed" /\ visit[e].at = "passed"

\* While a request is under way only raced ones pass.
ReadOf(v) ==
    visit[v].at = "read" =>
        /\ visit[v].late => visit[v].entry \notin Visit \ over
        /\ ~visit[v].late =>
              /\ visit[v].entry \in Visit /\ visit[visit[v].entry].at = "passed"
              /\ visit[v].count <= Cardinality(passedOn[visit[v].entry])
              /\ Cardinality(passedOn[visit[v].entry] \ raced) <= visit[v].count
        /\ \A u \in Visit : u # v /\ visit[u].at = "read" => v \in raced
        /\ ~evicted => \A e \in Visit \ over : e # visit[v].entry => passedOn[e] \subseteq raced

\* Of a window that is not over and not the current one only raced requests passed.
OneWindow ==
    /\ current \in Visit => visit[current].at = "passed"
    /\ ~evicted => \A e \in Visit \ over : e # current => passedOn[e] \subseteq raced

TurnedAway(v) ==
    visit[v].at = "turned away" =>
        visit[v].entry \in Visit /\ Cardinality(passedOn[visit[v].entry]) >= Limit

ThrottleSafe ==
    /\ ThrottleTypeOK /\ OneWindow
    /\ \A v \in Visit : Counted(v) /\ ReadOf(v) /\ TurnedAway(v)

LEMMA VisitCounts ==
    ASSUME NEW S \in SUBSET Visit, NEW T \in SUBSET S
    PROVE  /\ Cardinality(S) \in Nat /\ Cardinality(T) \in Nat
           /\ Cardinality(T) <= Cardinality(S)
<1>1. IsFiniteSet(S)
  BY ThrottleAssumption, FS_Subset
<1>2. IsFiniteSet(T) /\ Cardinality(T) <= Cardinality(S)
  BY <1>1, FS_Subset
<1> QED
  BY <1>1, <1>2, FS_CardinalityType

LEMMA OneVisitMore ==
    ASSUME NEW S \in SUBSET Visit, NEW v \in Visit
    PROVE  /\ v \notin S => Cardinality(S \cup {v}) = Cardinality(S) + 1
           /\ Cardinality(S) <= Cardinality(S \cup {v})
           /\ Cardinality(S \cup {v}) <= Cardinality(S) + 1
           /\ Cardinality(S) \in Nat /\ Cardinality(S \cup {v}) \in Nat
<1>1. IsFiniteSet(S)
  BY ThrottleAssumption, FS_Subset
<1>2. Cardinality(S) \in Nat
  BY VisitCounts
<1>3. Cardinality(S \cup {v}) = IF v \in S THEN Cardinality(S) ELSE Cardinality(S) + 1
  BY <1>1, FS_AddElement
<1> QED
  BY <1>2, <1>3

LEMMA ThrottleStarts == ThrottleInit => ThrottleSafe
<1> SUFFICES ASSUME ThrottleInit PROVE ThrottleSafe
  OBVIOUS
<1>1. visit \in [Visit -> Seeing] /\ \A v \in Visit : visit[v].at = "new"
  BY DEF ThrottleInit, Seeing
<1>2. /\ counts \in [Visit -> Nat] /\ passedOn \in [Visit -> SUBSET Visit]
      /\ \A e \in Visit : counts[e] = 0 /\ passedOn[e] = {}
  BY DEF ThrottleInit
<1>3. ThrottleTypeOK
  BY <1>1, <1>2 DEF ThrottleInit, ThrottleTypeOK
<1>4. ASSUME NEW v \in Visit PROVE Counted(v) /\ ReadOf(v) /\ TurnedAway(v)
  <2>1. Cardinality({}) = 0 /\ passedOn[v] \ raced = {}
    BY <1>2, FS_EmptySet
  <2> QED
    <3>1. ReadOf(v) /\ TurnedAway(v)
      BY <1>1 DEF ReadOf, TurnedAway
    <3>2. counts[v] = 0 /\ passedOn[v] = {} /\ Limit \in Nat
      BY <1>2, ThrottleAssumption
    <3> QED
      BY <2>1, <3>1, <3>2 DEF Counted
<1>5. OneWindow
  BY <1>2, ThrottleAssumption DEF ThrottleInit, OneWindow
<1> QED
  BY <1>3, <1>4, <1>5 DEF ThrottleSafe

\* A request passes, on an entry of its own or on the one it read.
PassesOn(v, e, n) ==
    /\ visit[v].at = "read" /\ LetPass(v, e, n)
    /\ e \in Visit /\ (e = v \/ visit[e].at = "passed")
    /\ n \in Nat /\ n <= Limit
    /\ n <= Cardinality(passedOn[e]) + 1 /\ Cardinality(passedOn[e] \ raced) + 1 <= n
    /\ handsOut => Cardinality(passedOn[e]) + 1 <= n
    /\ ~evicted => \A g \in Visit \ over : g # e => passedOn[g] \subseteq raced

LEMMA PassStep ==
    ASSUME ThrottleSafe, NEW v \in Visit, NEW e, NEW n, PassesOn(v, e, n)
    PROVE  ThrottleSafe'
<1>a. /\ ThrottleTypeOK /\ OneWindow /\ ReadOf(v)
      /\ \A u \in Visit : Counted(u) /\ ReadOf(u) /\ TurnedAway(u)
  BY DEF ThrottleSafe
<1>b. /\ visit[v].at = "read" /\ e \in Visit /\ n \in Nat /\ n <= Limit
      /\ e = v \/ visit[e].at = "passed"
      /\ counts' = [counts EXCEPT ![e] = n] /\ current' = e
      /\ passedOn' = [passedOn EXCEPT ![e] = @ \cup {v}]
      /\ visit' = [visit EXCEPT ![v].at = "passed"]
      /\ UNCHANGED <<handsOut, over, raced, evicted>>
  BY DEF PassesOn, LetPass
<1>1. \A u \in Visit :
        /\ visit'[u].at = (IF u = v THEN "passed" ELSE visit[u].at)
        /\ visit'[u].entry = visit[u].entry
        /\ visit'[u].late = visit[u].late /\ visit'[u].count = visit[u].count
  BY <1>a, <1>b DEF ThrottleTypeOK, Seeing
<1>2. \A g \in Visit : /\ counts'[g] = (IF g = e THEN n ELSE counts[g])
                       /\ passedOn'[g] = (IF g = e THEN passedOn[g] \cup {v} ELSE passedOn[g])
                       /\ passedOn[g] \subseteq Visit
  BY <1>a, <1>b DEF ThrottleTypeOK
<1>3. ThrottleTypeOK'
  <2>1. visit' \in [Visit -> Seeing]
    BY <1>a, <1>b DEF ThrottleTypeOK, Seeing
  <2>2. counts' \in [Visit -> Nat] /\ passedOn' \in [Visit -> SUBSET Visit]
    BY <1>a, <1>b DEF ThrottleTypeOK
  <2> QED
    BY <1>a, <1>b, <2>1, <2>2 DEF ThrottleTypeOK
<1>4. v \notin passedOn[e]
  BY <1>a, <1>b DEF Counted
<1>5. /\ Cardinality(passedOn[e] \cup {v}) = Cardinality(passedOn[e]) + 1
      /\ Cardinality(passedOn[e]) \in Nat
  BY <1>2, <1>b, <1>4, OneVisitMore
<1>6. Cardinality((passedOn[e] \cup {v}) \ raced) <= n
  <2>1. /\ Cardinality((passedOn[e] \ raced) \cup {v}) <= Cardinality(passedOn[e] \ raced) + 1
        /\ Cardinality((passedOn[e] \ raced) \cup {v}) \in Nat
        /\ Cardinality(passedOn[e] \ raced) \in Nat
    BY <1>2, <1>b, OneVisitMore
  <2>2. /\ Cardinality((passedOn[e] \cup {v}) \ raced)
             <= Cardinality((passedOn[e] \ raced) \cup {v})
        /\ Cardinality((passedOn[e] \cup {v}) \ raced) \in Nat
    BY <1>2, <1>b, VisitCounts
  <2>3. Cardinality(passedOn[e] \ raced) + 1 <= n
    BY DEF PassesOn
  <2> QED
    BY <2>1, <2>2, <2>3, <1>b
<1>7. ASSUME NEW g \in Visit PROVE Counted(g)'
  <2>1. CASE g = e
    <3>1. n <= Cardinality(passedOn[e]) + 1 /\ (handsOut => Cardinality(passedOn[e]) + 1 <= n)
      BY DEF PassesOn
    <3>2. \A u \in passedOn'[e] : visit'[u].at = "passed" /\ visit'[e].at = "passed"
      <4>1. visit'[e].at = "passed" /\ visit'[v].at = "passed"
        BY <1>1, <1>b
      <4>2. \A u \in passedOn[e] : u \in Visit /\ visit[u].at = "passed"
        BY <1>2, <1>a, <1>b DEF Counted
      <4> QED
        BY <1>1, <1>2, <1>b, <4>1, <4>2
    <3> QED
      BY <1>2, <1>5, <1>6, <1>b, <2>1, <3>1, <3>2 DEF Counted
  <2>2. CASE g # e
    <3>1. \A u \in passedOn[g] : visit'[u].at = "passed" /\ visit'[g].at = "passed"
      BY <1>1, <1>2, <1>a DEF Counted
    <3>2. counts'[g] = counts[g] /\ passedOn'[g] = passedOn[g]
      BY <1>2, <2>2
    <3> QED
      BY <1>a, <1>b, <3>1, <3>2 DEF Counted
  <2> QED
    BY <2>1, <2>2
<1>8. \A g \in Visit : Cardinality(passedOn[g]) <= Cardinality(passedOn'[g])
                       /\ Cardinality(passedOn'[g]) \in Nat /\ Cardinality(passedOn[g]) \in Nat
  <2> SUFFICES ASSUME NEW g \in Visit
               PROVE  /\ Cardinality(passedOn[g]) <= Cardinality(passedOn'[g])
                      /\ Cardinality(passedOn'[g]) \in Nat /\ Cardinality(passedOn[g]) \in Nat
    OBVIOUS
  <2> QED
    BY <1>2, VisitCounts
<1>9. ASSUME NEW u \in Visit PROVE ReadOf(u)'
  <2>1. SUFFICES ASSUME visit[u].at = "read", u # v PROVE ReadOf(u)'
    BY <1>1 DEF ReadOf
  <2>2. u \in raced /\ v \in raced
    BY <1>a, <1>b, <2>1 DEF ReadOf
  <2>3. \A g \in Visit : passedOn'[g] \ raced = passedOn[g] \ raced
    BY <1>2, <2>2
  <2>4. ~visit[u].late =>
            /\ visit[u].entry \in Visit /\ visit'[visit[u].entry].at = "passed"
            /\ visit[u].count <= Cardinality(passedOn'[visit[u].entry])
            /\ Cardinality(passedOn'[visit[u].entry] \ raced) <= visit[u].count
    <3>1. visit[u].count \in Nat
      BY <1>a DEF ThrottleTypeOK, Seeing
    <3>2. PICK g : g = visit[u].entry
      OBVIOUS
    <3>3. ~visit[u].late =>
              /\ g \in Visit /\ visit[g].at = "passed"
              /\ visit[u].count <= Cardinality(passedOn[g])
              /\ Cardinality(passedOn[g] \ raced) <= visit[u].count
      BY <1>a, <2>1, <3>2 DEF ReadOf
    <3>4. ~visit[u].late =>
              /\ g \in Visit /\ visit'[g].at = "passed"
              /\ visit[u].count <= Cardinality(passedOn'[g])
              /\ Cardinality(passedOn'[g] \ raced) <= visit[u].count
      <4>1. SUFFICES ASSUME ~visit[u].late
                     PROVE  /\ g \in Visit /\ visit'[g].at = "passed"
                            /\ visit[u].count <= Cardinality(passedOn'[g])
                            /\ Cardinality(passedOn'[g] \ raced) <= visit[u].count
        OBVIOUS
      <4>2. g \in Visit /\ visit'[g].at = "passed"
        BY <1>1, <3>3, <4>1
      <4>3. /\ Cardinality(passedOn[g]) <= Cardinality(passedOn'[g])
            /\ Cardinality(passedOn'[g]) \in Nat /\ Cardinality(passedOn[g]) \in Nat
        BY <1>8, <4>2
      <4>4. visit[u].count <= Cardinality(passedOn'[g])
        BY <3>1, <3>3, <4>1, <4>3
      <4> QED
        BY <2>3, <3>3, <4>1, <4>2, <4>4
    <3> QED
      BY <3>2, <3>4
  <2>5. ~evicted => \A g \in Visit \ over : g # visit[u].entry => passedOn'[g] \subseteq raced
    <3>1. ~evicted => \A g \in Visit \ over : g # visit[u].entry => passedOn[g] \subseteq raced
      <4>1. ReadOf(u)
        BY <1>a
      <4> QED
        BY <2>1, <4>1 DEF ReadOf
    <3>2. \A g \in Visit : passedOn[g] \subseteq raced => passedOn'[g] \subseteq raced
      BY <1>2, <2>2
    <3> QED
      BY <3>1, <3>2
  <2>6. visit[u].late => visit[u].entry \notin Visit \ over
    BY <1>a, <2>1 DEF ReadOf
  <2>7. \A w \in Visit : w # u /\ visit'[w].at = "read" => u \in raced
    BY <2>2
  <2> QED
    BY <1>1, <1>b, <2>4, <2>5, <2>6, <2>7 DEF ReadOf
<1>10. ASSUME NEW u \in Visit PROVE TurnedAway(u)'
  <2>1. SUFFICES ASSUME visit[u].at = "turned away" PROVE TurnedAway(u)'
    BY <1>1 DEF TurnedAway
  <2>2. visit[u].entry \in Visit /\ Cardinality(passedOn[visit[u].entry]) >= Limit
    BY <1>a, <2>1 DEF TurnedAway
  <2>3. visit'[u].entry = visit[u].entry
    BY <1>1
  <2>4. PICK g \in Visit : g = visit[u].entry /\ Cardinality(passedOn[g]) >= Limit
    BY <2>2
  <2>5. Cardinality(passedOn'[g]) >= Limit
    BY <1>8, <2>4, ThrottleAssumption
  <2> QED
    BY <2>3, <2>4, <2>5 DEF TurnedAway
<1>11. OneWindow'
  <2>1. visit'[e].at = "passed"
    BY <1>1, <1>b
  <2>2. ~evicted => \A g \in Visit \ over : g # e => passedOn'[g] \subseteq raced
    BY <1>2 DEF PassesOn
  <2> QED
    BY <1>b, <2>1, <2>2 DEF OneWindow
<1> QED
  BY <1>3, <1>7, <1>9, <1>10, <1>11 DEF ThrottleSafe

LEMMA ThrottleStep == ThrottleSafe /\ [ThrottleNext]_throttleVars => ThrottleSafe'
<1> SUFFICES ASSUME ThrottleSafe, [ThrottleNext]_throttleVars PROVE ThrottleSafe'
  OBVIOUS
<1>a. /\ ThrottleTypeOK /\ OneWindow
      /\ \A u \in Visit : Counted(u) /\ ReadOf(u) /\ TurnedAway(u)
  BY DEF ThrottleSafe
<1>b. \A e \in Visit : /\ passedOn[e] \subseteq Visit /\ counts[e] \in Nat
                       /\ Cardinality(passedOn[e]) \in Nat
                       /\ Cardinality(passedOn[e] \ raced) \in Nat
  <2> SUFFICES ASSUME NEW e \in Visit
               PROVE  /\ passedOn[e] \subseteq Visit /\ counts[e] \in Nat
                      /\ Cardinality(passedOn[e]) \in Nat
                      /\ Cardinality(passedOn[e] \ raced) \in Nat
    OBVIOUS
  <2>1. passedOn[e] \subseteq Visit /\ counts[e] \in Nat
    BY <1>a DEF ThrottleTypeOK
  <2> QED
    BY <2>1, VisitCounts
<1>1. ASSUME NEW v \in Visit, GetEntry(v) PROVE ThrottleSafe'
  <2>1. /\ visit[v].at = "new" /\ raced \subseteq raced' /\ raced' \subseteq Visit
        /\ UNCHANGED <<handsOut, counts, current, over, passedOn, evicted>>
        /\ visit' = [visit EXCEPT ![v] =
               [at |-> "read", entry |-> current, late |-> NoneCurrent,
                count |-> IF current = NoWindow THEN 0 ELSE counts[current]]]
    BY <1>1, <1>a DEF GetEntry, Underway, ThrottleTypeOK
  <2>2. \A u \in Visit : u # v => visit'[u] = visit[u]
    BY <2>1, <1>a DEF ThrottleTypeOK
  <2>3. /\ visit'[v].at = "read" /\ visit'[v].entry = current
        /\ visit'[v].late <=> NoneCurrent
        /\ current # NoWindow => visit'[v].count = counts[current]
    BY <2>1, <1>a DEF ThrottleTypeOK
  <2>4. ThrottleTypeOK'
    <3>1. PICK l \in BOOLEAN : l = NoneCurrent
      <4>1. (current \in {NoWindow} \cup over) \in BOOLEAN
        OBVIOUS
      <4>2. NoneCurrent \in BOOLEAN
        BY <4>1, Zenon DEF NoneCurrent
      <4> QED
        BY <4>2, Zenon
    <3>2. PICK k \in Nat : k = IF current = NoWindow THEN 0 ELSE counts[current]
      BY <1>a, <1>b DEF ThrottleTypeOK
    <3>3. [at |-> "read", entry |-> current, late |-> l, count |-> k] \in Seeing
      BY <1>a DEF Seeing, ThrottleTypeOK
    <3>4. visit' = [visit EXCEPT ![v] =
               [at |-> "read", entry |-> current, late |-> l, count |-> k]]
      BY <2>1, <3>1, <3>2, Zenon
    <3>5. visit' \in [Visit -> Seeing]
      BY <1>a, <3>3, <3>4 DEF ThrottleTypeOK
    <3> QED
      BY <1>a, <2>1, <3>5 DEF ThrottleTypeOK
  <2>5. \A u, w \in Visit :
            u # w /\ visit'[u].at = "read" /\ visit'[w].at = "read" => u \in raced'
    <3> SUFFICES ASSUME NEW u \in Visit, NEW w \in Visit,
                        u # w, visit'[u].at = "read", visit'[w].at = "read"
                 PROVE  u \in raced'
      OBVIOUS
    <3>1. raced' = IF Underway = {} THEN raced ELSE raced \cup Underway \cup {v}
      BY <1>1 DEF GetEntry
    <3>2. u # v => u \in Underway
      BY <2>2 DEF Underway
    <3>3. w # v => w \in Underway
      BY <2>2 DEF Underway
    <3> QED
      BY <3>1, <3>2, <3>3
  <2>6. \A e \in Visit : /\ Cardinality(passedOn[e] \ raced') \in Nat
                         /\ Cardinality(passedOn[e] \ raced') <= Cardinality(passedOn[e] \ raced)
    <3> SUFFICES ASSUME NEW e \in Visit
                 PROVE  /\ Cardinality(passedOn[e] \ raced') \in Nat
                        /\ Cardinality(passedOn[e] \ raced') <= Cardinality(passedOn[e] \ raced)
      OBVIOUS
    <3> QED
      BY <1>b, <2>1, VisitCounts
  <2>7. \A u \in Visit : visit[u].at = "passed" => u # v /\ visit'[u].at = "passed"
    BY <2>1, <2>2
  <2>8. ASSUME NEW e \in Visit PROVE Counted(e)'
    <3>1. \A u \in passedOn[e] : visit'[u].at = "passed" /\ visit'[e].at = "passed"
      BY <1>a, <1>b, <2>7 DEF Counted
    <3>2. /\ counts[e] <= Limit /\ counts[e] <= Cardinality(passedOn[e])
          /\ Cardinality(passedOn[e] \ raced) <= counts[e]
          /\ handsOut => Cardinality(passedOn[e]) <= counts[e]
      BY <1>a DEF Counted
    <3>3. /\ Cardinality(passedOn[e] \ raced') \in Nat /\ counts[e] \in Nat
          /\ Cardinality(passedOn[e] \ raced') <= Cardinality(passedOn[e] \ raced)
          /\ Cardinality(passedOn[e] \ raced) \in Nat
      BY <1>b, <2>6
    <3>4. Cardinality(passedOn[e] \ raced') <= counts[e]
      BY <3>2, <3>3
    <3> QED
      BY <2>1, <3>1, <3>2, <3>4 DEF Counted
  <2>9. ASSUME NEW u \in Visit PROVE ReadOf(u)'
    <3>1. CASE u = v
      <4>1. visit'[v].late => current \notin Visit \ over
        BY <2>3, ThrottleAssumption DEF NoneCurrent
      <4>2. ~visit'[v].late =>
                /\ current \in Visit /\ visit'[current].at = "passed"
                /\ visit'[v].count <= Cardinality(passedOn[current])
                /\ Cardinality(passedOn[current] \ raced') <= visit'[v].count
        <5>1. SUFFICES ASSUME ~visit'[v].late
                       PROVE  /\ current \in Visit /\ visit'[current].at = "passed"
                              /\ visit'[v].count <= Cardinality(passedOn[current])
                              /\ Cardinality(passedOn[current] \ raced') <= visit'[v].count
          OBVIOUS
        <5>2. current \in Visit /\ visit'[v].count = counts[current]
          BY <1>a, <2>3, <5>1 DEF NoneCurrent, ThrottleTypeOK
        <5>3. /\ visit[current].at = "passed" /\ counts[current] <= Cardinality(passedOn[current])
              /\ Cardinality(passedOn[current] \ raced) <= counts[current]
          BY <1>a, <5>2 DEF OneWindow, Counted
        <5>4. /\ Cardinality(passedOn[current] \ raced') \in Nat /\ counts[current] \in Nat
              /\ Cardinality(passedOn[current] \ raced') <= Cardinality(passedOn[current] \ raced)
              /\ Cardinality(passedOn[current] \ raced) \in Nat
          BY <1>b, <2>6, <5>2
        <5>5. Cardinality(passedOn[current] \ raced') <= counts[current]
          BY <5>3, <5>4
        <5> QED
          BY <2>7, <5>2, <5>3, <5>5
      <4>3. ~evicted => \A e \in Visit \ over : e # current => passedOn[e] \subseteq raced'
        BY <1>a, <2>1 DEF OneWindow
      <4>4. \A w \in Visit : w # v /\ visit'[w].at = "read" => v \in raced'
        BY <2>3, <2>5
      <4> QED
        BY <2>1, <2>3, <3>1, <4>1, <4>2, <4>3, <4>4 DEF ReadOf
    <3>2. CASE u # v /\ visit[u].at = "read"
      <4>1. ReadOf(u) /\ visit'[u] = visit[u] /\ visit[u].count \in Nat
        BY <1>a, <2>2, <3>2 DEF ThrottleTypeOK, Seeing
      <4>2. PICK g : g = visit[u].entry
        OBVIOUS
      <4>3. ~visit[u].late =>
                /\ g \in Visit /\ visit[g].at = "passed"
                /\ visit[u].count <= Cardinality(passedOn[g])
                /\ Cardinality(passedOn[g] \ raced) <= visit[u].count
        BY <3>2, <4>1, <4>2 DEF ReadOf
      <4>4. ~visit[u].late =>
                /\ g \in Visit /\ visit'[g].at = "passed"
                /\ visit[u].count <= Cardinality(passedOn[g])
                /\ Cardinality(passedOn[g] \ raced') <= visit[u].count
        <5>1. SUFFICES ASSUME ~visit[u].late
                       PROVE  /\ g \in Visit /\ visit'[g].at = "passed"
                              /\ visit[u].count <= Cardinality(passedOn[g])
                              /\ Cardinality(passedOn[g] \ raced') <= visit[u].count
          OBVIOUS
        <5>2. /\ Cardinality(passedOn[g] \ raced') \in Nat
              /\ Cardinality(passedOn[g] \ raced') <= Cardinality(passedOn[g] \ raced)
              /\ Cardinality(passedOn[g] \ raced) \in Nat
          BY <1>b, <2>6, <4>3, <5>1
        <5>3. Cardinality(passedOn[g] \ raced') <= visit[u].count
          BY <4>1, <4>3, <5>1, <5>2
        <5> QED
          BY <2>7, <4>3, <5>1, <5>3
      <4>5. ~evicted => \A e \in Visit \ over : e # g => passedOn[e] \subseteq raced'
        BY <2>1, <3>2, <4>1, <4>2 DEF ReadOf
      <4>6. visit[u].late => g \notin Visit \ over
        BY <3>2, <4>1, <4>2 DEF ReadOf
      <4>7. \A w \in Visit : w # u /\ visit'[w].at = "read" => u \in raced'
        BY <2>5, <3>2, <4>1
      <4> QED
        BY <2>1, <4>1, <4>2, <4>4, <4>5, <4>6, <4>7 DEF ReadOf
    <3>3. CASE u # v /\ visit[u].at # "read"
      BY <2>2, <3>3 DEF ReadOf
    <3> QED
      BY <3>1, <3>2, <3>3
  <2>10. ASSUME NEW u \in Visit PROVE TurnedAway(u)'
    <3>1. CASE u = v
      BY <2>3, <3>1 DEF TurnedAway
    <3>2. CASE u # v
      BY <1>a, <2>1, <2>2, <3>2 DEF TurnedAway
    <3> QED
      BY <3>1, <3>2
  <2>11. OneWindow'
    BY <1>a, <2>1, <2>7 DEF OneWindow
  <2> QED
    BY <2>4, <2>8, <2>9, <2>10, <2>11 DEF ThrottleSafe
<1>2. ASSUME NEW v \in Visit, OpenWindow(v) PROVE ThrottleSafe'
  <2>1. visit[v].at = "read" /\ visit[v].late /\ LetPass(v, v, 1)
    BY <1>2 DEF OpenWindow
  <2>2. passedOn[v] = {}
    BY <1>a, <2>1 DEF Counted
  <2>3. Cardinality({}) = 0 /\ passedOn[v] \ raced = {}
    BY <2>2, FS_EmptySet
  <2>4. ~evicted => \A g \in Visit \ over : g # v => passedOn[g] \subseteq raced
    <3>1. ReadOf(v)
      BY <1>a
    <3> QED
      BY <2>1, <3>1 DEF ReadOf
  <2>5. PassesOn(v, v, 1)
    BY <2>1, <2>2, <2>3, <2>4, ThrottleAssumption DEF PassesOn
  <2> QED
    BY <2>5, PassStep
<1>3. ASSUME NEW v \in Visit, Count(v) PROVE ThrottleSafe'
  <2>1. PICK e : e = visit[v].entry
    OBVIOUS
  <2>2. PICK k : k = Seen(v)
    OBVIOUS
  <2>3. /\ visit[v].at = "read" /\ ~visit[v].late /\ k < Limit
        /\ LetPass(v, e, k + 1)
        /\ k = IF handsOut THEN counts[e] ELSE visit[v].count
    BY <1>3, <2>1, <2>2 DEF Count, Seen
  <2>4. /\ e \in Visit /\ visit[e].at = "passed"
        /\ visit[v].count <= Cardinality(passedOn[e])
        /\ Cardinality(passedOn[e] \ raced) <= visit[v].count
        /\ ~evicted => \A g \in Visit \ over : g # e => passedOn[g] \subseteq raced
    <3>1. ReadOf(v)
      BY <1>a
    <3> QED
      BY <2>1, <2>3, <3>1 DEF ReadOf
  <2>5. visit[v].count \in Nat
    BY <1>a DEF ThrottleTypeOK, Seeing
  <2>6. /\ counts[e] <= Cardinality(passedOn[e])
        /\ Cardinality(passedOn[e] \ raced) <= counts[e]
        /\ handsOut => Cardinality(passedOn[e]) <= counts[e]
    BY <1>a, <2>4 DEF Counted
  <2>7. /\ k \in Nat /\ k <= Cardinality(passedOn[e])
        /\ Cardinality(passedOn[e] \ raced) <= k
        /\ handsOut => Cardinality(passedOn[e]) <= k
    BY <2>3, <2>4, <2>5, <2>6, <1>b
  <2>8. /\ k + 1 \in Nat /\ k + 1 <= Limit /\ k + 1 <= Cardinality(passedOn[e]) + 1
        /\ Cardinality(passedOn[e] \ raced) + 1 <= k + 1
        /\ handsOut => Cardinality(passedOn[e]) + 1 <= k + 1
    BY <1>b, <2>3, <2>4, <2>7, ThrottleAssumption
  <2>9. PassesOn(v, e, k + 1)
    BY <2>3, <2>4, <2>8 DEF PassesOn
  <2> QED
    BY <2>9, PassStep
<1>4. ASSUME NEW v \in Visit, TurnAway(v) PROVE ThrottleSafe'
  <2>1. /\ visit[v].at = "read" /\ ~visit[v].late
        /\ visit' = [visit EXCEPT ![v].at = "turned away"]
        /\ UNCHANGED <<handsOut, counts, current, over, passedOn, raced, evicted>>
    BY <1>4 DEF TurnAway
  <2>2. \A u \in Visit :
            /\ visit'[u].at = (IF u = v THEN "turned away" ELSE visit[u].at)
            /\ visit'[u].entry = visit[u].entry
            /\ visit'[u].late = visit[u].late /\ visit'[u].count = visit[u].count
    BY <1>a, <2>1 DEF ThrottleTypeOK, Seeing
  <2>3. ThrottleTypeOK'
    <3>1. visit' \in [Visit -> Seeing]
      BY <1>a, <2>1 DEF ThrottleTypeOK, Seeing
    <3> QED
      BY <1>a, <2>1, <3>1 DEF ThrottleTypeOK
  <2>4. \A u \in Visit : visit[u].at = "passed" => visit'[u].at = "passed"
    BY <2>1, <2>2
  <2>5. ASSUME NEW e \in Visit PROVE Counted(e)'
    BY <1>a, <1>b, <2>1, <2>4 DEF Counted
  <2>6. ASSUME NEW u \in Visit PROVE ReadOf(u)'
    <3>1. ReadOf(u)
      BY <1>a
    <3>2. \A w \in Visit : visit'[w].at = "read" => visit[w].at = "read"
      BY <2>2
    <3>3. visit[u].entry \in Visit /\ visit[visit[u].entry].at = "passed"
             => visit'[visit[u].entry].at = "passed"
      BY <2>4
    <3> QED
      BY <2>1, <2>2, <3>1, <3>2, <3>3 DEF ReadOf
  <2>7. visit[v].entry \in Visit /\ Cardinality(passedOn[visit[v].entry]) >= Limit
    <3>1. PICK e : e = visit[v].entry
      OBVIOUS
    <3>2. ReadOf(v) /\ visit[v].count \in Nat
      BY <1>a DEF ThrottleTypeOK, Seeing
    <3>3. e \in Visit /\ visit[v].count <= Cardinality(passedOn[e])
      BY <2>1, <3>1, <3>2 DEF ReadOf
    <3>4. counts[e] >= Limit \/ visit[v].count >= Limit
      BY <1>4, <3>1 DEF TurnAway, Seen
    <3>5. counts[e] <= Cardinality(passedOn[e])
      BY <1>a, <3>3 DEF Counted
    <3>6. counts[e] \in Nat /\ Cardinality(passedOn[e]) \in Nat
      BY <1>b, <3>3
    <3>7. Cardinality(passedOn[e]) >= Limit
      BY <3>2, <3>3, <3>4, <3>5, <3>6, ThrottleAssumption
    <3> QED
      BY <3>1, <3>3, <3>7
  <2>8. ASSUME NEW u \in Visit PROVE TurnedAway(u)'
    <3>1. TurnedAway(u)
      BY <1>a
    <3> QED
      BY <2>1, <2>2, <2>7, <3>1 DEF TurnedAway
  <2>9. OneWindow'
    BY <1>a, <2>1, <2>4 DEF OneWindow
  <2> QED
    BY <2>3, <2>5, <2>6, <2>8, <2>9 DEF ThrottleSafe
<1>5. CASE EndWindow \/ Sweep \/ Evict
  <2>1. /\ over \subseteq over' /\ over' \subseteq Visit /\ (evicted => evicted')
        /\ UNCHANGED <<handsOut, counts, visit, passedOn, raced>>
        /\ current' = current \/ current' = NoWindow
    BY <1>5, <1>a DEF EndWindow, Sweep, Evict, NoneCurrent, ThrottleTypeOK
  <2>2. ThrottleTypeOK'
    <3>1. evicted' \in BOOLEAN
      BY <1>5, <1>a DEF EndWindow, Sweep, Evict, ThrottleTypeOK
    <3> QED
      BY <1>a, <2>1, <3>1 DEF ThrottleTypeOK
  <2>3. ASSUME NEW u \in Visit PROVE Counted(u)' /\ TurnedAway(u)'
    BY <1>a, <2>1 DEF Counted, TurnedAway
  <2>4. ASSUME NEW u \in Visit PROVE ReadOf(u)'
    <3>1. ReadOf(u)
      BY <1>a
    <3> QED
      BY <2>1, <3>1 DEF ReadOf
  <2>5. OneWindow'
    <3>1. current' \in Visit => visit'[current'].at = "passed"
      BY <1>a, <2>1, ThrottleAssumption DEF OneWindow
    <3>2. ~evicted' => \A e \in Visit \ over' : e # current' => passedOn[e] \subseteq raced
      <4>1. CASE current' = current
        BY <1>a, <2>1, <4>1 DEF OneWindow
      <4>2. CASE Sweep
        BY <1>a, <4>2 DEF OneWindow, Sweep
      <4> QED
        BY <1>5, <4>1, <4>2 DEF EndWindow, Evict
    <3> QED
      BY <2>1, <3>1, <3>2 DEF OneWindow
  <2> QED
    BY <2>2, <2>3, <2>4, <2>5 DEF ThrottleSafe
<1>6. CASE UNCHANGED throttleVars
  BY <1>a, <1>6 DEF throttleVars, ThrottleSafe, ThrottleTypeOK, OneWindow, Counted, ReadOf,
     TurnedAway
<1> QED
  BY <1>1, <1>2, <1>3, <1>4, <1>5, <1>6 DEF ThrottleNext

LEMMA ThrottleSafety == ThrottleSafe => ThrottleInv
<1> SUFFICES ASSUME ThrottleSafe PROVE ThrottleInv
  OBVIOUS
<1>a. /\ ThrottleTypeOK /\ OneWindow
      /\ \A u \in Visit : Counted(u) /\ TurnedAway(u)
  BY DEF ThrottleSafe
<1>b. \A e \in Visit : /\ passedOn[e] \subseteq Visit /\ counts[e] \in Nat
                       /\ Cardinality(passedOn[e]) \in Nat
  <2> SUFFICES ASSUME NEW e \in Visit
               PROVE  /\ passedOn[e] \subseteq Visit /\ counts[e] \in Nat
                      /\ Cardinality(passedOn[e]) \in Nat
    OBVIOUS
  <2>1. passedOn[e] \subseteq Visit /\ counts[e] \in Nat
    BY <1>a DEF ThrottleTypeOK
  <2> QED
    BY <2>1, VisitCounts
<1>1. TurnedAwayLate
  BY <1>a DEF TurnedAway, TurnedAwayLate
<1>2. ASSUME handsOut, NEW e \in Visit PROVE Cardinality(passedOn[e]) <= Limit
  <2>1. counts[e] <= Limit /\ Cardinality(passedOn[e]) <= counts[e]
    BY <1>a, <1>2 DEF Counted
  <2>2. counts[e] \in Nat /\ Cardinality(passedOn[e]) \in Nat
    BY <1>b
  <2> QED
    BY <2>1, <2>2, ThrottleAssumption
<1>3. ASSUME ~evicted
      PROVE  Cardinality(UNION {passedOn[e] : e \in Visit \ over}) <= Limit + Cardinality(raced)
  <2> DEFINE all == UNION {passedOn[e] : e \in Visit \ over}
  <2>1. all \subseteq Visit /\ raced \subseteq Visit
    BY <1>a, <1>b DEF ThrottleTypeOK
  <2>2. PICK alone \in SUBSET Visit : /\ all \subseteq alone \cup raced
                                      /\ Cardinality(alone) \in Nat
                                      /\ Cardinality(alone) <= Limit
    <3>1. CASE current \in Visit
      <4>1. all \subseteq (passedOn[current] \ raced) \cup raced
        BY <1>3, <1>a DEF OneWindow
      <4>2. passedOn[current] \ raced \in SUBSET Visit
        BY <1>b, <3>1
      <4>3. Cardinality(passedOn[current] \ raced) \in Nat
        BY <4>2, VisitCounts
      <4>4. Cardinality(passedOn[current] \ raced) <= Limit
        BY <1>a, <1>b, <3>1, <4>3, ThrottleAssumption DEF Counted
      <4> QED
        BY <4>1, <4>2, <4>3, <4>4
    <3>2. CASE current \notin Visit
      <4>1. all \subseteq {} \cup raced
        BY <1>3, <1>a, <3>2 DEF OneWindow
      <4> QED
        BY <4>1, FS_EmptySet, ThrottleAssumption
    <3> QED
      BY <3>1, <3>2
  <2>3. IsFiniteSet(alone) /\ IsFiniteSet(raced)
    BY <2>1, ThrottleAssumption, FS_Subset
  <2>4. /\ Cardinality(alone \cup raced)
             = Cardinality(alone) + Cardinality(raced) - Cardinality(alone \cap raced)
        /\ Cardinality(raced) \in Nat /\ Cardinality(alone \cap raced) \in Nat
    BY <2>1, <2>3, FS_Union, VisitCounts
  <2>5. /\ Cardinality(all) \in Nat /\ Cardinality(alone \cup raced) \in Nat
        /\ Cardinality(all) <= Cardinality(alone \cup raced)
    BY <2>1, <2>2, VisitCounts
  <2>6. Cardinality(all) <= Limit + Cardinality(raced)
    BY <2>2, <2>4, <2>5, ThrottleAssumption
  <2> QED
    BY <2>6
<1> QED
  BY <1>1, <1>2, <1>3, <1>a DEF ThrottleInv, LimitHolds

\* However requests and their reads interleave, the throttle lets no more pass
\* in a window than its limit and the raced, and turns none away before.
THEOREM ThrottleIsSafe == ThrottleSpec => []ThrottleInv
<1> QED
  BY ThrottleStarts, ThrottleStep, ThrottleSafety, PTL DEF ThrottleSpec
-----------------------------------------------------------------------------
(***************************************************************************)
(* TaggedCache.  A call on a key that met no other is alone.               *)
(***************************************************************************)
KeyCall == [at: {"track", "untrack"}, names: SUBSET TaggedKey, key: TaggedKey, rest: SUBSET Tag]
WriteCall == [at: {"write"}, names: SUBSET TaggedKey, rest: SUBSET Tag,
              back: {"track", "untrack"}, key: TaggedKey, tag: Tag, seen: SUBSET TaggedKey]
FlushCall == [at: {"collect", "drop", "clear"}, names: {{}}, tags: SUBSET Tag,
              rest: SUBSET Tag, doomed: SUBSET TaggedKey]
TagCall == {NoTagOp} \cup KeyCall \cup WriteCall \cup FlushCall

TagTypes ==
    /\ tagged \subseteq TaggedKey
    /\ tagIndex \in [Tag -> SUBSET TaggedKey]
    /\ tagsOf \in [TaggedKey -> SUBSET Tag]
    /\ tagOp \in [TagUser -> TagCall]

Sure == tagged \ unsure

\* What users a key has, and what they do with it.
UserOf(c, k) == tagOp[c].at \in {"track", "untrack", "write"} /\ tagOp[c].key = k
Tracks(c) == tagOp[c].at = "track" \/ (tagOp[c].at = "write" /\ tagOp[c].back = "track")

KeyCallOf(c) ==
    tagOp[c].at \in {"track", "untrack", "write"} =>
        /\ tagOp[c].names = {tagOp[c].key}
        /\ tagOp[c].key \notin unsure => \A d \in TagUser : InTagOp(d) => d = c
        /\ tagOp[c].key \in Sure =>
              /\ Tracks(c)
              /\ \A t \in tagsOf[tagOp[c].key] :
                    tagOp[c].key \in tagIndex[t] \/ t \in tagOp[c].rest

FlushOf(c) ==
    tagOp[c].at \in {"collect", "drop", "clear"} =>
        /\ tagOp[c].rest \subseteq tagOp[c].tags
        /\ \A k \in Sure, t \in tagOp[c].tags :
               t \in tagsOf[k] =>
                   /\ tagOp[c].at # "clear"
                   /\ k \in tagOp[c].doomed \/ (tagOp[c].at = "collect" /\ t \in tagOp[c].rest)

\* A sure key is in the lists of its tags, and in every one that was read.
Indexed(k) ==
    \A t \in tagsOf[k] :
        /\ (\A c \in TagUser : ~UserOf(c, k)) => k \in tagIndex[t]
        /\ \A c \in TagUser : tagOp[c].at = "write" /\ tagOp[c].tag = t /\ tagOp[c].key # k =>
                                 k \in tagOp[c].seen

TagsSafe ==
    /\ TagTypes
    /\ \A c \in TagUser : KeyCallOf(c) /\ FlushOf(c)
    /\ \A k \in Sure : Indexed(k)

LEMMA CallShapes ==
    ASSUME TagTypes, NEW c \in TagUser
    PROVE  /\ tagOp[c].at \in {"track", "untrack"} => tagOp[c] \in KeyCall
           /\ tagOp[c].at = "write" => tagOp[c] \in WriteCall
           /\ tagOp[c].at \in {"collect", "drop", "clear"} => tagOp[c] \in FlushCall
<1>1. tagOp[c] \in TagCall
  BY DEF TagTypes
<1>2. CASE tagOp[c] = NoTagOp
  BY <1>2 DEF NoTagOp
<1>3. CASE tagOp[c] \in KeyCall
  BY <1>3 DEF KeyCall
<1>4. CASE tagOp[c] \in WriteCall
  BY <1>4 DEF WriteCall
<1>5. CASE tagOp[c] \in FlushCall
  BY <1>5 DEF FlushCall
<1> QED
  BY <1>1, <1>2, <1>3, <1>4, <1>5 DEF TagCall

\* One user's call goes on; those of the others do not.
Moves(c, made) == tagOp' = [tagOp EXCEPT ![c] = made]

LEMMA OneMoves ==
    ASSUME TagTypes, NEW c \in TagUser, NEW made \in TagCall, Moves(c, made)
    PROVE  /\ tagOp' \in [TagUser -> TagCall] /\ tagOp'[c] = made
           /\ \A d \in TagUser : d # c => tagOp'[d] = tagOp[d]
  BY DEF TagTypes, Moves

LEMMA TagsStart == TagInit => TagsSafe
<1> SUFFICES ASSUME TagInit PROVE TagsSafe
  OBVIOUS
<1>1. \A c \in TagUser : tagOp[c] = NoTagOp /\ tagOp[c].at = "idle"
  BY DEF TagInit, NoTagOp
<1>2. TagTypes
  <2>1. tagged \subseteq TaggedKey /\ tagIndex \in [Tag -> SUBSET TaggedKey]
    BY DEF TagInit
  <2>2. tagsOf \in [TaggedKey -> SUBSET Tag]
    BY DEF TagInit
  <2>3. tagOp \in [TagUser -> TagCall]
    BY DEF TagInit, TagCall
  <2> QED
    BY <2>1, <2>2, <2>3 DEF TagTypes
<1>3. \A c \in TagUser : KeyCallOf(c) /\ FlushOf(c)
  BY <1>1 DEF KeyCallOf, FlushOf
<1>4. Sure = {}
  BY DEF TagInit, Sure
<1> QED
  BY <1>2, <1>3, <1>4 DEF TagsSafe

\* A call starts; what it changes at once is about its own keys.
Begins(c, names, made) ==
    /\ ~InTagOp(c) /\ BeginTagOp(c, names, made) /\ made \in TagCall
    /\ made.at \in {"track", "untrack", "collect"}
    /\ made.at # "collect" =>
          /\ names = {made.key} /\ made.names = names
          /\ made.key \in tagged' => made.at = "track" /\ tagsOf'[made.key] \subseteq made.rest
    /\ made.at = "collect" => names = {} /\ made.rest = made.tags
    /\ tagged' \ names \subseteq tagged /\ tagged' \subseteq TaggedKey
    /\ tagsOf' \in [TaggedKey -> SUBSET Tag] /\ \A k \in TaggedKey \ names : tagsOf'[k] = tagsOf[k]
    /\ UNCHANGED tagIndex

LEMMA BeginStep ==
    ASSUME TagsSafe, NEW c \in TagUser, NEW names, NEW made, Begins(c, names, made)
    PROVE  TagsSafe'
<1>a. /\ TagTypes /\ \A d \in TagUser : KeyCallOf(d) /\ FlushOf(d)
      /\ \A k \in Sure : Indexed(k) /\ k \in TaggedKey
  BY DEF TagsSafe, Sure, TagTypes
<1>b. /\ ~InTagOp(c) /\ made \in TagCall /\ made.at \in {"track", "untrack", "collect"}
      /\ made.at # "collect" =>
            /\ names = {made.key} /\ made.names = names
            /\ made.key \in tagged' => made.at = "track" /\ tagsOf'[made.key] \subseteq made.rest
      /\ made.at = "collect" => names = {} /\ made.rest = made.tags
      /\ tagged' \ names \subseteq tagged /\ tagged' \subseteq TaggedKey
      /\ tagsOf' \in [TaggedKey -> SUBSET Tag] /\ \A k \in TaggedKey \ names : tagsOf'[k] = tagsOf[k]
      /\ tagIndex' = tagIndex /\ Moves(c, made)
  BY DEF Begins, BeginTagOp, Moves
<1>1. /\ tagOp' \in [TagUser -> TagCall] /\ tagOp'[c] = made
      /\ \A d \in TagUser : d # c => tagOp'[d] = tagOp[d]
  BY <1>a, <1>b, OneMoves
<1>2. TagTypes'
  BY <1>a, <1>b, <1>1 DEF TagTypes
<1>3. CASE \A d \in TagUser : d # c => ~InTagOp(d)
  <2>1. unsure' = unsure \ names
    BY <1>3 DEF Begins, BeginTagOp
  <2>2. \A d \in TagUser : d # c => tagOp'[d].at = "idle"
    BY <1>1, <1>3 DEF InTagOp
  <2>3. ASSUME NEW d \in TagUser PROVE KeyCallOf(d)' /\ FlushOf(d)'
    <3>1. CASE d = c
      <4>1. KeyCallOf(c)'
        BY <1>1, <1>b, <2>1, <2>2 DEF KeyCallOf, InTagOp, Sure, Tracks
      <4>2. FlushOf(c)'
        BY <1>1, <1>b DEF FlushOf
      <4> QED
        BY <3>1, <4>1, <4>2
    <3>2. CASE d # c
      BY <2>2, <3>2 DEF KeyCallOf, FlushOf
    <3> QED
      BY <3>1, <3>2
  <2>4. ASSUME NEW k \in Sure' PROVE Indexed(k)'
    <3>1. CASE k \in names
      <4>1. UserOf(c, k)'
        BY <1>1, <1>b, <3>1 DEF UserOf
      <4> QED
        BY <1>1, <1>b, <2>2, <4>1 DEF Indexed
    <3>2. CASE k \notin names
      <4>1. k \in Sure /\ k \in TaggedKey
        BY <1>a, <1>b, <2>1, <3>2 DEF Sure
      <4>2. \A d \in TagUser : ~UserOf(d, k) /\ tagOp'[d].at # "write"
        BY <1>1, <1>3, <1>b, <2>2 DEF UserOf, InTagOp
      <4>3. Indexed(k) /\ tagsOf'[k] = tagsOf[k]
        BY <1>a, <1>b, <3>2, <4>1
      <4> QED
        BY <1>b, <4>2, <4>3 DEF Indexed
    <3> QED
      BY <3>1, <3>2
  <2> QED
    BY <1>2, <2>3, <2>4 DEF TagsSafe
<1>4. CASE \E d \in TagUser : d # c /\ InTagOp(d)
  <2>1. unsure' = unsure \cup names \cup UNION {tagOp[d].names : d \in {e \in TagUser \ {c} : InTagOp(e)}}
    BY <1>4 DEF Begins, BeginTagOp
  <2>2. \A d \in TagUser : d # c /\ InTagOp(d) => tagOp[d].names \subseteq unsure'
    BY <2>1
  <2>3. \A k \in Sure' : k \in Sure /\ k \notin names /\ tagsOf'[k] = tagsOf[k] /\ k \in TaggedKey
    BY <1>b, <2>1 DEF Sure
  <2>4. ASSUME NEW d \in TagUser PROVE KeyCallOf(d)' /\ FlushOf(d)'
    <3>1. CASE d = c
      <4>1. KeyCallOf(c)'
        BY <1>1, <1>b, <2>1 DEF KeyCallOf, Sure
      <4>2. FlushOf(c)'
        BY <1>1, <1>b DEF FlushOf
      <4> QED
        BY <3>1, <4>1, <4>2
    <3>2. CASE d # c
      <4>1. KeyCallOf(d) /\ FlushOf(d) /\ tagOp'[d] = tagOp[d]
        BY <1>1, <1>a, <3>2
      <4>2. KeyCallOf(d)'
        BY <2>2, <3>2, <4>1 DEF KeyCallOf, InTagOp, Sure
      <4>3. FlushOf(d)'
        BY <2>3, <4>1 DEF FlushOf
      <4> QED
        BY <4>2, <4>3
    <3> QED
      BY <3>1, <3>2
  <2>5. ASSUME NEW k \in Sure' PROVE Indexed(k)'
    <3>1. Indexed(k) /\ tagsOf'[k] = tagsOf[k]
      BY <1>a, <2>3
    <3>2. \A d \in TagUser : UserOf(d, k) => UserOf(d, k)'
      BY <1>1, <1>b DEF UserOf, InTagOp
    <3>3. \A d \in TagUser : tagOp'[d].at = "write" => tagOp'[d] = tagOp[d]
      BY <1>1, <1>b
    <3> QED
      BY <1>b, <3>1, <3>2, <3>3 DEF Indexed
  <2> QED
    BY <1>2, <2>4, <2>5 DEF TagsSafe
<1> QED
  BY <1>3, <1>4

\* Of a sure key on which a call is under way, that call is the only one.
LEMMA SureIsAlone ==
    ASSUME TagsSafe, NEW c \in TagUser, NEW d \in TagUser, NEW k \in Sure, UserOf(c, k), InTagOp(d)
    PROVE  d = c
<1>1. KeyCallOf(c) /\ k \notin unsure
  BY DEF TagsSafe, Sure
<1> QED
  BY <1>1 DEF KeyCallOf, UserOf

\* One user's call on a key goes on to its next tag, or ends.
Follows(c, made) ==
    /\ Moves(c, made) /\ made \in TagCall
    /\ tagOp[c].at \in {"track", "untrack", "write"}
    /\ \/ made.at = "idle"
       \/ /\ made.at \in {"track", "untrack", "write"}
          /\ made.names = tagOp[c].names /\ made.key = tagOp[c].key
          /\ Tracks(c) => made.at = "track" \/ (made.at = "write" /\ made.back = "track")
    /\ UNCHANGED <<tagged, tagsOf, unsure>> /\ tagIndex' \in [Tag -> SUBSET TaggedKey]
    /\ tagOp[c].key \in Sure =>
          \A t \in tagsOf[tagOp[c].key] :
              tagOp[c].key \in tagIndex'[t] \/ (made.at # "idle" /\ t \in made.rest)
    /\ \A k \in Sure : k # tagOp[c].key =>
          \A t \in tagsOf[k] :
              /\ k \in tagIndex[t] => k \in tagIndex'[t]
              /\ made.at = "write" /\ made.tag = t => k \in made.seen

LEMMA FollowStep ==
    ASSUME TagsSafe, NEW c \in TagUser, NEW made, Follows(c, made)
    PROVE  TagsSafe'
<1>a. /\ TagTypes /\ \A d \in TagUser : KeyCallOf(d) /\ FlushOf(d)
      /\ \A k \in Sure : Indexed(k)
  BY DEF TagsSafe
<1>b. /\ made \in TagCall /\ tagOp[c].at \in {"track", "untrack", "write"}
      /\ \/ made.at = "idle"
         \/ /\ made.at \in {"track", "untrack", "write"}
            /\ made.names = tagOp[c].names /\ made.key = tagOp[c].key
            /\ Tracks(c) => made.at = "track" \/ (made.at = "write" /\ made.back = "track")
      /\ tagged' = tagged /\ tagsOf' = tagsOf /\ unsure' = unsure /\ Sure' = Sure
      /\ tagIndex' \in [Tag -> SUBSET TaggedKey]
  BY DEF Follows, Sure
<1>1. /\ tagOp' \in [TagUser -> TagCall] /\ tagOp'[c] = made
      /\ \A d \in TagUser : d # c => tagOp'[d] = tagOp[d]
  BY <1>a, <1>b, OneMoves DEF Follows
<1>2. TagTypes'
  BY <1>a, <1>b, <1>1 DEF TagTypes
<1>3. \A d \in TagUser : InTagOp(d)' => InTagOp(d)
  BY <1>1, <1>b DEF InTagOp
<1>4. ASSUME NEW d \in TagUser PROVE KeyCallOf(d)' /\ FlushOf(d)'
  <2>1. CASE d = c
    <3>1. KeyCallOf(c) /\ (tagOp[c].key \in Sure =>
             \A t \in tagsOf[tagOp[c].key] :
                 tagOp[c].key \in tagIndex'[t] \/ (made.at # "idle" /\ t \in made.rest))
      BY <1>a DEF Follows
    <3>2. KeyCallOf(c)'
      BY <1>1, <1>3, <1>b, <3>1 DEF KeyCallOf, Tracks
    <3>3. FlushOf(c)'
      BY <1>1, <1>b DEF FlushOf
    <3> QED
      BY <2>1, <3>2, <3>3
  <2>2. CASE d # c
    <3>1. KeyCallOf(d) /\ FlushOf(d) /\ tagOp'[d] = tagOp[d]
      BY <1>1, <1>a, <2>2
    <3>2. InTagOp(c)
      BY <1>b DEF InTagOp
    <3>3. KeyCallOf(d)'
      BY <1>3, <1>b, <2>2, <3>1, <3>2 DEF KeyCallOf, Sure
    <3>4. FlushOf(d)'
      BY <1>b, <3>1 DEF FlushOf
    <3> QED
      BY <3>3, <3>4
  <2> QED
    BY <2>1, <2>2
<1>5. ASSUME NEW k \in Sure PROVE Indexed(k)'
  <2>1. Indexed(k)
    BY <1>a
  <2>2. CASE k = tagOp[c].key
    <3>1. UserOf(c, k)
      BY <1>b, <2>2 DEF UserOf
    <3>2. \A d \in TagUser : d # c => ~InTagOp(d) /\ tagOp'[d].at # "write"
      BY <1>1, <3>1, SureIsAlone DEF InTagOp
    <3>3. made.at # "idle" => UserOf(c, k)'
      BY <1>1, <1>b, <2>2 DEF UserOf
    <3>4. made.at = "idle" => \A t \in tagsOf[k] : k \in tagIndex'[t]
      BY <2>2 DEF Follows
    <3>5. \A d \in TagUser : tagOp'[d].at = "write" => tagOp'[d].key = k
      BY <1>1, <1>b, <2>2, <3>2
    <3> QED
      BY <1>b, <3>3, <3>4, <3>5 DEF Indexed
  <2>3. CASE k # tagOp[c].key
    <3>1. \A d \in TagUser : UserOf(d, k) => UserOf(d, k)'
      BY <1>1, <2>3 DEF UserOf
    <3>2. \A t \in tagsOf[k] : /\ k \in tagIndex[t] => k \in tagIndex'[t]
                               /\ made.at = "write" /\ made.tag = t => k \in made.seen
      BY <2>3 DEF Follows
    <3>3. ASSUME NEW t \in tagsOf[k], NEW d \in TagUser,
                 tagOp'[d].at = "write", tagOp'[d].tag = t, tagOp'[d].key # k
          PROVE  k \in tagOp'[d].seen
      <4>1. CASE d = c
        BY <1>1, <3>2, <3>3, <4>1
      <4>2. CASE d # c
        BY <1>1, <2>1, <3>3, <4>2 DEF Indexed
      <4> QED
        BY <4>1, <4>2
    <3> QED
      BY <1>b, <2>1, <3>1, <3>2, <3>3 DEF Indexed
  <2> QED
    BY <2>2, <2>3
<1> QED
  BY <1>2, <1>4, <1>5, <1>b DEF TagsSafe

\* A flush goes on, or ends; it may forget a key or empty a list of its tags.
Flushes(c, made) ==
    /\ Moves(c, made) /\ made \in TagCall
    /\ tagOp[c].at \in {"collect", "drop", "clear"}
    /\ made.at \in {"idle", "collect", "drop", "clear"}
    /\ UNCHANGED <<tagsOf, unsure>> /\ tagIndex' \in [Tag -> SUBSET TaggedKey]
    /\ tagged' \subseteq tagged
    /\ \A k \in Sure : \A t \in tagsOf[k] : k \in tagIndex[t] => k \in tagIndex'[t]
    /\ made.at # "idle" =>
          /\ made.rest \subseteq made.tags
          /\ \A k \in Sure', t \in made.tags :
                t \in tagsOf[k] =>
                    /\ made.at # "clear"
                    /\ k \in made.doomed \/ (made.at = "collect" /\ t \in made.rest)

LEMMA FlushStep ==
    ASSUME TagsSafe, NEW c \in TagUser, NEW made, Flushes(c, made)
    PROVE  TagsSafe'
<1>a. /\ TagTypes /\ \A d \in TagUser : KeyCallOf(d) /\ FlushOf(d)
      /\ \A k \in Sure : Indexed(k)
  BY DEF TagsSafe
<1>b. /\ made \in TagCall /\ tagOp[c].at \in {"collect", "drop", "clear"}
      /\ made.at \in {"idle", "collect", "drop", "clear"}
      /\ tagged' \subseteq tagged /\ tagsOf' = tagsOf /\ unsure' = unsure
      /\ Sure' \subseteq Sure /\ tagIndex' \in [Tag -> SUBSET TaggedKey]
      /\ \A k \in Sure : \A t \in tagsOf[k] : k \in tagIndex[t] => k \in tagIndex'[t]
  BY DEF Flushes, Sure
<1>1. /\ tagOp' \in [TagUser -> TagCall] /\ tagOp'[c] = made
      /\ \A d \in TagUser : d # c => tagOp'[d] = tagOp[d]
  BY <1>a, <1>b, OneMoves DEF Flushes
<1>2. TagTypes'
  BY <1>a, <1>b, <1>1 DEF TagTypes
<1>3. \A d \in TagUser : InTagOp(d)' => InTagOp(d)
  BY <1>1, <1>b DEF InTagOp
<1>4. ASSUME NEW d \in TagUser PROVE KeyCallOf(d)' /\ FlushOf(d)'
  <2>1. CASE d = c
    <3>1. KeyCallOf(c)'
      BY <1>1, <1>b DEF KeyCallOf
    <3>2. FlushOf(c)'
      BY <1>1, <1>b DEF FlushOf, Flushes
    <3> QED
      BY <2>1, <3>1, <3>2
  <2>2. CASE d # c
    <3>1. KeyCallOf(d) /\ FlushOf(d) /\ tagOp'[d] = tagOp[d]
      BY <1>1, <1>a, <2>2
    <3>2. InTagOp(c)
      BY <1>b DEF InTagOp
    <3>3. KeyCallOf(d)'
      BY <1>3, <1>b, <2>2, <3>1, <3>2 DEF KeyCallOf, Sure
    <3>4. FlushOf(d)'
      BY <1>b, <3>1 DEF FlushOf
    <3> QED
      BY <3>3, <3>4
  <2> QED
    BY <2>1, <2>2
<1>5. ASSUME NEW k \in Sure' PROVE Indexed(k)'
  <2>1. Indexed(k) /\ k \in Sure
    BY <1>a, <1>b
  <2>2. \A d \in TagUser : UserOf(d, k) => UserOf(d, k)'
    BY <1>1, <1>b DEF UserOf
  <2>3. \A d \in TagUser : tagOp'[d].at = "write" => tagOp'[d] = tagOp[d]
    BY <1>1, <1>b
  <2> QED
    BY <1>b, <2>1, <2>2, <2>3 DEF Indexed
<1> QED
  BY <1>2, <1>4, <1>5 DEF TagsSafe

LEMMA ReadIndexStep ==
    ASSUME TagsSafe, NEW c \in TagUser, NEW t \in Tag, ReadIndex(c, t)
    PROVE  TagsSafe'
<1>a. /\ TagTypes /\ KeyCallOf(c) /\ tagOp[c] \in KeyCall
      /\ tagOp[c].at \in {"track", "untrack"} /\ t \in tagOp[c].rest
      /\ UNCHANGED <<tagged, tagIndex, tagsOf, unsure>>
  BY CallShapes DEF TagsSafe, ReadIndex
<1>b. /\ tagIndex \in [Tag -> SUBSET TaggedKey] /\ tagIndex' = tagIndex
      /\ tagOp[c].names \subseteq TaggedKey /\ tagOp[c].key \in TaggedKey
      /\ tagOp[c].rest \subseteq Tag
  BY <1>a DEF TagTypes, KeyCall
<1>1. CASE NextTag(c, t, NoTagOp) /\ (tagOp[c].at = "track" => tagOp[c].key \in tagIndex[t])
  <2>1. tagOp[c].key \in Sure =>
            \A s \in tagsOf[tagOp[c].key] :
                tagOp[c].key \in tagIndex[s] \/ s \in tagOp[c].rest \ {t}
    BY <1>1, <1>a DEF KeyCallOf, Tracks
  <2>2. CASE tagOp[c].rest = {t}
    <3>1. Moves(c, NoTagOp)
      BY <1>1, <2>2 DEF NextTag, Moves
    <3>2. NoTagOp \in TagCall /\ NoTagOp.at = "idle"
      BY DEF TagCall, NoTagOp
    <3>3. Follows(c, NoTagOp)
      BY <1>a, <1>b, <2>1, <2>2, <3>1, <3>2 DEF Follows
    <3> QED
      BY <3>3, FollowStep
  <2>3. CASE tagOp[c].rest # {t}
    <3>1. PICK made : made = [tagOp[c] EXCEPT !.rest = @ \ {t}]
      OBVIOUS
    <3>2. Moves(c, made)
      BY <1>1, <2>3, <3>1 DEF NextTag, Moves
    <3>3. /\ made \in KeyCall /\ made.at = tagOp[c].at /\ made.names = tagOp[c].names
          /\ made.key = tagOp[c].key /\ made.rest = tagOp[c].rest \ {t}
      BY <1>a, <3>1 DEF KeyCall
    <3>4. Follows(c, made)
      BY <1>a, <1>b, <2>1, <3>2, <3>3 DEF Follows, TagCall, Tracks
    <3> QED
      BY <3>4, FollowStep
  <2> QED
    BY <2>2, <2>3
<1>2. CASE ~(NextTag(c, t, NoTagOp) /\ (tagOp[c].at = "track" => tagOp[c].key \in tagIndex[t]))
  <2>1. PICK made : made = [at |-> "write", names |-> tagOp[c].names, rest |-> tagOp[c].rest,
                back |-> tagOp[c].at, key |-> tagOp[c].key, tag |-> t, seen |-> tagIndex[t]]
    OBVIOUS
  <2>2. Moves(c, made)
    BY <1>2, <1>a, <2>1 DEF ReadIndex, Moves
  <2>3. made \in WriteCall
    BY <1>a, <1>b, <2>1 DEF WriteCall
  <2>4. /\ made.at = "write" /\ made.names = tagOp[c].names /\ made.rest = tagOp[c].rest
        /\ made.back = tagOp[c].at /\ made.key = tagOp[c].key /\ made.tag = t
        /\ made.seen = tagIndex[t]
    BY <2>1
  <2>5. ASSUME NEW k \in Sure, k # tagOp[c].key, t \in tagsOf[k] PROVE k \in tagIndex[t]
    <3>1. \A d \in TagUser : ~UserOf(d, k)
      <4>1. InTagOp(c) /\ ~UserOf(c, k)
        BY <1>a, <2>5 DEF InTagOp, UserOf
      <4> QED
        BY <4>1, SureIsAlone
    <3>2. Indexed(k)
      BY DEF TagsSafe
    <3> QED
      BY <2>5, <3>1, <3>2 DEF Indexed
  <2>6. tagOp[c].key \in Sure =>
            \A s \in tagsOf[tagOp[c].key] : tagOp[c].key \in tagIndex[s] \/ s \in tagOp[c].rest
    BY <1>a DEF KeyCallOf
  <2>7. Tracks(c) => made.at = "write" /\ made.back = "track"
    BY <1>a, <2>4 DEF Tracks
  <2>8. Follows(c, made)
    BY <1>a, <1>b, <2>2, <2>3, <2>4, <2>5, <2>6, <2>7 DEF Follows, TagCall
  <2> QED
    BY <2>8, FollowStep
<1> QED
  BY <1>1, <1>2

LEMMA WriteIndexStep ==
    ASSUME TagsSafe, NEW c \in TagUser, WriteIndex(c)
    PROVE  TagsSafe'
<1>a. /\ TagTypes /\ KeyCallOf(c) /\ tagOp[c] \in WriteCall /\ tagOp[c].at = "write"
      /\ UNCHANGED <<tagged, tagsOf, unsure>>
  BY CallShapes DEF TagsSafe, WriteIndex
<1>b. /\ tagIndex \in [Tag -> SUBSET TaggedKey] /\ tagOp[c].back \in {"track", "untrack"}
      /\ tagOp[c].names \subseteq TaggedKey /\ tagOp[c].key \in TaggedKey
      /\ tagOp[c].rest \subseteq Tag /\ tagOp[c].seen \subseteq TaggedKey
  BY <1>a DEF TagTypes, WriteCall
<1>c. PICK t \in Tag : t = tagOp[c].tag
  BY <1>a DEF WriteCall
<1>1. /\ tagIndex' \in [Tag -> SUBSET TaggedKey]
      /\ \A s \in Tag : s # t => tagIndex'[s] = tagIndex[s]
      /\ tagIndex'[t] = IF tagOp[c].back = "track" THEN tagOp[c].seen \cup {tagOp[c].key}
                        ELSE tagOp[c].seen \ {tagOp[c].key}
  <2>1. PICK list \in SUBSET TaggedKey :
            list = IF tagOp[c].back = "track" THEN tagOp[c].seen \cup {tagOp[c].key}
                   ELSE tagOp[c].seen \ {tagOp[c].key}
    BY <1>b
  <2>2. tagIndex' = [tagIndex EXCEPT ![t] = list]
    BY <1>c, <2>1 DEF WriteIndex
  <2> QED
    BY <1>b, <2>1, <2>2
<1>2. tagOp[c].key \in Sure =>
          /\ tagOp[c].back = "track"
          /\ \A s \in tagsOf[tagOp[c].key] :
                tagOp[c].key \in tagIndex'[s] \/ s \in tagOp[c].rest \ {t}
  <2>1. SUFFICES ASSUME tagOp[c].key \in Sure
                 PROVE  /\ tagOp[c].back = "track"
                        /\ \A s \in tagsOf[tagOp[c].key] :
                              tagOp[c].key \in tagIndex'[s] \/ s \in tagOp[c].rest \ {t}
    OBVIOUS
  <2>2. /\ Tracks(c)
        /\ \A s \in tagsOf[tagOp[c].key] : tagOp[c].key \in tagIndex[s] \/ s \in tagOp[c].rest
    BY <1>a, <2>1 DEF KeyCallOf
  <2>3. tagsOf[tagOp[c].key] \subseteq Tag
    BY <1>a, <1>b DEF TagTypes
  <2> QED
    BY <1>1, <1>a, <2>2, <2>3 DEF Tracks
<1>3. ASSUME NEW k \in Sure, k # tagOp[c].key, NEW s \in tagsOf[k], k \in tagIndex[s]
      PROVE  k \in tagIndex'[s]
  <2>1. Indexed(k) /\ s \in Tag
    BY <1>a DEF TagsSafe, TagTypes, Sure
  <2>2. s = t => k \in tagOp[c].seen
    BY <1>3, <1>a, <1>c, <2>1 DEF Indexed
  <2> QED
    BY <1>1, <1>3, <2>1, <2>2
<1>4. CASE tagOp[c].rest = {t}
  <2>1. Moves(c, NoTagOp)
    BY <1>4, <1>c DEF WriteIndex, Moves
  <2>2. NoTagOp \in TagCall /\ NoTagOp.at = "idle"
    BY DEF TagCall, NoTagOp
  <2>3. Follows(c, NoTagOp)
    BY <1>1, <1>2, <1>3, <1>4, <1>a, <2>1, <2>2 DEF Follows
  <2> QED
    BY <2>3, FollowStep
<1>5. CASE tagOp[c].rest # {t}
  <2>1. PICK made : made = [at |-> tagOp[c].back, names |-> tagOp[c].names, key |-> tagOp[c].key,
                            rest |-> tagOp[c].rest \ {tagOp[c].tag}]
    OBVIOUS
  <2>2. Moves(c, made)
    BY <1>5, <1>c, <2>1 DEF WriteIndex, Moves
  <2>3. /\ made.at = tagOp[c].back /\ made.names = tagOp[c].names /\ made.key = tagOp[c].key
        /\ made.rest = tagOp[c].rest \ {t}
    BY <1>c, <2>1
  <2>4. made \in KeyCall
    BY <1>b, <2>1 DEF KeyCall
  <2>5. Tracks(c) => made.at = "track"
    BY <1>a, <2>3 DEF Tracks
  <2>6. Follows(c, made)
    BY <1>1, <1>2, <1>3, <1>a, <1>b, <2>2, <2>3, <2>4, <2>5 DEF Follows, TagCall
  <2> QED
    BY <2>6, FollowStep
<1> QED
  BY <1>4, <1>5

LEMMA CollectStep ==
    ASSUME TagsSafe, NEW c \in TagUser, NEW t \in Tag, Collect(c, t)
    PROVE  TagsSafe'
<1>a. /\ TagTypes /\ FlushOf(c) /\ tagOp[c] \in FlushCall /\ tagOp[c].at = "collect"
      /\ t \in tagOp[c].rest /\ UNCHANGED <<tagged, tagIndex, tagsOf, unsure>> /\ Sure' = Sure
  BY CallShapes DEF TagsSafe, Collect, Sure
<1>b. tagIndex \in [Tag -> SUBSET TaggedKey] /\ tagIndex' = tagIndex
  BY <1>a DEF TagTypes
<1>1. PICK found : found = [tagOp[c] EXCEPT !.doomed = @ \cup tagIndex[t], !.rest = @ \ {t}]
  OBVIOUS
<1>2. /\ found \in FlushCall /\ found.at = "collect" /\ found.tags = tagOp[c].tags
      /\ found.rest = tagOp[c].rest \ {t} /\ found.doomed = tagOp[c].doomed \cup tagIndex[t]
      /\ found.names = {}
  BY <1>1, <1>a, <1>b DEF FlushCall
<1>3. PICK made : made = IF found.rest # {} THEN found
                         ELSE [found EXCEPT !.rest = found.tags,
                                  !.at = IF found.doomed = {} THEN "clear" ELSE "drop"]
  OBVIOUS
<1>4. Moves(c, made)
  BY <1>1, <1>3 DEF Collect, Moves
<1>5. /\ made \in FlushCall /\ made.tags = found.tags /\ made.doomed = found.doomed
      /\ found.rest # {} => made.at = "collect" /\ made.rest = found.rest
      /\ found.rest = {} => /\ made.rest = made.tags
                            /\ made.at = IF found.doomed = {} THEN "clear" ELSE "drop"
  BY <1>2, <1>3 DEF FlushCall
<1>6. ASSUME NEW k \in Sure, NEW s \in made.tags, s \in tagsOf[k]
      PROVE  k \in found.doomed \/ s \in found.rest
  <2>1. k \in tagOp[c].doomed \/ s \in tagOp[c].rest
    BY <1>2, <1>5, <1>6, <1>a DEF FlushOf
  <2>2. ASSUME t \in tagsOf[k] PROVE k \in tagIndex[t]
    <3>1. \A d \in TagUser : ~UserOf(d, k)
      <4>1. InTagOp(c) /\ ~UserOf(c, k)
        BY <1>a DEF InTagOp, UserOf
      <4> QED
        BY <4>1, SureIsAlone
    <3>2. Indexed(k)
      BY DEF TagsSafe
    <3> QED
      BY <2>2, <3>1, <3>2 DEF Indexed
  <2> QED
    BY <1>2, <1>6, <2>1, <2>2
<1>7. made.rest \subseteq made.tags /\ made.at \in {"collect", "drop", "clear"} /\ made.at # "idle"
  BY <1>2, <1>5, <1>a DEF FlushOf
<1>8. \A k \in Sure, s \in made.tags :
        s \in tagsOf[k] =>
            /\ made.at # "clear"
            /\ k \in made.doomed \/ (made.at = "collect" /\ s \in made.rest)
  BY <1>5, <1>6
<1>9. Flushes(c, made)
  BY <1>4, <1>5, <1>7, <1>8, <1>a, <1>b DEF Flushes, TagCall
<1> QED
  BY <1>9, FlushStep

LEMMA DropKeyStep ==
    ASSUME TagsSafe, NEW c \in TagUser, NEW k \in TaggedKey, DropKey(c, k)
    PROVE  TagsSafe'
<1>a. /\ TagTypes /\ FlushOf(c) /\ tagOp[c] \in FlushCall /\ tagOp[c].at = "drop"
      /\ k \in tagOp[c].doomed /\ UNCHANGED <<tagIndex, tagsOf, unsure>>
      /\ tagged' = tagged \ {k} /\ Sure' = Sure \ {k}
  BY CallShapes DEF TagsSafe, DropKey, Sure
<1>b. tagIndex \in [Tag -> SUBSET TaggedKey] /\ tagIndex' = tagIndex
  BY <1>a DEF TagTypes
<1>1. PICK made : made = [tagOp[c] EXCEPT !.doomed = @ \ {k},
                             !.at = IF tagOp[c].doomed = {k} THEN "clear" ELSE "drop"]
  OBVIOUS
<1>2. /\ made \in FlushCall /\ made.tags = tagOp[c].tags /\ made.rest = tagOp[c].rest
      /\ made.doomed = tagOp[c].doomed \ {k}
      /\ made.at = IF tagOp[c].doomed = {k} THEN "clear" ELSE "drop"
  BY <1>1, <1>a DEF FlushCall
<1>3. Moves(c, made)
  BY <1>1, <1>a DEF DropKey, Moves, TagTypes
<1>4. ASSUME NEW j \in Sure', NEW s \in made.tags, s \in tagsOf[j]
      PROVE  made.at # "clear" /\ j \in made.doomed
  <2>1. j \in tagOp[c].doomed /\ j # k
    BY <1>2, <1>4, <1>a DEF FlushOf
  <2> QED
    BY <1>2, <2>1
<1>5. made.rest \subseteq made.tags /\ made.at \in {"drop", "clear"} /\ made.at # "idle"
  BY <1>2, <1>a DEF FlushOf
<1>6. Flushes(c, made)
  BY <1>2, <1>3, <1>4, <1>5, <1>a, <1>b DEF Flushes, TagCall
<1> QED
  BY <1>6, FlushStep

LEMMA ClearTagStep ==
    ASSUME TagsSafe, NEW c \in TagUser, NEW t \in Tag, ClearTag(c, t)
    PROVE  TagsSafe'
<1>a. /\ TagTypes /\ FlushOf(c) /\ tagOp[c] \in FlushCall /\ tagOp[c].at = "clear"
      /\ t \in tagOp[c].rest /\ UNCHANGED <<tagged, tagsOf, unsure>>
      /\ tagIndex' = [tagIndex EXCEPT ![t] = {}] /\ Sure' = Sure /\ NextTag(c, t, NoTagOp)
  BY CallShapes DEF TagsSafe, ClearTag, Sure
<1>1. /\ tagIndex' \in [Tag -> SUBSET TaggedKey]
      /\ \A s \in Tag : s # t => tagIndex'[s] = tagIndex[s]
  BY <1>a DEF TagTypes
<1>2. ASSUME NEW k \in Sure, NEW s \in tagOp[c].tags PROVE s \notin tagsOf[k]
  BY <1>a DEF FlushOf
<1>3. ASSUME NEW k \in Sure, NEW s \in tagsOf[k], k \in tagIndex[s] PROVE k \in tagIndex'[s]
  <2>1. s # t /\ s \in Tag
    BY <1>2, <1>a DEF FlushOf, TagTypes, Sure
  <2> QED
    BY <1>1, <1>3, <2>1
<1>4. CASE tagOp[c].rest = {t}
  <2>1. Moves(c, NoTagOp)
    BY <1>4, <1>a DEF NextTag, Moves
  <2>2. NoTagOp \in TagCall /\ NoTagOp.at = "idle"
    BY DEF TagCall, NoTagOp
  <2>3. Flushes(c, NoTagOp)
    BY <1>1, <1>3, <1>a, <2>1, <2>2 DEF Flushes
  <2> QED
    BY <2>3, FlushStep
<1>5. CASE tagOp[c].rest # {t}
  <2>1. PICK made : made = [tagOp[c] EXCEPT !.rest = @ \ {t}]
    OBVIOUS
  <2>2. Moves(c, made)
    BY <1>5, <1>a, <2>1 DEF NextTag, Moves
  <2>3. /\ made \in FlushCall /\ made.at = "clear" /\ made.tags = tagOp[c].tags
        /\ made.rest \subseteq tagOp[c].rest
    BY <1>a, <2>1 DEF FlushCall
  <2>4. made.rest \subseteq made.tags /\ \A k \in Sure, s \in made.tags : s \notin tagsOf[k]
    BY <1>2, <1>a, <2>3 DEF FlushOf
  <2>5. Flushes(c, made)
    BY <1>1, <1>3, <1>a, <2>2, <2>3, <2>4 DEF Flushes, TagCall
  <2> QED
    BY <2>5, FlushStep
<1> QED
  BY <1>4, <1>5

LEMMA TagsStep == TagsSafe /\ [TagNext]_tagVars => TagsSafe'
<1> SUFFICES ASSUME TagsSafe, [TagNext]_tagVars PROVE TagsSafe'
  OBVIOUS
<1>a. /\ TagTypes /\ \A d \in TagUser : KeyCallOf(d) /\ FlushOf(d)
      /\ \A k \in Sure : Indexed(k)
  BY DEF TagsSafe
<1>1. ASSUME NEW c \in TagUser, NEW tags \in TagChoice, NEW k \in TaggedKey, TaggedPut(c, k, tags)
      PROVE  TagsSafe'
  <2>1. PICK made : made = [at |-> "track", names |-> {k}, key |-> k, rest |-> tags]
    OBVIOUS
  <2>2. /\ made.at = "track" /\ made.names = {k} /\ made.key = k /\ made.rest = tags
        /\ tags \subseteq Tag
    BY <2>1, TagAssumption
  <2>3. made \in KeyCall
    BY <2>1, <2>2 DEF KeyCall
  <2>4. BeginTagOp(c, {k}, made) /\ ~InTagOp(c) /\ tagIndex' = tagIndex
    BY <1>1, <2>1 DEF TaggedPut
  <2>5. /\ tagged' \ {k} \subseteq tagged /\ tagged' \subseteq TaggedKey
        /\ tagsOf' \in [TaggedKey -> SUBSET Tag] /\ tagsOf'[k] = tags
        /\ \A j \in TaggedKey \ {k} : tagsOf'[j] = tagsOf[j]
    BY <1>1, <1>a, <2>2 DEF TaggedPut, TagTypes
  <2>6. Begins(c, {k}, made)
    BY <2>2, <2>3, <2>4, <2>5 DEF Begins, TagCall
  <2> QED
    BY <2>6, BeginStep
<1>2. ASSUME NEW c \in TagUser, NEW tags \in TagChoice, NEW k \in TaggedKey,
             TaggedForget(c, k, tags)
      PROVE  TagsSafe'
  <2>1. PICK made : made = [at |-> "untrack", names |-> {k}, key |-> k, rest |-> tags]
    OBVIOUS
  <2>2. /\ made.at = "untrack" /\ made.names = {k} /\ made.key = k /\ made.rest = tags
        /\ tags \subseteq Tag
    BY <2>1, TagAssumption
  <2>3. made \in KeyCall
    BY <2>1, <2>2 DEF KeyCall
  <2>4. BeginTagOp(c, {k}, made) /\ ~InTagOp(c) /\ tagIndex' = tagIndex
    BY <1>2, <2>1 DEF TaggedForget
  <2>5. /\ tagged' \ {k} \subseteq tagged /\ tagged' \subseteq TaggedKey /\ k \notin tagged'
        /\ tagsOf' \in [TaggedKey -> SUBSET Tag]
        /\ \A j \in TaggedKey \ {k} : tagsOf'[j] = tagsOf[j]
    BY <1>2, <1>a, <2>2 DEF TaggedForget, TagTypes
  <2>6. Begins(c, {k}, made)
    BY <2>2, <2>3, <2>4, <2>5 DEF Begins, TagCall
  <2> QED
    BY <2>6, BeginStep
<1>3. ASSUME NEW c \in TagUser, NEW tags \in TagChoice, TaggedFlush(c, tags) PROVE TagsSafe'
  <2>1. PICK made : made = [at |-> "collect", names |-> {}, tags |-> tags, rest |-> tags,
                            doomed |-> {}]
    OBVIOUS
  <2>2. made.at = "collect" /\ made.rest = made.tags /\ tags \subseteq Tag
    BY <2>1, TagAssumption
  <2>3. made \in FlushCall
    BY <2>1, <2>2 DEF FlushCall
  <2>4. BeginTagOp(c, {}, made) /\ ~InTagOp(c) /\ UNCHANGED <<tagged, tagIndex, tagsOf>>
    BY <1>3, <2>1 DEF TaggedFlush
  <2>5. Begins(c, {}, made)
    BY <1>a, <2>2, <2>3, <2>4 DEF Begins, TagCall, TagTypes
  <2> QED
    BY <2>5, BeginStep
<1>4. ASSUME NEW k \in TaggedKey, ExpireTagged(k) PROVE TagsSafe'
  <2>1. /\ UNCHANGED <<tagIndex, tagsOf, tagOp, unsure>> /\ tagged' \subseteq tagged
        /\ Sure' \subseteq Sure
    BY <1>4 DEF ExpireTagged, Sure
  <2>2. TagTypes'
    BY <1>a, <2>1 DEF TagTypes
  <2>3. ASSUME NEW c \in TagUser PROVE KeyCallOf(c)' /\ FlushOf(c)'
    <3>1. KeyCallOf(c) /\ FlushOf(c)
      BY <1>a
    <3>2. KeyCallOf(c)'
      BY <2>1, <3>1 DEF KeyCallOf, InTagOp, Tracks
    <3>3. FlushOf(c)'
      BY <2>1, <3>1 DEF FlushOf
    <3> QED
      BY <3>2, <3>3
  <2>4. ASSUME NEW j \in Sure' PROVE Indexed(j)'
    BY <1>a, <2>1 DEF Indexed, UserOf
  <2> QED
    BY <2>2, <2>3, <2>4 DEF TagsSafe
<1>5. ASSUME NEW c \in TagUser, InterruptTagOp(c) PROVE TagsSafe'
  <2>1. /\ UNCHANGED <<tagged, tagIndex, tagsOf>> /\ unsure' = unsure \cup tagOp[c].names
        /\ Moves(c, NoTagOp) /\ Sure' \subseteq Sure /\ \A j \in Sure' : j \notin tagOp[c].names
    BY <1>5 DEF InterruptTagOp, Moves, Sure
  <2>2. NoTagOp \in TagCall /\ NoTagOp.at = "idle"
    BY DEF TagCall, NoTagOp
  <2>3. /\ tagOp' \in [TagUser -> TagCall] /\ tagOp'[c] = NoTagOp
        /\ \A d \in TagUser : d # c => tagOp'[d] = tagOp[d]
    BY <1>a, <2>1, <2>2, OneMoves
  <2>4. TagTypes'
    BY <1>a, <2>1, <2>3 DEF TagTypes
  <2>5. ASSUME NEW d \in TagUser PROVE KeyCallOf(d)' /\ FlushOf(d)'
    <3>1. CASE d = c
      BY <2>2, <2>3, <3>1 DEF KeyCallOf, FlushOf
    <3>2. CASE d # c
      <4>1. KeyCallOf(d) /\ FlushOf(d) /\ tagOp'[d] = tagOp[d]
        BY <1>a, <2>3, <3>2
      <4>2. \A e \in TagUser : InTagOp(e)' => InTagOp(e)
        BY <2>2, <2>3 DEF InTagOp
      <4>3. KeyCallOf(d)'
        BY <2>1, <4>1, <4>2 DEF KeyCallOf, Tracks
      <4>4. FlushOf(d)'
        BY <2>1, <4>1 DEF FlushOf
      <4> QED
        BY <4>3, <4>4
    <3> QED
      BY <3>1, <3>2
  <2>6. ASSUME NEW j \in Sure' PROVE Indexed(j)'
    <3>1. Indexed(j) /\ j \notin tagOp[c].names
      BY <1>a, <2>1
    <3>2. ~UserOf(c, j)
      BY <1>a, <3>1 DEF UserOf, KeyCallOf
    <3>3. \A d \in TagUser : UserOf(d, j) => UserOf(d, j)'
      BY <2>3, <3>2 DEF UserOf
    <3>4. \A d \in TagUser : tagOp'[d].at = "write" => tagOp'[d] = tagOp[d]
      BY <2>2, <2>3
    <3> QED
      BY <2>1, <3>1, <3>3, <3>4 DEF Indexed
  <2> QED
    BY <2>4, <2>5, <2>6 DEF TagsSafe
<1>6. CASE UNCHANGED tagVars
  <2>1. UNCHANGED <<tagged, tagIndex, tagsOf, tagOp, unsure>>
    BY <1>6 DEF tagVars
  <2>2. TagTypes' /\ Sure' = Sure
    BY <1>a, <2>1 DEF TagTypes, Sure
  <2>3. \A d \in TagUser : KeyCallOf(d)' /\ FlushOf(d)'
    BY <1>a, <2>1, <2>2 DEF KeyCallOf, FlushOf, InTagOp, Tracks
  <2>4. \A k \in Sure : Indexed(k)'
    BY <1>a, <2>1 DEF Indexed, UserOf
  <2> QED
    BY <2>2, <2>3, <2>4 DEF TagsSafe
<1>7. ASSUME TagNext PROVE TagsSafe'
  BY <1>1, <1>2, <1>3, <1>4, <1>5, <1>7, ReadIndexStep, WriteIndexStep, CollectStep,
     DropKeyStep, ClearTagStep DEF TagNext
<1> QED
  BY <1>6, <1>7

LEMMA TagsSafety == TagsSafe => TagsInv
<1> SUFFICES ASSUME TagsSafe PROVE TagsInv
  OBVIOUS
<1>a. /\ \A d \in TagUser : KeyCallOf(d) /\ FlushOf(d)
      /\ \A k \in Sure : Indexed(k)
  BY DEF TagsSafe
<1>1. StoredKeysAreIndexed
  <2> SUFFICES ASSUME NEW k \in Sure, NEW t \in Tag, t \in tagsOf[k], k \notin tagIndex[t]
               PROVE  \E c \in TagUser : tagOp[c].at \in {"track", "write"} /\ tagOp[c].key = k
    BY DEF StoredKeysAreIndexed, Sure
  <2>1. PICK c \in TagUser : UserOf(c, k)
    BY <1>a DEF Indexed
  <2>2. Tracks(c)
    BY <1>a, <2>1 DEF KeyCallOf, UserOf
  <2> QED
    BY <2>1, <2>2 DEF Tracks, UserOf
<1>2. FlushLeavesNothing
  BY <1>a DEF FlushLeavesNothing, FlushOf, Sure
<1> QED
  BY <1>1, <1>2 DEF TagsInv

\* However calls of put(), forget() and flush() on tags interleave, stop or
\* are refused, what is stored is found by its tags and a flush leaves nothing
\* of them, but for keys on which calls met.
THEOREM TagsAreKept == TagSpec => []TagsInv
<1> QED
  BY TagsStart, TagsStep, TagsSafety, PTL DEF TagSpec
-----------------------------------------------------------------------------
(***************************************************************************)
(* The parts together: a behaviour of the stores is one of each part.      *)
(***************************************************************************)
LEMMA StoresStart ==
    StoresInit => /\ SessionInit /\ SqliteInit /\ FileInit /\ TrailInit /\ PooledInit
                  /\ MigratorInit /\ ThrottleInit /\ TagInit
  BY DEF StoresInit

LEMMA StoresStep ==
    [StoresNext]_storesVars =>
        /\ [SessionNext]_sessionVars /\ [SqliteNext]_sqliteVars /\ [FileNext]_fileVars
        /\ [TrailNext]_trailVars /\ [PooledNext]_pooledVars /\ [MigratorNext]_migratorVars
        /\ [ThrottleNext]_throttleVars /\ [TagNext]_tagVars
<1> SUFFICES ASSUME [StoresNext]_storesVars
             PROVE  /\ [SessionNext]_sessionVars /\ [SqliteNext]_sqliteVars /\ [FileNext]_fileVars
                    /\ [TrailNext]_trailVars /\ [PooledNext]_pooledVars
                    /\ [MigratorNext]_migratorVars /\ [ThrottleNext]_throttleVars
                    /\ [TagNext]_tagVars
  OBVIOUS
<1>3. StoresNext \/ UNCHANGED storesVars
  OBVIOUS
<1>1. CASE StoresNext
  BY <1>1, Zenon DEF StoresNext
<1>2. CASE UNCHANGED storesVars
  <2>1. UNCHANGED <<sessionVars, sqliteVars, fileVars, trailVars>>
    BY <1>2 DEF storesVars
  <2>2. UNCHANGED <<pooledVars, migratorVars, throttleVars, tagVars>>
    BY <1>2 DEF storesVars
  <2> QED
    BY <2>1, <2>2
<1> QED
  BY <1>1, <1>2, <1>3

LEMMA StoresRun == StoresSpec => StoresInit /\ [][StoresNext]_storesVars
  BY PTL DEF StoresSpec

\* What was put in the cache's files, in the lists of its tags and in the
\* debug trail stays there, however calls interleave and whatever is killed.
THEOREM WhatIsStoredIsKept == StoresSpec => []StoredInv
<1>1. FilesSafe /\ TagsSafe /\ TrailSafe => StoredInv
  <2>1. FilesSafe => FileInv
    BY DEF FilesSafe, FileInv
  <2>2. TrailSafe => TrailInv
    BY DEF TrailSafe
  <2> QED
    BY <2>1, <2>2, TagsSafety DEF StoredInv
<1> QED
  BY <1>1, FilesInit, FilesStep, TagsStart, TagsStep, TrailStarts, TrailSteps, StoresStart,
     StoresStep, StoresRun, PTL

\* A transaction takes effect all or not at all, on SQLite's one handle and on
\* a pool of clients, for any number of transactions and writers.
THEOREM TransactionsAreWhole == StoresSpec => []TransactionsInv
<1>1. SqliteSafe /\ PooledSafe => TransactionsInv
  BY SqliteSafety, PooledSafety DEF TransactionsInv
<1> QED
  BY <1>1, SqliteStarts, SqliteStep, PooledStarts, PooledSteps, StoresStart, StoresStep,
     StoresRun, PTL

\* The migrations table tells which migrations ran to their end, in order.
THEOREM MigrationsAreRecorded == StoresSpec => []MigratorInv
<1>1. MigrationsSafe => MigratorInv
  BY DEF MigrationsSafe
<1> QED
  BY <1>1, MigrationsInit, MigrationsStep, StoresStart, StoresStep, StoresRun, PTL

\* The throttle errs on neither side by more than the requests that raced.
THEOREM ThrottleErrsLittle == StoresSpec => []ThrottleInv
  BY ThrottleStarts, ThrottleStep, ThrottleSafety, StoresStart, StoresStep, StoresRun, PTL

\* Writes get through, on a database whose error for a key that exists is not
\* recognised unless another was first, and sessions that are live are removed
\* by nobody but those who may.
THEOREM LiveSessionsAreKept == StoresSpec => SessionsAreKept
<1>1. SessionsSafe /\ [SessionNext]_sessionVars =>
          [session # NoRow /\ ~outdated /\ session' = NoRow =>
              destroys' > destroys \/ \E r \in betrayed : read'[r] # read[r]]_sessionVars
  BY LiveSessionsStep
<1>2. SessionsSafe => SessionTypeOK /\ WritesGetThrough
  BY DEF SessionsSafe
<1> QED
  BY <1>1, <1>2, SessionsInit, SessionsStep, StoresStart, StoresStep, StoresRun, PTL
     DEF SessionsAreKept, LiveSessionsStay
=============================================================================
