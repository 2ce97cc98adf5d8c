---------------------------- MODULE SessionStore ----------------------------
(***************************************************************************)
(* DatabaseSessionStore (packages/auth/src/session-store.ts), for one      *)
(* session: writes, reads, destroy() and pruneExpired() of several         *)
(* requests, one SQL statement at a time.  The id is the primary key.      *)
(***************************************************************************)
EXTENDS Naturals

CONSTANTS
    Writer,         \* calls of write()
    Reader,         \* calls of read()
    MaxDestroys,    \* how often destroy() is called
    NoRow

ASSUME SessionAssumption == NoRow \notin Writer /\ MaxDestroys \in Nat

READ_ATTEMPTS == 3

VARIABLES
    session,        \* whose payload the row holds, or NoRow
    outdated,       \* the row's last_activity is past the lifetime
    write,          \* update, insert, retry, written or threw
    read,           \* look, expired (to be destroyed) or returned
    looks,          \* looks a read has left
    destroys,       \* calls of destroy() so far
    recognised,     \* this database's error for a key that exists says UNIQUE or
                    \* PRIMARY KEY: SQLite's does, MySQL's "Duplicate entry" not
    robbed,         \* history: writes whose row went while they were to retry
    betrayed        \* history: reads whose outdated row was written since

sessionVars == <<session, outdated, write, read, looks, destroys, recognised, robbed, betrayed>>

SessionTypeOK ==
    /\ session \in Writer \cup {NoRow}
    /\ outdated \in BOOLEAN
    /\ write \in [Writer -> {"update", "insert", "retry", "written", "threw"}]
    /\ read \in [Reader -> {"look", "expired", "returned"}]
    /\ looks \in [Reader -> 0 .. READ_ATTEMPTS] /\ destroys \in 0 .. MaxDestroys
    /\ recognised \in BOOLEAN
    /\ robbed \subseteq Writer /\ betrayed \subseteq Reader

SessionInit ==
    /\ session = NoRow /\ outdated = FALSE
    /\ write = [w \in Writer |-> "update"]
    /\ read = [r \in Reader |-> "look"]
    /\ looks = [r \in Reader |-> READ_ATTEMPTS] /\ destroys = 0
    /\ recognised \in BOOLEAN
    /\ robbed = {} /\ betrayed = {}

\* The row gets a payload and a new last_activity.
SaveRow(w) ==
    /\ session' = w /\ outdated' = FALSE
    /\ betrayed' = betrayed \cup {r \in Reader : read[r] = "expired"}

KeepRow == UNCHANGED <<session, outdated, betrayed>>

RemoveRow ==
    /\ session' = NoRow /\ outdated' = FALSE
    /\ robbed' = robbed \cup {w \in Writer : write[w] = "retry"}
    /\ UNCHANGED betrayed

Writes(w, from, to) == write[w] = from /\ write' = [write EXCEPT ![w] = to]
-----------------------------------------------------------------------------
UpdateSession(w) ==
    /\ IF session # NoRow THEN Writes(w, "update", "written") /\ SaveRow(w)
       ELSE Writes(w, "update", "insert") /\ KeepRow
    /\ UNCHANGED <<read, looks, destroys, recognised, robbed>>

\* The insert, which conflicts with a row another write() put there: it is
\* thrown unless isUniqueOrPrimaryKeyConflict() recognises it.
InsertSession(w) ==
    /\ IF session = NoRow THEN Writes(w, "insert", "written") /\ SaveRow(w)
       ELSE Writes(w, "insert", IF recognised THEN "retry" ELSE "threw") /\ KeepRow
    /\ UNCHANGED <<read, looks, destroys, recognised, robbed>>

\* The second update; without a row the conflict is thrown after all.
RetryUpdate(w) ==
    /\ IF session # NoRow THEN Writes(w, "retry", "written") /\ SaveRow(w)
       ELSE Writes(w, "retry", "threw") /\ KeepRow
    /\ UNCHANGED <<read, looks, destroys, recognised, robbed>>

\* Mutant: every row counts as expired.
LookStrictly(r) ==
    /\ read[r] = "look"
    /\ looks' = [looks EXCEPT ![r] = @ - 1]
    /\ read' = [read EXCEPT ![r] = IF session # NoRow THEN "expired"
                                   ELSE IF looks[r] = 1 THEN "returned" ELSE "look"]
    /\ UNCHANGED <<session, outdated, write, destroys, recognised, robbed, betrayed>>

\* read(): up to three looks for a row, and one that is outdated is to go.
Look(r) ==
    /\ read[r] = "look"
    /\ looks' = [looks EXCEPT ![r] = @ - 1]
    /\ read' = [read EXCEPT ![r] =
           IF session # NoRow /\ outdated THEN "expired"
           ELSE IF session # NoRow \/ looks[r] = 1 THEN "returned" ELSE "look"]
    /\ UNCHANGED <<session, outdated, write, destroys, recognised, robbed, betrayed>>

\* decodeRow() destroys the session it found outdated, by its id.
DestroyExpired(r) ==
    /\ read[r] = "expired"
    /\ read' = [read EXCEPT ![r] = "returned"]
    /\ RemoveRow
    /\ UNCHANGED <<write, looks, destroys, recognised>>

DestroySession ==
    /\ destroys < MaxDestroys
    /\ destroys' = destroys + 1
    /\ RemoveRow
    /\ UNCHANGED <<write, read, looks, recognised>>

PruneExpired ==
    /\ session # NoRow /\ outdated
    /\ RemoveRow
    /\ UNCHANGED <<write, read, looks, destroys, recognised>>

\* The lifetime of the row ends.
LifetimeEnds ==
    /\ session # NoRow /\ ~outdated
    /\ outdated' = TRUE
    /\ UNCHANGED <<session, write, read, looks, destroys, recognised, robbed, betrayed>>

SessionNext ==
    \/ \E w \in Writer : UpdateSession(w) \/ InsertSession(w) \/ RetryUpdate(w)
    \/ \E r \in Reader : Look(r) \/ DestroyExpired(r)
    \/ DestroySession \/ PruneExpired \/ LifetimeEnds

SessionSpec == SessionInit /\ [][SessionNext]_sessionVars
-----------------------------------------------------------------------------
\* Two first writes of a session do not fail each other on a database whose
\* error is recognised: a write() throws only if the row it collided with was
\* removed before its second update.  On another, MySQL, it throws once a
\* write() it met was first.
WritesGetThrough ==
    \A w \in Writer : write[w] = "threw" =>
        IF recognised THEN w \in robbed ELSE \E v \in Writer \ {w} : write[v] = "written"

\* A live session goes by destroy() alone, or with a read() that found it
\* outdated just before somebody wrote it.
LiveSessionsStay ==
    [][session # NoRow /\ ~outdated /\ session' = NoRow =>
          destroys' > destroys \/ \E r \in betrayed : read'[r] # read[r]]_sessionVars

\* Writes get through, and what they wrote stays.
SessionsAreKept == [](SessionTypeOK /\ WritesGetThrough) /\ LiveSessionsStay
=============================================================================
