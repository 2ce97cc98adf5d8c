------------------------------ MODULE Migrator ------------------------------
(***************************************************************************)
(* packages/database/src/migrator.ts: run() in one or several processes.   *)
(* Migrations are numbered in the order of their file names; the up() of   *)
(* each is two statements, outside any transaction, and only that of a     *)
(* repeatable one succeeds where it ran before.  A step is one statement.  *)
(***************************************************************************)
EXTENDS Naturals, Sequences, FiniteSetsExt

CONSTANTS
    FileCount,      \* migrations are 1 .. FileCount
    Repeatable,     \* those whose up() may run again
    Runner          \* processes that run migrate

ASSUME MigratorAssumption == FileCount \in Nat /\ Repeatable \subseteq 1 .. FileCount

VARIABLES
    done,           \* statements of each up() that took effect
    log,            \* the migrations table: name, batch and who wrote it
    todo,           \* the rest of each run's pending list, which is sorted
    step,           \* where each run is
    batch,          \* its batch number
    overlapped      \* history: two runs were under way at once

migratorVars == <<done, log, todo, step, batch, overlapped>>

Migration == 1 .. FileCount
Steps == {"off", "pending", "first", "second", "record"}

MigratorTypeOK ==
    /\ done \in [Migration -> 0 .. 2]
    /\ log \in Seq([name: Migration, batch: Nat, by: Runner])
    /\ todo \in [Runner -> SUBSET Migration]
    /\ step \in [Runner -> Steps]
    /\ batch \in [Runner -> Nat]
    /\ overlapped \in BOOLEAN

MigratorInit ==
    /\ done = [m \in Migration |-> 0]
    /\ log = <<>>
    /\ todo = [r \in Runner |-> {}]
    /\ step = [r \in Runner |-> "off"]
    /\ batch = [r \in Runner |-> 0]
    /\ overlapped = FALSE

Recorded == {log[i].name : i \in DOMAIN log}
-----------------------------------------------------------------------------
\* executed() and files(): what is in the table is not pending.
FindPending(r) ==
    /\ step[r] = "off"
    /\ Recorded # Migration
    /\ todo' = [todo EXCEPT ![r] = Migration \ Recorded]
    /\ step' = [step EXCEPT ![r] = "pending"]
    /\ overlapped' = (overlapped \/ \E q \in Runner : step[q] # "off")
    /\ UNCHANGED <<done, log, batch>>

LatestBatch == Max({0} \cup {log[i].batch : i \in DOMAIN log})

ReadBatch(r) ==
    /\ step[r] = "pending"
    /\ batch' = [batch EXCEPT ![r] = LatestBatch + 1]
    /\ step' = [step EXCEPT ![r] = "first"]
    /\ UNCHANGED <<done, log, todo, overlapped>>

\* The run throws, or its process dies.
Quit(r) ==
    /\ step' = [step EXCEPT ![r] = "off"]
    /\ todo' = [todo EXCEPT ![r] = {}]
    /\ batch' = [batch EXCEPT ![r] = 0]

\* A statement of up() where it took effect before.
Repeats(m, n) == done[m] >= n /\ m \notin Repeatable

\* Mutant: the migration is recorded before its up().
UpFirstRecorded(r) ==
    LET m == Min(todo[r]) IN
    /\ step[r] = "first"
    /\ IF Repeats(m, 1) THEN Quit(r) /\ UNCHANGED done
       ELSE /\ done' = [done EXCEPT ![m] = IF @ = 0 THEN 1 ELSE @]
            /\ step' = [step EXCEPT ![r] = "second"]
            /\ UNCHANGED <<todo, batch>>
    /\ log' = Append(log, [name |-> m, batch |-> batch[r], by |-> r])
    /\ UNCHANGED overlapped

UpFirst(r) ==
    LET m == Min(todo[r]) IN
    /\ step[r] = "first"
    /\ IF Repeats(m, 1) THEN Quit(r) /\ UNCHANGED done
       ELSE /\ done' = [done EXCEPT ![m] = IF @ = 0 THEN 1 ELSE @]
            /\ step' = [step EXCEPT ![r] = "second"]
            /\ UNCHANGED <<todo, batch>>
    /\ UNCHANGED <<log, overlapped>>

UpSecond(r) ==
    LET m == Min(todo[r]) IN
    /\ step[r] = "second"
    /\ IF Repeats(m, 2) THEN Quit(r) /\ UNCHANGED done
       ELSE /\ done' = [done EXCEPT ![m] = 2]
            /\ step' = [step EXCEPT ![r] = "record"]
            /\ UNCHANGED <<todo, batch>>
    /\ UNCHANGED <<log, overlapped>>

\* record(), and on to the next file.
Record(r) ==
    /\ step[r] = "record"
    /\ log' = Append(log, [name |-> Min(todo[r]), batch |-> batch[r], by |-> r])
    /\ IF todo[r] = {Min(todo[r])} THEN Quit(r)
       ELSE /\ todo' = [todo EXCEPT ![r] = @ \ {Min(todo[r])}]
            /\ step' = [step EXCEPT ![r] = "first"]
            /\ UNCHANGED batch
    /\ UNCHANGED <<done, overlapped>>

\* A statement fails, or the process dies before it.
Stops(r) ==
    /\ step[r] # "off"
    /\ Quit(r)
    /\ UNCHANGED <<done, log, overlapped>>

MigratorNext ==
    \E r \in Runner : \/ FindPending(r) \/ ReadBatch(r) \/ UpFirst(r) \/ UpSecond(r)
                      \/ Record(r) \/ Stops(r)

MigratorSpec == MigratorInit /\ [][MigratorNext]_migratorVars
-----------------------------------------------------------------------------
\* Whatever dies and whoever runs at once, the table names only migrations
\* that ran to their end, and no migration has begun before all earlier ones
\* were through.
RecordedAreDone ==
    /\ \A m \in Recorded : done[m] = 2
    /\ \A m \in Migration : done[m] > 0 => \A e \in 1 .. m - 1 : done[e] = 2

\* A migration is recorded twice, or a batch number shared by two processes,
\* only when runs overlapped, whatever died or failed.
OneRunPerRow ==
    overlapped \/ \A i, j \in DOMAIN log : i # j =>
                      /\ log[i].name # log[j].name
                      /\ log[i].batch = log[j].batch => log[i].by = log[j].by

\* What the table of migrations can be trusted to say.
MigratorInv == MigratorTypeOK /\ RecordedAreDone /\ OneRunPerRow
=============================================================================
