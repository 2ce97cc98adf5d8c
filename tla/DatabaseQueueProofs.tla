------------------------ MODULE DatabaseQueueProofs ------------------------
(***************************************************************************)
(* Proofs about DatabaseQueue, for every set of jobs, queues, workers and  *)
(* operators, every limit and every combination of faults: first what the  *)
(* table and its numbers may be, then what is delivered of it.             *)
(***************************************************************************)
EXTENDS MCDatabaseQueue, TLAPS, SequenceTheorems, FiniteSetTheorems

-----------------------------------------------------------------------------
(***************************************************************************)
(* The table operators and the two ways the ledger changes.                *)
(***************************************************************************)
NewRow(payload, queue, delayed) ==
    [queue |-> queue, payload |-> payload, attempts |-> 0,
     reserved |-> FALSE, delayed |-> delayed]

NewEntry(payload) ==
    [payload |-> payload, failures |-> 0, handled |-> FALSE, givenUp |-> FALSE]

LEMMA InsertTypes ==
    ASSUME TypeOK, NEW payload \in Payload, NEW queue \in Queue,
           NEW delayed \in BOOLEAN, Insert(payload, queue, delayed)
    PROVE  /\ ledger' \in Seq(Entry)
           /\ Len(ledger') = Len(ledger) + 1
           /\ DOMAIN ledger' = 1 .. Len(ledger) + 1
           /\ \A i \in DOMAIN ledger : i \in DOMAIN ledger' /\ ledger'[i] = ledger[i]
           /\ ledger'[Len(ledger) + 1] = NewEntry(payload)
           /\ DOMAIN jobs' = DOMAIN jobs \cup {Len(ledger) + 1}
           /\ jobs' \in [DOMAIN jobs' -> Row]
           /\ DOMAIN jobs' \subseteq DOMAIN ledger'
           /\ jobs'[Len(ledger) + 1] = NewRow(payload, queue, delayed)
           /\ \A i \in DOMAIN jobs : jobs'[i] = jobs[i]
<1>1. /\ ledger \in Seq(Entry)
      /\ jobs \in [DOMAIN jobs -> Row]
      /\ DOMAIN jobs \subseteq 1 .. Len(ledger)
      /\ Len(ledger) \in Nat
      /\ DOMAIN ledger = 1 .. Len(ledger)
  BY DEF TypeOK
<1>2. NewEntry(payload) \in Entry /\ NewRow(payload, queue, delayed) \in Row
  BY DEF NewEntry, NewRow, Entry, Row
<1>3. ledger' = Append(ledger, NewEntry(payload))
  BY DEF Insert, NewEntry
<1>4. jobs' = InsertRow(jobs, Len(ledger) + 1, NewRow(payload, queue, delayed))
  BY DEF Insert, NewRow
<1>5. /\ ledger' \in Seq(Entry)
      /\ Len(ledger') = Len(ledger) + 1
      /\ \A i \in 1 .. Len(ledger) : ledger'[i] = ledger[i]
      /\ ledger'[Len(ledger) + 1] = NewEntry(payload)
  BY <1>1, <1>2, <1>3, AppendProperties
<1>6. DOMAIN ledger' = 1 .. Len(ledger) + 1
  BY <1>5
<1>7. /\ DOMAIN jobs' = DOMAIN jobs \cup {Len(ledger) + 1}
      /\ jobs' \in [DOMAIN jobs' -> Row]
  BY <1>1, <1>2, <1>4 DEF InsertRow
<1>8. /\ jobs'[Len(ledger) + 1] = NewRow(payload, queue, delayed)
      /\ \A i \in DOMAIN jobs : jobs'[i] = jobs[i]
  BY <1>1, <1>4 DEF InsertRow
<1> QED
  BY <1>1, <1>5, <1>6, <1>7, <1>8

\* A worker marks the entry of the row it holds.
LEMMA MarkTypes ==
    ASSUME TypeOK, NEW i \in DOMAIN ledger, NEW e \in Entry,
           ledger' = [ledger EXCEPT ![i] = e]
    PROVE  /\ ledger' \in Seq(Entry)
           /\ DOMAIN ledger' = DOMAIN ledger
           /\ ledger'[i] = e
           /\ \A j \in DOMAIN ledger : j # i => ledger'[j] = ledger[j]
<1>1. ledger \in Seq(Entry) /\ i \in 1 .. Len(ledger)
  BY DEF TypeOK
<1>2. /\ ledger' \in Seq(Entry)
      /\ Len(ledger') = Len(ledger)
      /\ \A j \in 1 .. Len(ledger) : ledger'[j] = IF j = i THEN e ELSE ledger[j]
  BY <1>1, ExceptSeq
<1> QED
  BY <1>1, <1>2

LEMMA ReleasedRow ==
    ASSUME NEW r \in Row, NEW d \in BOOLEAN, NEW n \in Nat
    PROVE  LET released == [r EXCEPT !.reserved = FALSE, !.delayed = d, !.attempts = n]
           IN  released \in Row /\ released.payload = r.payload
BY DEF Row

\* A worker updates the row of its record, if that row is still there.
LEMMA UpdateTypes ==
    ASSUME TypeOK, NEW i, NEW row, i \in DOMAIN jobs => row \in Row,
           jobs' = UpdateRow(jobs, i, row)
    PROVE  /\ DOMAIN jobs' = DOMAIN jobs
           /\ jobs' \in [DOMAIN jobs' -> Row]
           /\ \A j \in DOMAIN jobs : jobs'[j] = IF j = i THEN row ELSE jobs[j]
BY DEF TypeOK, UpdateRow
-----------------------------------------------------------------------------
(***************************************************************************)
(* Types, and the links between records, rows and the ledger.              *)
(***************************************************************************)
TypeInv == TypeOK /\ Linked

LEMMA TypeInvInit == Init => TypeInv
<1> SUFFICES ASSUME Init PROVE TypeInv
  OBVIOUS
<1>1. DOMAIN jobs = {} /\ DOMAIN failedJobs = {} /\ ledger = <<>>
  BY DEF Init, EmptyTable
<1>2. ledger \in Seq(Entry)
  BY <1>1, EmptySeq
<1>3. TypeOK
  BY <1>1, <1>2, WorkerAssumption
     DEF Init, TypeOK, EmptyTable, PcStates, Retrying, NotRetrying
<1>4. Linked
  BY <1>1 DEF Init, Linked, RecordLinked, RetryLinked, Working, NotRetrying
<1> QED
  BY <1>3, <1>4 DEF TypeInv

\* A step keeps everything linked when each record, row and retry is as it
\* was, or linked afresh.
SameRecord(w) ==
    pc'[w] \in Working \cup {"reserve"} =>
        /\ pc[w] \in Working \cup {"reserve"}
        /\ record'[w] = record[w]
        /\ pc'[w] = "chain" => pc[w] = "chain" \/ Chained(w)

SameRow(i) == i \in DOMAIN jobs /\ jobs'[i].payload = jobs[i].payload

SameRetry(o) ==
    retrying'[o].at # "idle" =>
        /\ retrying[o].at # "idle"
        /\ retrying'[o].row = retrying[o].row
        /\ retrying'[o].id = retrying[o].id

LEMMA LinkedFrame ==
    ASSUME TypeInv,
           \A i \in DOMAIN ledger : /\ i \in DOMAIN ledger'
                                    /\ ledger'[i].payload = ledger[i].payload,
           \A i \in DOMAIN jobs' : SameRow(i) \/ jobs'[i].payload = ledger'[i].payload,
           \A w \in Worker : SameRecord(w) \/ RecordLinked(w)',
           \A o \in Operator : SameRetry(o) \/ RetryLinked(o)',
           lastFailed' \in Nat, lastFailed <= lastFailed'
    PROVE  Linked'
<1>1. ASSUME NEW w \in Worker PROVE RecordLinked(w)'
  BY <1>1 DEF TypeInv, Linked, RecordLinked, Chained, SameRecord
<1>2. ASSUME NEW i \in DOMAIN jobs' PROVE jobs'[i].payload = ledger'[i].payload
  <2>1. CASE SameRow(i)
    <3>1. i \in DOMAIN jobs /\ i \in DOMAIN ledger
      BY <2>1 DEF TypeInv, TypeOK, SameRow
    <3>2. jobs[i].payload = ledger[i].payload
      BY <3>1 DEF TypeInv, Linked
    <3> QED
      BY <2>1, <3>1, <3>2 DEF SameRow
  <2> QED
    BY <1>2, <2>1 DEF SameRow
<1>3. ASSUME NEW o \in Operator PROVE RetryLinked(o)'
  <2>1. lastFailed \in Nat /\ RetryLinked(o)
    BY DEF TypeInv, TypeOK, Linked
  <2>2. CASE SameRetry(o)
    BY <2>1, <2>2 DEF RetryLinked, SameRetry
  <2> QED
    BY <2>2 DEF SameRetry
<1> QED
  BY <1>1, <1>2, <1>3 DEF Linked

LEMMA InsertLinked ==
    ASSUME TypeInv, NEW payload \in Payload, NEW queue \in Queue,
           NEW delayed \in BOOLEAN, Insert(payload, queue, delayed),
           \A w \in Worker : SameRecord(w),
           \A o \in Operator : SameRetry(o),
           lastFailed' = lastFailed
    PROVE  Linked'
<1>1. TypeOK
  BY DEF TypeInv
<1>2. \A i \in DOMAIN ledger : i \in DOMAIN ledger' /\ ledger'[i] = ledger[i]
  BY <1>1, InsertTypes
<1>3. \A i \in DOMAIN jobs' : SameRow(i) \/ jobs'[i].payload = ledger'[i].payload
  <2>1. /\ DOMAIN jobs' = DOMAIN jobs \cup {Len(ledger) + 1}
        /\ \A i \in DOMAIN jobs : jobs'[i] = jobs[i]
        /\ jobs'[Len(ledger) + 1].payload = payload
        /\ ledger'[Len(ledger) + 1].payload = payload
    <3>1. /\ DOMAIN jobs' = DOMAIN jobs \cup {Len(ledger) + 1}
          /\ \A i \in DOMAIN jobs : jobs'[i] = jobs[i]
          /\ jobs'[Len(ledger) + 1] = NewRow(payload, queue, delayed)
          /\ ledger'[Len(ledger) + 1] = NewEntry(payload)
      BY <1>1, InsertTypes
    <3> QED
      BY <3>1 DEF NewRow, NewEntry
  <2>2. ASSUME NEW i \in DOMAIN jobs'
        PROVE  SameRow(i) \/ jobs'[i].payload = ledger'[i].payload
    <3>1. CASE i \in DOMAIN jobs
      BY <2>1, <3>1 DEF SameRow
    <3>2. CASE i = Len(ledger) + 1
      BY <2>1, <3>2
    <3> QED
      BY <2>1, <2>2, <3>1, <3>2
  <2> QED
    BY <2>2
<1>4. lastFailed' \in Nat /\ lastFailed <= lastFailed'
  BY <1>1 DEF TypeOK
<1> QED
  BY <1>2, <1>3, <1>4, LinkedFrame

LEMMA CaughtEntry ==
    ASSUME NEW entry \in Entry, NEW g
    PROVE  /\ FailedEntry(entry, g) \in Entry
           /\ FailedEntry(entry, g).payload = entry.payload
           /\ FailedEntry(entry, g).handled = entry.handled
           /\ FailedEntry(entry, g).failures = entry.failures + 1
           /\ g => FailedEntry(entry, g).givenUp = TRUE
           /\ ~g => FailedEntry(entry, g).givenUp = entry.givenUp
<1>1. CASE g
  <2>1. FailedEntry(entry, g) = [entry EXCEPT !.failures = @ + 1, !.givenUp = TRUE]
    BY <1>1 DEF FailedEntry
  <2> DEFINE e == [entry EXCEPT !.failures = @ + 1, !.givenUp = TRUE]
  <2>2. e \in Entry
    <3>1. entry.failures + 1 \in Nat
      BY DEF Entry
    <3>2. \A n \in Nat : [entry EXCEPT !.failures = n, !.givenUp = TRUE] \in Entry
      BY DEF Entry
    <3> QED
      BY <3>1, <3>2
  <2>3. /\ e.payload = entry.payload
        /\ e.handled = entry.handled
        /\ e.failures = entry.failures + 1
    BY DEF Entry
  <2>4. e.givenUp = TRUE
    BY DEF Entry
  <2> QED
    BY <1>1, <2>1, <2>2, <2>3, <2>4
<1>2. CASE ~g
  BY <1>2 DEF Entry, FailedEntry
<1> QED
  BY <1>1, <1>2

LEMMA RestOfChain ==
    ASSUME NEW p \in Payload, Len(p) > 1
    PROVE  Tail(p) \in Payload
<1>1. p \in Seq(Job) /\ p # <<>>
  BY DEF Payload
<1>2. Tail(p) \in Seq(Job) /\ Len(Tail(p)) = Len(p) - 1
  BY <1>1, HeadTailProperties
<1>3. Tail(p) # <<>>
  <2>1. Len(p) \in Nat /\ Len(Tail(p)) # 0
    BY <1>1, <1>2, LenProperties
  <2>2. \A q : q = <<>> => Len(q) = 0
    BY EmptySeq
  <2> QED
    BY <2>1, <2>2
<1> QED
  BY <1>2, <1>3 DEF Payload

LEMMA CaughtInv ==
    ASSUME TypeInv, NEW w \in Worker, pc[w] \in Working,
           NEW entry \in Entry, entry.payload = ledger[record[w].id].payload,
           Caught(w, entry)
    PROVE  TypeInv'
<1> DEFINE i == record[w].id
           e == FailedEntry(entry, GivesUp(w))
<1>1. TypeOK /\ Linked
  BY DEF TypeInv
<1>2. i \in DOMAIN ledger
  BY <1>1 DEF Linked, RecordLinked
<1>4. e \in Entry /\ e.payload = ledger[i].payload
  BY CaughtEntry
<1>5. ledger' = [ledger EXCEPT ![i] = e]
  BY DEF Caught
<1> HIDE DEF i, e
<1>6. /\ ledger' \in Seq(Entry)
      /\ DOMAIN ledger' = DOMAIN ledger
      /\ \A j \in DOMAIN ledger : ledger'[j].payload = ledger[j].payload
  BY <1>1, <1>2, <1>4, <1>5, MarkTypes
<1>7. PICK at \in {"release", "record", "discard"} : pc' = [pc EXCEPT ![w] = at]
  BY DEF Caught, CatchError, Goto
<1>8. UNCHANGED <<record, found, quit, processed, jobs, failedVars, operatorVars>>
  BY DEF Caught
<1>9. TypeOK'
  BY <1>1, <1>6, <1>7, <1>8 DEF TypeOK, PcStates, failedVars, operatorVars
<1>10. \A v \in Worker : SameRecord(v)
  BY <1>1, <1>7, <1>8 DEF TypeOK, SameRecord, Working
<1>11. Linked'
  BY <1>1, <1>6, <1>8, <1>10, LinkedFrame
     DEF TypeOK, SameRow, SameRetry, failedVars, operatorVars
<1> QED
  BY <1>9, <1>11 DEF TypeInv

LEMMA TypeInvStep == TypeInv /\ [Next]_vars => TypeInv'
<1> SUFFICES ASSUME TypeInv, [Next]_vars PROVE TypeInv'
  OBVIOUS
<1> USE WorkerAssumption, LimitAssumption, PayloadAssumption
<1>a. TypeOK /\ Linked
  BY DEF TypeInv
<1>1. ASSUME NEW p \in Dispatches, NEW q \in Queue,
             Dispatch(p, q) \/ DispatchLater(p, q)
      PROVE  TypeInv'
  <2>1. PICK delayed \in BOOLEAN : Insert(p, q, delayed)
    BY <1>1 DEF Dispatch, DispatchLater
  <2>2. UNCHANGED <<workerVars, failedVars, operatorVars>>
    BY <1>1 DEF Dispatch, DispatchLater
  <2>3. p \in Payload
    OBVIOUS
  <2>4. TypeOK'
    BY <1>a, <2>1, <2>2, <2>3, InsertTypes
       DEF TypeOK, workerVars, failedVars, operatorVars
  <2>5. Linked'
    BY <2>1, <2>2, <2>3, InsertLinked
       DEF workerVars, failedVars, operatorVars, SameRecord, SameRetry
  <2> QED
    BY <2>4, <2>5 DEF TypeInv
<1>2. ASSUME NEW i \in DOMAIN jobs, Elapse(i) PROVE TypeInv'
  <2>1. jobs' = [jobs EXCEPT ![i].delayed = FALSE]
    BY <1>2 DEF Elapse
  <2>2. UNCHANGED <<ledger, workerVars, failedVars, operatorVars>>
    BY <1>2 DEF Elapse
  <2>3. TypeOK'
    BY <1>a, <2>1, <2>2 DEF TypeOK, Row, workerVars, failedVars, operatorVars
  <2>4. Linked'
    BY <1>a, <2>1, <2>2, LinkedFrame
       DEF SameRecord, SameRow, SameRetry, TypeInv, TypeOK, Row, workerVars, failedVars, operatorVars
  <2> QED
    BY <2>3, <2>4 DEF TypeInv
<1>3. ASSUME NEW w \in Worker, Start(w) PROVE TypeInv'
  <2>1. TypeOK'
    BY <1>a, <1>3 DEF Start, TypeOK, PcStates, Goto, failedVars, operatorVars
  <2>2. Linked'
    BY <1>a, <1>3, LinkedFrame
       DEF SameRecord, SameRow, SameRetry, Start, TypeInv, TypeOK, Working, Goto, failedVars, operatorVars
  <2> QED
    BY <2>1, <2>2 DEF TypeInv
<1>4. ASSUME NEW w \in Worker, Exit(w) PROVE TypeInv'
  <2>1. TypeOK'
    BY <1>a, <1>4 DEF Exit, Stop, TypeOK, PcStates, Goto, failedVars, operatorVars
  <2>2. Linked'
    BY <1>a, <1>4, LinkedFrame
       DEF SameRecord, SameRow, SameRetry, Exit, Stop, TypeInv, TypeOK, Working, Goto, failedVars, operatorVars
  <2> QED
    BY <2>1, <2>2 DEF TypeInv
<1>5. ASSUME NEW w \in Worker, Select(w) PROVE TypeInv'
  <2>1. PICK i \in DOMAIN jobs :
            record' = [record EXCEPT ![w] = [id |-> i, queue |-> jobs[i].queue,
                                             payload |-> jobs[i].payload,
                                             attempts |-> jobs[i].attempts]]
    BY <1>5 DEF Select, Available
  <2>2. /\ pc' = [pc EXCEPT ![w] = "reserve"]
        /\ UNCHANGED <<found, quit, processed, jobs, ledger, failedVars, operatorVars>>
    BY <1>5 DEF Select, Goto
  <2>3. /\ jobs[i] \in Row /\ i \in DOMAIN ledger /\ i \in Nat \ {0}
        /\ jobs[i].payload = ledger[i].payload
    BY <1>a DEF TypeOK, Linked
  <2>4. record'[w] \in Popped
    BY <1>a, <2>1, <2>3 DEF TypeOK, Popped, Row
  <2>5. TypeOK'
    BY <1>a, <2>1, <2>2, <2>4 DEF TypeOK, PcStates, failedVars, operatorVars
  <2>6. RecordLinked(w)'
    BY <1>a, <2>1, <2>2, <2>3, <2>4 DEF TypeOK, RecordLinked
  <2>7. \A v \in Worker : SameRecord(v) \/ RecordLinked(v)'
    BY <1>a, <2>1, <2>2, <2>6 DEF TypeOK, SameRecord
  <2>8. Linked'
    BY <1>a, <2>2, <2>7, LinkedFrame
       DEF TypeOK, SameRow, SameRetry, failedVars, operatorVars
  <2> QED
    BY <2>5, <2>8 DEF TypeInv
<1>6. ASSUME NEW w \in Worker, SelectNothing(w) PROVE TypeInv'
  <2>1. TypeOK'
    BY <1>a, <1>6 DEF SelectNothing, TypeOK, PcStates, Goto, failedVars, operatorVars
  <2>2. Linked'
    BY <1>a, <1>6, LinkedFrame
       DEF SameRecord, SameRow, SameRetry, SelectNothing, TypeInv, TypeOK, Working, Goto, failedVars, operatorVars
  <2> QED
    BY <2>1, <2>2 DEF TypeInv
<1>7. ASSUME NEW w \in Worker, Wake(w) PROVE TypeInv'
  <2>1. TypeOK'
    BY <1>a, <1>7 DEF Wake, TypeOK, PcStates, Goto, failedVars, operatorVars
  <2>2. Linked'
    BY <1>a, <1>7, LinkedFrame
       DEF SameRecord, SameRow, SameRetry, Wake, TypeInv, TypeOK, Working, Goto, failedVars, operatorVars
  <2> QED
    BY <2>1, <2>2 DEF TypeInv
<1>8. ASSUME NEW w \in Worker, Reserve(w) PROVE TypeInv'
  <2> DEFINE i == record[w].id
             row == [jobs[i] EXCEPT !.reserved = TRUE]
  <2>1. i \in DOMAIN jobs => row \in Row /\ row.payload = jobs[i].payload
    <3>1. jobs \in [DOMAIN jobs -> Row]
      BY <1>a DEF TypeOK
    <3> QED
      BY <1>a, <3>1 DEF TypeOK, Row
  <2>2. jobs' = UpdateRow(jobs, i, row)
    BY <1>8 DEF Reserve
  <2> HIDE DEF i, row
  <2>3. /\ DOMAIN jobs' = DOMAIN jobs
        /\ jobs' \in [DOMAIN jobs' -> Row]
        /\ \A j \in DOMAIN jobs : jobs'[j].payload = jobs[j].payload
    BY <1>a, <2>1, <2>2, UpdateTypes
  <2>4. TypeOK'
    BY <1>a, <1>8, <2>3 DEF Reserve, TypeOK, PcStates, Goto, failedVars, operatorVars
  <2>5. /\ pc[w] = "reserve" /\ pc' = [pc EXCEPT ![w] = "run"]
        /\ UNCHANGED <<record, retrying, lastFailed, ledger>>
    BY <1>8 DEF Reserve, Goto, failedVars, operatorVars
  <2>6. \A v \in Worker : SameRecord(v)
    BY <1>a, <2>5 DEF TypeOK, SameRecord, Working
  <2>7. Linked'
    BY <1>a, <2>3, <2>5, <2>6, LinkedFrame DEF TypeInv, TypeOK, SameRow, SameRetry
  <2> QED
    BY <2>4, <2>7 DEF TypeInv
<1>9. ASSUME NEW w \in Worker, Succeed(w) PROVE TypeInv'
  <2> DEFINE i == record[w].id
             e == [ledger[i] EXCEPT !.handled = TRUE]
  <2>1. i \in DOMAIN ledger
    BY <1>a, <1>9 DEF Succeed, Linked, RecordLinked, Working
  <2>2. ledger[i] \in Entry
    BY <1>a, <2>1 DEF TypeOK
  <2>3. e \in Entry /\ e.payload = ledger[i].payload
    BY <2>2 DEF Entry
  <2>4. ledger' = [ledger EXCEPT ![i] = e]
    BY <1>9 DEF Succeed
  <2> HIDE DEF i, e
  <2>5. /\ ledger' \in Seq(Entry)
        /\ DOMAIN ledger' = DOMAIN ledger
        /\ \A j \in DOMAIN ledger : ledger'[j].payload = ledger[j].payload
    BY <1>a, <2>1, <2>3, <2>4, MarkTypes
  <2>6. PICK at \in {"chain", "delete"} :
            pc' = [pc EXCEPT ![w] = at] /\ (at = "chain" => Chained(w))
    BY <1>9 DEF Succeed, Goto
  <2>7. /\ pc[w] = "run"
        /\ UNCHANGED <<record, found, quit, processed, jobs, failedVars, operatorVars>>
    BY <1>9 DEF Succeed
  <2>8. TypeOK'
    BY <1>a, <2>5, <2>6, <2>7 DEF TypeOK, PcStates, failedVars, operatorVars
  <2>9. \A v \in Worker : SameRecord(v)
    BY <1>a, <2>6, <2>7 DEF TypeOK, SameRecord, Working
  <2>10. Linked'
    BY <1>a, <2>5, <2>7, <2>9, LinkedFrame
       DEF TypeOK, SameRow, SameRetry, failedVars, operatorVars
  <2> QED
    BY <2>8, <2>10 DEF TypeInv
<1>10. ASSUME NEW w \in Worker, pc[w] \in Working, Caught(w, ledger[record[w].id])
       PROVE  TypeInv'
  <2>1. ledger[record[w].id] \in Entry
    BY <1>a, <1>10 DEF TypeOK, Linked, RecordLinked
  <2> QED
    BY <1>10, <2>1, CaughtInv
<1>11. ASSUME NEW w \in Worker, HookFails(w) PROVE TypeInv'
  <2> DEFINE e == [ledger[record[w].id] EXCEPT !.handled = TRUE]
  <2>1. pc[w] \in Working
    BY <1>11 DEF HookFails, Working
  <2>2. ledger[record[w].id] \in Entry
    BY <1>a, <2>1 DEF TypeOK, Linked, RecordLinked
  <2>3. e \in Entry /\ e.payload = ledger[record[w].id].payload
    BY <2>2 DEF Entry
  <2>4. Caught(w, e)
    BY <1>11 DEF HookFails
  <2> QED
    BY <2>1, <2>3, <2>4, CaughtInv
<1>12. ASSUME NEW w \in Worker, PushNext(w) PROVE TypeInv'
  <2> DEFINE rest == Tail(record[w].payload)
  <2>1. /\ record[w] \in Popped
        /\ Len(record[w].payload) > 1
    BY <1>a, <1>12 DEF PushNext, Linked, RecordLinked, Working, Chained
  <2>2. record[w].payload \in Payload
    BY <2>1 DEF Popped
  <2>3. rest \in Payload
    BY <2>1, <2>2, RestOfChain
  <2>4. Insert(rest, Serves[w], FALSE)
    BY <1>12 DEF PushNext
  <2> HIDE DEF rest
  <2>5. /\ pc[w] = "chain" /\ pc' = [pc EXCEPT ![w] = "delete"]
        /\ UNCHANGED <<record, found, quit, processed, failedVars, operatorVars>>
    BY <1>12 DEF PushNext, Goto
  <2>6. TypeOK'
    BY <1>a, <2>3, <2>4, <2>5, InsertTypes
       DEF TypeOK, PcStates, failedVars, operatorVars
  <2>7. \A v \in Worker : SameRecord(v)
    BY <1>a, <2>5 DEF TypeOK, SameRecord, Working
  <2>8. Linked'
    BY <2>3, <2>4, <2>5, <2>7, InsertLinked DEF SameRetry, failedVars, operatorVars
  <2> QED
    BY <2>6, <2>8 DEF TypeInv
<1>13. ASSUME NEW w \in Worker, DeleteJob(w) PROVE TypeInv'
  <2>1. TypeOK'
    BY <1>a, <1>13 DEF DeleteJob, DeleteRow, NextIteration, TypeOK, PcStates, Goto, failedVars, operatorVars
  <2>2. Linked'
    BY <1>a, <1>13, LinkedFrame
       DEF SameRecord, SameRow, SameRetry, DeleteJob, DeleteRow, NextIteration, TypeInv, TypeOK, Working, Goto, failedVars, operatorVars
  <2> QED
    BY <2>1, <2>2 DEF TypeInv
<1>14. ASSUME NEW w \in Worker, RecordFailed(w) PROVE TypeInv'
  <2> DEFINE row == [queue |-> Serves[w], payload |-> record[w].payload]
  <2>1. row \in FailedRow
    BY <1>a, <1>14 DEF RecordFailed, Linked, RecordLinked, Working, Popped, FailedRow
  <2>2. failedJobs' = InsertRow(failedJobs, lastFailed + 1, row)
    BY <1>14 DEF RecordFailed
  <2> HIDE DEF row
  <2>3. /\ DOMAIN failedJobs' = DOMAIN failedJobs \cup {lastFailed + 1}
        /\ failedJobs' \in [DOMAIN failedJobs' -> FailedRow]
    BY <1>a, <2>1, <2>2 DEF InsertRow, TypeOK
  <2>4. TypeOK'
    BY <1>a, <1>14, <2>3 DEF RecordFailed, TypeOK, PcStates, Goto, operatorVars
  <2>5. Linked'
    BY <1>a, <1>14, LinkedFrame
       DEF SameRecord, SameRow, SameRetry, RecordFailed, TypeInv, TypeOK, Working, Goto, operatorVars
  <2> QED
    BY <2>4, <2>5 DEF TypeInv
<1>15. ASSUME NEW w \in Worker, Discard(w) PROVE TypeInv'
  <2>1. TypeOK'
    BY <1>a, <1>15 DEF Discard, DeleteRow, NextIteration, TypeOK, PcStates, Goto, failedVars, operatorVars
  <2>2. Linked'
    BY <1>a, <1>15, LinkedFrame
       DEF SameRecord, SameRow, SameRetry, Discard, DeleteRow, NextIteration, TypeInv, TypeOK, Working, Goto, failedVars, operatorVars
  <2> QED
    BY <2>1, <2>2 DEF TypeInv
<1>16. ASSUME NEW w \in Worker, ReleaseNothing(w) PROVE TypeInv'
  <2>1. TypeOK'
    BY <1>a, <1>16 DEF ReleaseNothing, NextIteration, TypeOK, PcStates, Goto, failedVars, operatorVars
  <2>2. Linked'
    BY <1>a, <1>16, LinkedFrame
       DEF SameRecord, SameRow, SameRetry, ReleaseNothing, NextIteration, TypeInv, TypeOK, Working, Goto, failedVars, operatorVars
  <2> QED
    BY <2>1, <2>2 DEF TypeInv
<1>17. ASSUME NEW w \in Worker, ReleaseRead(w) PROVE TypeInv'
  <2>1. TypeOK'
    BY <1>a, <1>17 DEF ReleaseRead, Row, TypeOK, PcStates, Goto, failedVars, operatorVars
  <2>2. Linked'
    BY <1>a, <1>17, LinkedFrame
       DEF SameRecord, SameRow, SameRetry, ReleaseRead, Row, TypeInv, TypeOK, Working, Goto, failedVars, operatorVars
  <2> QED
    BY <2>1, <2>2 DEF TypeInv
<1>18. ASSUME NEW w \in Worker, ReleaseWrite(w) PROVE TypeInv'
  <2> DEFINE i == record[w].id
             row == [jobs[i] EXCEPT !.reserved = FALSE, !.delayed = RetryAfter > 0,
                                    !.attempts = found[w] + 1]
  <2>1. i \in DOMAIN jobs => row \in Row /\ row.payload = jobs[i].payload
    <3>1. (RetryAfter > 0) \in BOOLEAN /\ found[w] + 1 \in Nat
      BY <1>a DEF TypeOK
    <3>2. i \in DOMAIN jobs => jobs[i] \in Row
      BY <1>a DEF TypeOK
    <3> QED
      BY <3>1, <3>2, ReleasedRow
  <2>2. jobs' = UpdateRow(jobs, i, row)
    BY <1>18 DEF ReleaseWrite
  <2> HIDE DEF i, row
  <2>3. /\ DOMAIN jobs' = DOMAIN jobs
        /\ jobs' \in [DOMAIN jobs' -> Row]
        /\ \A j \in DOMAIN jobs : jobs'[j].payload = jobs[j].payload
    BY <1>a, <2>1, <2>2, UpdateTypes
  <2>4. TypeOK'
    BY <1>a, <1>18, <2>3 DEF ReleaseWrite, NextIteration, TypeOK, PcStates, Goto, failedVars, operatorVars
  <2>5. Linked'
    BY <1>a, <1>18, <2>3, LinkedFrame
       DEF SameRecord, SameRow, SameRetry, ReleaseWrite, NextIteration, TypeInv, TypeOK, Working, Goto, failedVars, operatorVars
  <2> QED
    BY <2>4, <2>5 DEF TypeInv
<1>19. ASSUME NEW w \in Worker, Signal(w) PROVE TypeInv'
  <2>1. TypeOK'
    BY <1>a, <1>19 DEF Signal, TypeOK, PcStates, Goto, failedVars, operatorVars
  <2>2. Linked'
    BY <1>a, <1>19, LinkedFrame
       DEF SameRecord, SameRow, SameRetry, Signal, TypeInv, TypeOK, Working, Goto, failedVars, operatorVars
  <2> QED
    BY <2>1, <2>2 DEF TypeInv
<1>20. ASSUME NEW w \in Worker, Crash(w) PROVE TypeInv'
  <2>1. TypeOK'
    BY <1>a, <1>20 DEF Crash, Stop, TypeOK, PcStates, Goto, failedVars, operatorVars
  <2>2. Linked'
    BY <1>a, <1>20, LinkedFrame
       DEF SameRecord, SameRow, SameRetry, Crash, Stop, TypeInv, TypeOK, Working, Goto, failedVars, operatorVars
  <2> QED
    BY <2>1, <2>2 DEF TypeInv
<1>21. ASSUME NEW w \in Worker, PopFails(w) PROVE TypeInv'
  <2>1. TypeOK'
    BY <1>a, <1>21 DEF PopFails, TypeOK, PcStates, Goto, failedVars, operatorVars
  <2>2. Linked'
    BY <1>a, <1>21, LinkedFrame
       DEF SameRecord, SameRow, SameRetry, PopFails, TypeInv, TypeOK, Working, Goto, failedVars, operatorVars
  <2> QED
    BY <2>1, <2>2 DEF TypeInv
<1>22. ASSUME NEW w \in Worker, Fail(w) \/ FinishFails(w) PROVE TypeInv'
  BY <1>10, <1>22 DEF Fail, FinishFails, Working
<1>23. ASSUME NEW w \in Worker, CatchFails(w) PROVE TypeInv'
  <2>1. TypeOK'
    BY <1>a, <1>23 DEF CatchFails, Stop, TypeOK, PcStates, Goto, failedVars, operatorVars
  <2>2. Linked'
    BY <1>a, <1>23, LinkedFrame
       DEF SameRecord, SameRow, SameRetry, CatchFails, Stop, TypeInv, TypeOK, Working, Goto, failedVars, operatorVars
  <2> QED
    BY <2>1, <2>2 DEF TypeInv
<1>24. ASSUME NEW o \in Operator, RetryFind(o) PROVE TypeInv'
  <2>1. PICK k \in DOMAIN failedJobs :
            retrying' = [retrying EXCEPT ![o] =
                            [at |-> "push", id |-> k, row |-> failedJobs[k]]]
    BY <1>24 DEF RetryFind
  <2>2. k \in 1 .. lastFailed /\ k \in Nat /\ failedJobs[k] \in FailedRow
    BY <1>a DEF TypeOK
  <2>3. TypeOK'
    BY <1>a, <1>24, <2>1, <2>2 DEF RetryFind, TypeOK, Retrying, workerVars, failedVars
  <2>4. \A p \in Operator : SameRetry(p) \/ RetryLinked(p)'
    BY <1>a, <1>24, <2>1, <2>2
       DEF RetryFind, TypeOK, SameRetry, RetryLinked, failedVars
  <2>5. Linked'
    BY <1>a, <1>24, <2>4, LinkedFrame
       DEF RetryFind, TypeInv, TypeOK, SameRecord, SameRow, workerVars, failedVars
  <2> QED
    BY <2>3, <2>5 DEF TypeInv
<1>25. ASSUME NEW o \in Operator, RetryPush(o) PROVE TypeInv'
  <2> DEFINE row == retrying[o].row
  <2>1. row \in FailedRow
    BY <1>a, <1>25 DEF RetryPush, Linked, RetryLinked
  <2>2. row.payload \in Payload /\ row.queue \in Queue
    BY <2>1 DEF FailedRow
  <2>3. Insert(row.payload, row.queue, FALSE)
    BY <1>25 DEF RetryPush
  <2> HIDE DEF row
  <2>4. /\ retrying[o].at = "push"
        /\ retrying' = [retrying EXCEPT ![o].at = "delete"]
        /\ UNCHANGED <<retries, failedVars, workerVars>>
    BY <1>25 DEF RetryPush
  <2>5. TypeOK'
    BY <1>a, <2>2, <2>3, <2>4, InsertTypes
       DEF TypeOK, Retrying, workerVars, failedVars
  <2>6. /\ \A p \in Operator : SameRetry(p)
        /\ \A w \in Worker : SameRecord(w)
    BY <1>a, <2>4 DEF TypeOK, Retrying, SameRetry, SameRecord, workerVars
  <2>7. Linked'
    BY <2>2, <2>3, <2>4, <2>6, InsertLinked DEF failedVars
  <2> QED
    BY <2>5, <2>7 DEF TypeInv
<1>26. ASSUME NEW o \in Operator, RetryDelete(o) PROVE TypeInv'
  <2>1. TypeOK'
    BY <1>a, <1>26
       DEF RetryDelete, DeleteRow, TypeOK, Retrying, NotRetrying, workerVars
  <2>2. Linked'
    BY <1>a, <1>26, LinkedFrame
       DEF RetryDelete, NotRetrying, TypeInv, TypeOK, SameRecord, SameRow,
           SameRetry, workerVars
  <2> QED
    BY <2>1, <2>2 DEF TypeInv
<1>27. ASSUME NEW o \in Operator, RetryFails(o) PROVE TypeInv'
  <2>1. TypeOK'
    BY <1>a, <1>27 DEF RetryFails, TypeOK, Retrying, NotRetrying, workerVars, failedVars
  <2>2. Linked'
    BY <1>a, <1>27, LinkedFrame
       DEF RetryFails, NotRetrying, TypeInv, TypeOK, SameRecord, SameRow,
           SameRetry, workerVars, failedVars
  <2> QED
    BY <2>1, <2>2 DEF TypeInv
<1>28. ASSUME NEW k \in DOMAIN failedJobs, Forget(k) PROVE TypeInv'
  <2>1. failedJobs[k].payload \in Payload
    BY <1>a DEF TypeOK, FailedRow
  <2>2. TypeOK'
    BY <1>a, <1>28, <2>1 DEF Forget, DeleteRow, TypeOK, workerVars, operatorVars
  <2>3. Linked'
    BY <1>a, <1>28, LinkedFrame
       DEF Forget, TypeInv, TypeOK, SameRecord, SameRow, SameRetry, workerVars,
           operatorVars
  <2> QED
    BY <2>2, <2>3 DEF TypeInv
<1>29. CASE UNCHANGED vars
  <2>1. TypeOK'
    BY <1>a, <1>29 DEF TypeOK, vars
  <2>2. Linked'
    BY <1>a, <1>29, LinkedFrame
       DEF TypeInv, TypeOK, SameRecord, SameRow, SameRetry, vars
  <2> QED
    BY <2>1, <2>2 DEF TypeInv
<1> QED
  BY <1>1, <1>2, <1>3, <1>4, <1>5, <1>6, <1>7, <1>8, <1>9, <1>11, <1>12, <1>13,
     <1>14, <1>15, <1>16, <1>17, <1>18, <1>19, <1>20, <1>21, <1>22, <1>23, <1>24, <1>25,
     <1>26, <1>27, <1>28, <1>29
     DEF Next, Produce, WorkerStep, Fault, OperatorStep

\* Every variable keeps its type, every record and row its payload, with any
\* number of workers and operators and under every combination of faults.
THEOREM TypeCorrect == Spec => []TypeOK
<1>1. Init => TypeInv
  BY TypeInvInit
<1>2. TypeInv /\ [Next]_vars => TypeInv'
  BY TypeInvStep
<1>3. TypeInv => TypeOK
  BY DEF TypeInv
<1> QED
  BY <1>1, <1>2, <1>3, PTL DEF Spec
-----------------------------------------------------------------------------
(***************************************************************************)
(* Without crashes and failing statements a reserved row has a worker.     *)
(***************************************************************************)
Held == \A i \in DOMAIN jobs : jobs[i].reserved => \E w \in Worker : Holds(w, i)

\* What a step must not disturb: a row that is reserved was so before or has
\* a holder now, and who held it still does.
RowHeld(i) == \/ i \in DOMAIN jobs /\ jobs[i].reserved
              \/ \E w \in Worker : Holds(w, i)'

StillHeld(w, i) == Holds(w, i) => Holds(w, i)'

LEMMA HeldFrame ==
    ASSUME Held,
           \A i \in DOMAIN jobs' : jobs'[i].reserved =>
               RowHeld(i) /\ \A w \in Worker : StillHeld(w, i)
    PROVE  Held'
<1> SUFFICES ASSUME NEW i \in DOMAIN jobs', jobs'[i].reserved
             PROVE  \E w \in Worker : Holds(w, i)'
  BY DEF Held
<1>1. CASE i \in DOMAIN jobs /\ jobs[i].reserved
  <2>1. PICK w \in Worker : Holds(w, i)
    BY <1>1 DEF Held
  <2> QED
    BY <2>1 DEF StillHeld
<1> QED
  BY <1>1 DEF RowHeld

LEMMA HeldInsert ==
    ASSUME TypeInv, Held, NEW payload \in Payload, NEW queue \in Queue,
           NEW delayed \in BOOLEAN, Insert(payload, queue, delayed),
           \A w \in Worker : \A i \in DOMAIN jobs : StillHeld(w, i)
    PROVE  Held'
<1>1. TypeOK
  BY DEF TypeInv
<1>2. /\ DOMAIN jobs' = DOMAIN jobs \cup {Len(ledger) + 1}
      /\ \A i \in DOMAIN jobs : jobs'[i] = jobs[i]
      /\ jobs'[Len(ledger) + 1] = NewRow(payload, queue, delayed)
  BY <1>1, InsertTypes
<1>3. jobs'[Len(ledger) + 1].reserved = FALSE
  BY <1>2 DEF NewRow
<1>4. ASSUME NEW i \in DOMAIN jobs', jobs'[i].reserved
      PROVE  RowHeld(i) /\ \A w \in Worker : StillHeld(w, i)
  <2>1. i \in DOMAIN jobs
    BY <1>2, <1>3, <1>4
  <2> QED
    BY <1>2, <1>4, <2>1 DEF RowHeld
<1> QED
  BY <1>4, HeldFrame

LEMMA HeldStep ==
    ASSUME TypeInv, Held, Faults \cap {"crash", "database"} = {}, [Next]_vars
    PROVE  Held'
<1>a. TypeOK /\ Linked
  BY DEF TypeInv
<1>1. ASSUME NEW p \in Dispatches, NEW q \in Queue,
             Dispatch(p, q) \/ DispatchLater(p, q)
      PROVE  Held'
  <2>1. PICK delayed \in BOOLEAN : Insert(p, q, delayed)
    BY <1>1 DEF Dispatch, DispatchLater
  <2>2. UNCHANGED workerVars
    BY <1>1 DEF Dispatch, DispatchLater
  <2>3. p \in Payload
    BY PayloadAssumption
  <2> QED
    BY <2>1, <2>2, <2>3, HeldInsert DEF StillHeld, Holds, workerVars
<1>2. ASSUME NEW i \in DOMAIN jobs, Elapse(i) PROVE Held'
  BY <1>a, <1>2, HeldFrame
     DEF Elapse, TypeOK, Row, workerVars, RowHeld, StillHeld, Holds
<1>3. ASSUME NEW w \in Worker, Start(w) PROVE Held'
  BY <1>a, <1>3, HeldFrame
     DEF Start, Goto, failedVars, operatorVars, TypeOK, Holds, Working, StillHeld, RowHeld
<1>4. ASSUME NEW w \in Worker, Exit(w) PROVE Held'
  BY <1>a, <1>4, HeldFrame
     DEF Exit, Stop, Goto, failedVars, operatorVars, TypeOK, Holds, Working, StillHeld, RowHeld
<1>5. ASSUME NEW w \in Worker, Select(w) PROVE Held'
  BY <1>a, <1>5, HeldFrame
     DEF Select, Goto, failedVars, operatorVars, TypeOK, Holds, Working, StillHeld, RowHeld
<1>6. ASSUME NEW w \in Worker, SelectNothing(w) PROVE Held'
  BY <1>a, <1>6, HeldFrame
     DEF SelectNothing, Goto, failedVars, operatorVars, TypeOK, Holds, Working, StillHeld, RowHeld
<1>7. ASSUME NEW w \in Worker, Wake(w) PROVE Held'
  BY <1>a, <1>7, HeldFrame
     DEF Wake, Goto, failedVars, operatorVars, TypeOK, Holds, Working, StillHeld, RowHeld
<1>8. ASSUME NEW w \in Worker, Succeed(w) PROVE Held'
  BY <1>a, <1>8, HeldFrame
     DEF Succeed, Goto, failedVars, operatorVars, TypeOK, Holds, Working, StillHeld, RowHeld
<1>9. ASSUME NEW w \in Worker, RecordFailed(w) PROVE Held'
  BY <1>a, <1>9, HeldFrame
     DEF RecordFailed, Goto, failedVars, operatorVars, TypeOK, Holds, Working, StillHeld, RowHeld
<1>10. ASSUME NEW w \in Worker, ReleaseRead(w) PROVE Held'
  BY <1>a, <1>10, HeldFrame
     DEF ReleaseRead, Goto, failedVars, operatorVars, TypeOK, Holds, Working, StillHeld, RowHeld
<1>11. ASSUME NEW w \in Worker, Signal(w) PROVE Held'
  BY <1>a, <1>11, HeldFrame
     DEF Signal, Goto, failedVars, operatorVars, TypeOK, Holds, Working, StillHeld, RowHeld
<1>12. ASSUME NEW w \in Worker, DeleteJob(w) PROVE Held'
  BY <1>a, <1>12, HeldFrame
     DEF DeleteJob, NextIteration, DeleteRow, Goto, failedVars, operatorVars, TypeOK, Holds, Working, StillHeld, RowHeld
<1>13. ASSUME NEW w \in Worker, Discard(w) PROVE Held'
  BY <1>a, <1>13, HeldFrame
     DEF Discard, NextIteration, DeleteRow, Goto, failedVars, operatorVars, TypeOK, Holds, Working, StillHeld, RowHeld
<1>14. ASSUME NEW w \in Worker, ReleaseNothing(w) PROVE Held'
  BY <1>a, <1>14, HeldFrame
     DEF ReleaseNothing, NextIteration, Goto, failedVars, operatorVars, TypeOK, Holds, Working, StillHeld, RowHeld
<1>15. ASSUME NEW w \in Worker, Reserve(w) PROVE Held'
  BY <1>a, <1>15, HeldFrame
     DEF Reserve, UpdateRow, Row, Goto, failedVars, operatorVars, TypeOK, Holds, Working, StillHeld, RowHeld
<1>16. ASSUME NEW w \in Worker, ReleaseWrite(w) PROVE Held'
  BY <1>a, <1>16, HeldFrame
     DEF ReleaseWrite, UpdateRow, NextIteration, Row, Goto, failedVars, operatorVars, TypeOK, Holds, Working, StillHeld, RowHeld
<1>17. ASSUME NEW w \in Worker, pc[w] \in Working, NEW e, Caught(w, e) PROVE Held'
  <2>1. PICK at \in {"release", "record", "discard"} : pc' = [pc EXCEPT ![w] = at]
    BY <1>17 DEF Caught, CatchError, Goto
  <2>2. UNCHANGED <<record, jobs>>
    BY <1>17 DEF Caught
  <2> QED
    BY <1>a, <1>17, <2>1, <2>2, HeldFrame DEF TypeOK, Holds, Working, StillHeld, RowHeld
<1>18. ASSUME NEW w \in Worker, Fail(w) \/ HookFails(w) PROVE Held'
  BY <1>17, <1>18 DEF Fail, HookFails, Working
<1>19. ASSUME NEW w \in Worker, PushNext(w) PROVE Held'
  <2>1. record[w].payload \in Payload /\ Len(record[w].payload) > 1
    BY <1>a, <1>19
       DEF PushNext, Linked, RecordLinked, Working, Chained, Popped
  <2>2. Tail(record[w].payload) \in Payload
    BY <2>1, RestOfChain
  <2>3. Serves[w] \in Queue
    BY WorkerAssumption
  <2>4. /\ Insert(Tail(record[w].payload), Serves[w], FALSE)
        /\ UNCHANGED record
        /\ pc[w] = "chain" /\ pc' = [pc EXCEPT ![w] = "delete"]
    BY <1>19 DEF PushNext, Goto
  <2>5. \A v \in Worker : \A i \in DOMAIN jobs : StillHeld(v, i)
    BY <1>a, <2>4 DEF TypeOK, StillHeld, Holds, Working
  <2> QED
    BY <2>2, <2>3, <2>4, <2>5, HeldInsert
<1>20. ASSUME NEW o \in Operator, RetryPush(o) PROVE Held'
  <2>1. /\ retrying[o].row.payload \in Payload
        /\ retrying[o].row.queue \in Queue
    BY <1>a, <1>20 DEF RetryPush, Linked, RetryLinked, FailedRow
  <2>2. /\ Insert(retrying[o].row.payload, retrying[o].row.queue, FALSE)
        /\ UNCHANGED workerVars
    BY <1>20 DEF RetryPush
  <2> QED
    BY <2>1, <2>2, HeldInsert DEF StillHeld, Holds, workerVars
<1>21. ASSUME NEW o \in Operator, RetryFind(o) \/ RetryDelete(o) \/ RetryFails(o)
       PROVE  Held'
  BY <1>21 DEF RetryFind, RetryDelete, RetryFails, workerVars, Held, Holds
<1>22. ASSUME NEW k \in DOMAIN failedJobs, Forget(k) PROVE Held'
  BY <1>22 DEF Forget, workerVars, Held, Holds
<1>23. CASE UNCHANGED vars
  BY <1>23 DEF vars, Held, Holds
<1>24. ASSUME NEW w \in Worker, Crash(w) \/ PopFails(w) \/ FinishFails(w) \/ CatchFails(w)
       PROVE  FALSE
  BY <1>24 DEF Crash, PopFails, FinishFails, CatchFails
<1> QED
  BY <1>1, <1>2, <1>3, <1>4, <1>5, <1>6, <1>7, <1>8, <1>9, <1>10, <1>11, <1>12,
     <1>13, <1>14, <1>15, <1>16, <1>18, <1>19, <1>20, <1>21, <1>22, <1>23, <1>24
     DEF Next, Produce, WorkerStep, Fault, OperatorStep

\* However many workers hold a row, and whenever SIGTERM reaches them, a
\* reserved row always has a worker that will still delete or release it.
THEOREM ReservedRowsHeld == Spec => []ReservedRowsAreHeld
<1> DEFINE HInv == Faults \cap {"crash", "database"} = {} => Held
<1>1. Init => HInv
  BY DEF Init, EmptyTable, Held
<1>2. TypeInv /\ HInv /\ [Next]_vars => HInv'
  BY HeldStep
<1>3. HInv => ReservedRowsAreHeld
  BY DEF ReservedRowsAreHeld, Held
<1>4. Init => TypeInv
  BY TypeInvInit
<1>5. TypeInv /\ [Next]_vars => TypeInv'
  BY TypeInvStep
<1> QED
  BY <1>1, <1>2, <1>3, <1>4, <1>5, PTL DEF Spec
-----------------------------------------------------------------------------
(***************************************************************************)
(* A job is given up only after MaxAttempts runs of its row failed.        *)
(***************************************************************************)
LEMMA ReleasingFinite ==
    ASSUME NEW i
    PROVE  /\ IsFiniteSet(Releasing(i)) /\ Cardinality(Releasing(i)) \in Nat
           /\ IsFiniteSet(Releasing(i)') /\ Cardinality(Releasing(i)') \in Nat
<1>1. Releasing(i) \subseteq Worker /\ Releasing(i)' \subseteq Worker
  BY DEF Releasing
<1> QED
  BY <1>1, WorkerAssumption, FS_Subset, FS_CardinalityType

LEMMA FailuresType ==
    /\ TypeOK => \A i \in DOMAIN ledger : ledger[i].failures \in Nat
    /\ TypeOK' => \A i \in DOMAIN ledger' : ledger'[i].failures \in Nat
<1>1. ASSUME NEW l \in Seq(Entry), NEW i \in DOMAIN l PROVE l[i].failures \in Nat
  <2>1. l[i] \in Entry
    BY <1>1, ElementOfSeq, LenProperties
  <2> QED
    BY <2>1 DEF Entry
<1> QED
  BY <1>1 DEF TypeOK

\* Nobody joins the workers that must release i, or a failed run pays for it.
NoNewDebt(i) ==
    /\ i \in DOMAIN ledger'
    /\ Cardinality(Releasing(i)') + ledger[i].failures
         <= Cardinality(Releasing(i)) + ledger'[i].failures

LEMMA FewerReleasing ==
    ASSUME TypeOK, NEW i \in DOMAIN ledger, i \in DOMAIN ledger',
           Releasing(i)' \subseteq Releasing(i),
           ledger'[i].failures = ledger[i].failures
    PROVE  NoNewDebt(i)
<1>1. Cardinality(Releasing(i)') <= Cardinality(Releasing(i))
  BY ReleasingFinite, FS_Subset
<1>2. ledger[i].failures \in Nat
  BY FailuresType
<1> QED
  BY <1>1, <1>2, ReleasingFinite DEF NoNewDebt

LEMMA EarnedStays ==
    ASSUME TypeOK, TypeOK', NEW i \in DOMAIN ledger, NoNewDebt(i), NEW n \in Nat,
           Earned(i, n)
    PROVE  Earned(i, n)'
<1>1. ledger[i].failures \in Nat /\ ledger'[i].failures \in Nat
  BY FailuresType DEF NoNewDebt
<1> QED
  BY <1>1, ReleasingFinite DEF Earned, NoNewDebt

SameAttempts(i) == i \in DOMAIN jobs /\ jobs'[i].attempts = jobs[i].attempts

SamePopped(w) ==
    pc'[w] \in Working \cup {"reserve"} =>
        pc[w] \in Working \cup {"reserve"} /\ record'[w] = record[w]

SameFound(w) ==
    pc'[w] = "rewrite" =>
        pc[w] = "rewrite" /\ record'[w] = record[w] /\ found'[w] = found[w]

LEMMA EarnedFrame ==
    ASSUME TypeInv, TypeInv', AttemptsEarned,
           \A i \in DOMAIN ledger : NoNewDebt(i),
           \A i \in DOMAIN jobs' : SameAttempts(i) \/ Earned(i, jobs[i].attempts)',
           \A w \in Worker : \/ SamePopped(w)
                            \/ Earned(record[w].id, record[w].attempts)',
           \A w \in Worker : SameFound(w) \/ Earned(record[w].id, found[w])'
    PROVE  AttemptsEarned'
<1>a. TypeOK /\ TypeOK' /\ Linked
  BY DEF TypeInv
<1>1. ASSUME NEW i \in DOMAIN jobs' PROVE Earned(i, jobs[i].attempts)'
  <2>1. CASE SameAttempts(i)
    <3>1. /\ i \in DOMAIN ledger
          /\ jobs[i].attempts \in Nat
          /\ Earned(i, jobs[i].attempts)
      BY <1>a, <2>1 DEF SameAttempts, TypeOK, Row, AttemptsEarned
    <3>2. Earned(i, jobs[i].attempts)'
      BY <1>a, <2>1, <3>1, EarnedStays DEF SameAttempts, Earned
    <3> QED
      BY <3>2
  <2> QED
    BY <1>1, <2>1
<1>2. ASSUME NEW w \in Worker, pc'[w] \in Working \cup {"reserve"}
      PROVE  Earned(record[w].id, record[w].attempts)'
  <2>1. CASE SamePopped(w)
    <3>1. /\ record[w].id \in DOMAIN ledger
          /\ record[w].attempts \in Nat
          /\ Earned(record[w].id, record[w].attempts)
          /\ record'[w] = record[w]
      BY <1>a, <1>2, <2>1
         DEF SamePopped, Linked, RecordLinked, Popped, AttemptsEarned
    <3>2. Earned(record[w].id, record[w].attempts)'
      BY <1>a, <3>1, EarnedStays DEF Earned
    <3> QED
      BY <3>2
  <2> QED
    BY <2>1
<1>3. ASSUME NEW w \in Worker, pc'[w] = "rewrite"
      PROVE  Earned(record[w].id, found[w])'
  <2>1. CASE SameFound(w)
    <3>1. /\ record[w].id \in DOMAIN ledger
          /\ found[w] \in Nat
          /\ Earned(record[w].id, found[w])
          /\ record'[w] = record[w] /\ found'[w] = found[w]
      BY <1>a, <1>3, <2>1
         DEF SameFound, Working, TypeOK, Linked, RecordLinked, AttemptsEarned
    <3>2. Earned(record[w].id, found[w])'
      BY <1>a, <3>1, EarnedStays DEF Earned
    <3> QED
      BY <3>2
  <2> QED
    BY <2>1
<1> QED
  BY <1>1, <1>2, <1>3 DEF AttemptsEarned

LEMMA EarnedInsert ==
    ASSUME TypeInv, TypeInv', AttemptsEarned,
           NEW payload \in Payload, NEW queue \in Queue,
           NEW delayed \in BOOLEAN, Insert(payload, queue, delayed),
           \A w \in Worker : SamePopped(w) /\ SameFound(w),
           \A w \in Worker : pc'[w] \in {"release", "rewrite"} => pc'[w] = pc[w]
    PROVE  AttemptsEarned'
<1>a. TypeOK /\ TypeOK' /\ Linked /\ Linked'
  BY DEF TypeInv
<1>0. PICK new : new = Len(ledger) + 1
  OBVIOUS
<1>1. /\ new \notin DOMAIN ledger
      /\ \A i \in DOMAIN ledger : i \in DOMAIN ledger' /\ ledger'[i] = ledger[i]
      /\ DOMAIN jobs' = DOMAIN jobs \cup {new}
      /\ \A i \in DOMAIN jobs : jobs'[i] = jobs[i]
      /\ jobs'[new] = NewRow(payload, queue, delayed)
      /\ ledger'[new] = NewEntry(payload)
  <2>1. DOMAIN ledger = 1 .. Len(ledger) /\ Len(ledger) \in Nat
    BY <1>a, LenProperties DEF TypeOK
  <2>2. new \notin DOMAIN ledger
    BY <1>0, <2>1
  <2>3. /\ \A i \in DOMAIN ledger : i \in DOMAIN ledger' /\ ledger'[i] = ledger[i]
        /\ DOMAIN jobs' = DOMAIN jobs \cup {Len(ledger) + 1}
        /\ \A i \in DOMAIN jobs : jobs'[i] = jobs[i]
        /\ jobs'[Len(ledger) + 1] = NewRow(payload, queue, delayed)
        /\ ledger'[Len(ledger) + 1] = NewEntry(payload)
    BY <1>a, InsertTypes
  <2> QED
    BY <1>0, <2>2, <2>3
<1>2. jobs'[new].attempts = 0 /\ ledger'[new].failures = 0
  BY <1>1 DEF NewRow, NewEntry
<1>3. ASSUME NEW i PROVE Releasing(i)' \subseteq Releasing(i)
  BY DEF Releasing, SamePopped, Working
<1>4. \A i \in DOMAIN ledger : NoNewDebt(i)
  BY <1>a, <1>1, <1>3, FewerReleasing
<1>5. Releasing(new) = {}
  BY <1>a, <1>1 DEF Releasing, Linked, RecordLinked, Working
<1>6. Earned(new, jobs[new].attempts)'
  <2>1. Releasing(new)' = {}
    BY <1>3, <1>5
  <2> QED
    BY <1>2, <2>1, FS_EmptySet DEF Earned
<1>7. \A i \in DOMAIN jobs' : SameAttempts(i) \/ Earned(i, jobs[i].attempts)'
  BY <1>1, <1>6 DEF SameAttempts
<1> QED
  BY <1>4, <1>7, EarnedFrame

\* A failed run that joins the workers to release the row is counted.
LEMMA CaughtEarned ==
    ASSUME TypeInv, TypeInv', AttemptsEarned, NEW w \in Worker,
           pc[w] \in {"run", "chain", "delete"}, record[w].id \in DOMAIN ledger,
           NEW entry \in Entry, entry.failures = ledger[record[w].id].failures,
           Caught(w, entry)
    PROVE  AttemptsEarned'
<1>a. TypeOK /\ TypeOK' /\ Linked /\ Linked'
  BY DEF TypeInv
<1>0. PICK r \in DOMAIN ledger : r = record[w].id
  OBVIOUS
<1>1. PICK at \in {"release", "record", "discard"} : pc' = [pc EXCEPT ![w] = at]
  BY DEF Caught, CatchError, Goto
<1>2. UNCHANGED <<record, found, jobs>>
  BY DEF Caught
<1>3. /\ DOMAIN ledger' = DOMAIN ledger
      /\ \A j \in DOMAIN ledger : j # r => ledger'[j] = ledger[j]
      /\ ledger'[r].failures = ledger[r].failures + 1
  <2> DEFINE e == FailedEntry(entry, GivesUp(w))
  <2>1. e \in Entry /\ e.failures = ledger[r].failures + 1
    BY <1>0, CaughtEntry
  <2>2. ledger' = [ledger EXCEPT ![r] = e]
    BY <1>0 DEF Caught
  <2> HIDE DEF e
  <2> QED
    BY <1>a, <2>1, <2>2, MarkTypes
<1>4. ASSUME NEW j \in DOMAIN ledger, j # r PROVE NoNewDebt(j)
  <2>1. Releasing(j)' \subseteq Releasing(j)
    BY <1>0, <1>1, <1>2, <1>4, <1>a DEF Releasing, TypeOK
  <2> QED
    BY <1>3, <1>4, <1>a, <2>1, FewerReleasing
<1>5. NoNewDebt(r)
  <2>1. Releasing(r)' \subseteq Releasing(r) \cup {w}
    BY <1>0, <1>1, <1>2, <1>a DEF Releasing, TypeOK
  <2>2. /\ IsFiniteSet(Releasing(r) \cup {w})
        /\ Cardinality(Releasing(r) \cup {w}) <= Cardinality(Releasing(r)) + 1
    <3>1. /\ IsFiniteSet(Releasing(r)) /\ Cardinality(Releasing(r)) \in Nat
          /\ Cardinality(Releasing(r) \cup {w}) =
               IF w \in Releasing(r) THEN Cardinality(Releasing(r))
               ELSE Cardinality(Releasing(r)) + 1
          /\ IsFiniteSet(Releasing(r) \cup {w})
      BY ReleasingFinite, FS_AddElement
    <3> QED
      BY <3>1
  <2>3. Cardinality(Releasing(r)') <= Cardinality(Releasing(r) \cup {w})
    BY <2>1, <2>2, FS_Subset
  <2>4. Cardinality(Releasing(r) \cup {w}) \in Nat /\ ledger[r].failures \in Nat
    BY <1>a, <2>2, FS_CardinalityType, FailuresType
  <2> QED
    BY <1>3, <2>2, <2>3, <2>4, ReleasingFinite DEF NoNewDebt
<1>6. \A j \in DOMAIN ledger : NoNewDebt(j)
  BY <1>4, <1>5
<1>7. \A j \in DOMAIN jobs' : SameAttempts(j)
  BY <1>2 DEF SameAttempts
<1>8. \A v \in Worker : SamePopped(v) /\ SameFound(v)
  BY <1>a, <1>1, <1>2 DEF TypeOK, SamePopped, SameFound, Working
<1> QED
  BY <1>6, <1>7, <1>8, EarnedFrame

LEMMA EarnedStep == TypeInv /\ TypeInv' /\ AttemptsEarned /\ [Next]_vars => AttemptsEarned'
<1> SUFFICES ASSUME TypeInv, TypeInv', AttemptsEarned, [Next]_vars PROVE AttemptsEarned'
  OBVIOUS
<1>a. TypeOK /\ TypeOK' /\ Linked /\ Linked'
  BY DEF TypeInv
\* Steps that leave the ledger alone and add nobody to the releasing workers.
<1>b. ASSUME UNCHANGED ledger,
             \A w \in Worker : pc'[w] \in {"release", "rewrite"} =>
                 /\ pc[w] \in {"release", "rewrite"}
                 /\ record'[w] = record[w]
      PROVE  \A i \in DOMAIN ledger : NoNewDebt(i)
  <2>1. ASSUME NEW i \in DOMAIN ledger PROVE NoNewDebt(i)
    <3>1. Releasing(i)' \subseteq Releasing(i)
      BY <1>b DEF Releasing
    <3> QED
      BY <1>a, <1>b, <3>1, FewerReleasing
  <2> QED
    BY <2>1
<1>1. ASSUME NEW p \in Dispatches, NEW q \in Queue,
             Dispatch(p, q) \/ DispatchLater(p, q)
      PROVE  AttemptsEarned'
  <2>1. PICK delayed \in BOOLEAN : Insert(p, q, delayed)
    BY <1>1 DEF Dispatch, DispatchLater
  <2>2. UNCHANGED workerVars
    BY <1>1 DEF Dispatch, DispatchLater
  <2>3. p \in Payload
    BY PayloadAssumption
  <2> QED
    BY <2>1, <2>2, <2>3, EarnedInsert DEF SamePopped, SameFound, workerVars
<1>2. ASSUME NEW i \in DOMAIN jobs, Elapse(i) PROVE AttemptsEarned'
  <2>1. \A j \in DOMAIN ledger : NoNewDebt(j)
    BY <1>2, <1>b DEF Elapse, workerVars
  <2>2. \A j \in DOMAIN jobs' : SameAttempts(j)
    BY <1>a, <1>2 DEF Elapse, TypeOK, Row, SameAttempts
  <2> QED
    BY <1>2, <2>1, <2>2, EarnedFrame DEF Elapse, workerVars, SamePopped, SameFound
<1>3. ASSUME NEW w \in Worker, Start(w) PROVE AttemptsEarned'
  <2>1. \A i \in DOMAIN ledger : NoNewDebt(i)
    BY <1>a, <1>3, <1>b DEF Start, Goto, TypeOK
  <2>2. \A i \in DOMAIN jobs' : SameAttempts(i)
    BY <1>a, <1>3 DEF Start, TypeOK, SameAttempts
  <2>3. \A v \in Worker : SamePopped(v) /\ SameFound(v)
    BY <1>a, <1>3 DEF Start, Goto, TypeOK, Working, SamePopped, SameFound
  <2> QED
    BY <2>1, <2>2, <2>3, EarnedFrame
<1>4. ASSUME NEW w \in Worker, Exit(w) PROVE AttemptsEarned'
  <2>1. \A i \in DOMAIN ledger : NoNewDebt(i)
    BY <1>a, <1>4, <1>b DEF Exit, Stop, Goto, TypeOK
  <2>2. \A i \in DOMAIN jobs' : SameAttempts(i)
    BY <1>a, <1>4 DEF Exit, Stop, TypeOK, SameAttempts
  <2>3. \A v \in Worker : SamePopped(v) /\ SameFound(v)
    BY <1>a, <1>4 DEF Exit, Stop, Goto, TypeOK, Working, SamePopped, SameFound
  <2> QED
    BY <2>1, <2>2, <2>3, EarnedFrame
<1>5. ASSUME NEW w \in Worker, SelectNothing(w) PROVE AttemptsEarned'
  <2>1. \A i \in DOMAIN ledger : NoNewDebt(i)
    BY <1>a, <1>5, <1>b DEF SelectNothing, Goto, TypeOK
  <2>2. \A i \in DOMAIN jobs' : SameAttempts(i)
    BY <1>a, <1>5 DEF SelectNothing, TypeOK, SameAttempts
  <2>3. \A v \in Worker : SamePopped(v) /\ SameFound(v)
    BY <1>a, <1>5 DEF SelectNothing, Goto, TypeOK, Working, SamePopped, SameFound
  <2> QED
    BY <2>1, <2>2, <2>3, EarnedFrame
<1>6. ASSUME NEW w \in Worker, Wake(w) PROVE AttemptsEarned'
  <2>1. \A i \in DOMAIN ledger : NoNewDebt(i)
    BY <1>a, <1>6, <1>b DEF Wake, Goto, TypeOK
  <2>2. \A i \in DOMAIN jobs' : SameAttempts(i)
    BY <1>a, <1>6 DEF Wake, TypeOK, SameAttempts
  <2>3. \A v \in Worker : SamePopped(v) /\ SameFound(v)
    BY <1>a, <1>6 DEF Wake, Goto, TypeOK, Working, SamePopped, SameFound
  <2> QED
    BY <2>1, <2>2, <2>3, EarnedFrame
<1>7. ASSUME NEW w \in Worker, RecordFailed(w) PROVE AttemptsEarned'
  <2>1. \A i \in DOMAIN ledger : NoNewDebt(i)
    BY <1>a, <1>7, <1>b DEF RecordFailed, Goto, TypeOK
  <2>2. \A i \in DOMAIN jobs' : SameAttempts(i)
    BY <1>a, <1>7 DEF RecordFailed, TypeOK, SameAttempts
  <2>3. \A v \in Worker : SamePopped(v) /\ SameFound(v)
    BY <1>a, <1>7 DEF RecordFailed, Goto, TypeOK, Working, SamePopped, SameFound
  <2> QED
    BY <2>1, <2>2, <2>3, EarnedFrame
<1>8. ASSUME NEW w \in Worker, Signal(w) PROVE AttemptsEarned'
  <2>1. \A i \in DOMAIN ledger : NoNewDebt(i)
    BY <1>a, <1>8, <1>b DEF Signal, Goto, TypeOK
  <2>2. \A i \in DOMAIN jobs' : SameAttempts(i)
    BY <1>a, <1>8 DEF Signal, TypeOK, SameAttempts
  <2>3. \A v \in Worker : SamePopped(v) /\ SameFound(v)
    BY <1>a, <1>8 DEF Signal, Goto, TypeOK, Working, SamePopped, SameFound
  <2> QED
    BY <2>1, <2>2, <2>3, EarnedFrame
<1>9. ASSUME NEW w \in Worker, Crash(w) PROVE AttemptsEarned'
  <2>1. \A i \in DOMAIN ledger : NoNewDebt(i)
    BY <1>a, <1>9, <1>b DEF Crash, Stop, Goto, TypeOK
  <2>2. \A i \in DOMAIN jobs' : SameAttempts(i)
    BY <1>a, <1>9 DEF Crash, Stop, TypeOK, SameAttempts
  <2>3. \A v \in Worker : SamePopped(v) /\ SameFound(v)
    BY <1>a, <1>9 DEF Crash, Stop, Goto, TypeOK, Working, SamePopped, SameFound
  <2> QED
    BY <2>1, <2>2, <2>3, EarnedFrame
<1>10. ASSUME NEW w \in Worker, PopFails(w) PROVE AttemptsEarned'
  <2>1. \A i \in DOMAIN ledger : NoNewDebt(i)
    BY <1>a, <1>10, <1>b DEF PopFails, Goto, TypeOK
  <2>2. \A i \in DOMAIN jobs' : SameAttempts(i)
    BY <1>a, <1>10 DEF PopFails, TypeOK, SameAttempts
  <2>3. \A v \in Worker : SamePopped(v) /\ SameFound(v)
    BY <1>a, <1>10 DEF PopFails, Goto, TypeOK, Working, SamePopped, SameFound
  <2> QED
    BY <2>1, <2>2, <2>3, EarnedFrame
<1>11. ASSUME NEW w \in Worker, CatchFails(w) PROVE AttemptsEarned'
  <2>1. \A i \in DOMAIN ledger : NoNewDebt(i)
    BY <1>a, <1>11, <1>b DEF CatchFails, Stop, Goto, TypeOK
  <2>2. \A i \in DOMAIN jobs' : SameAttempts(i)
    BY <1>a, <1>11 DEF CatchFails, Stop, TypeOK, SameAttempts
  <2>3. \A v \in Worker : SamePopped(v) /\ SameFound(v)
    BY <1>a, <1>11 DEF CatchFails, Stop, Goto, TypeOK, Working, SamePopped, SameFound
  <2> QED
    BY <2>1, <2>2, <2>3, EarnedFrame
<1>12. ASSUME NEW w \in Worker, ReleaseNothing(w) PROVE AttemptsEarned'
  <2>1. \A i \in DOMAIN ledger : NoNewDebt(i)
    BY <1>a, <1>12, <1>b DEF ReleaseNothing, NextIteration, Goto, TypeOK
  <2>2. \A i \in DOMAIN jobs' : SameAttempts(i)
    BY <1>a, <1>12 DEF ReleaseNothing, NextIteration, TypeOK, SameAttempts
  <2>3. \A v \in Worker : SamePopped(v) /\ SameFound(v)
    BY <1>a, <1>12 DEF ReleaseNothing, NextIteration, Goto, TypeOK, Working, SamePopped, SameFound
  <2> QED
    BY <2>1, <2>2, <2>3, EarnedFrame
<1>13. ASSUME NEW w \in Worker, DeleteJob(w) PROVE AttemptsEarned'
  <2>1. \A i \in DOMAIN ledger : NoNewDebt(i)
    BY <1>a, <1>13, <1>b DEF DeleteJob, DeleteRow, NextIteration, Goto, TypeOK
  <2>2. \A i \in DOMAIN jobs' : SameAttempts(i)
    BY <1>a, <1>13 DEF DeleteJob, DeleteRow, NextIteration, TypeOK, SameAttempts
  <2>3. \A v \in Worker : SamePopped(v) /\ SameFound(v)
    BY <1>a, <1>13 DEF DeleteJob, DeleteRow, NextIteration, Goto, TypeOK, Working, SamePopped, SameFound
  <2> QED
    BY <2>1, <2>2, <2>3, EarnedFrame
<1>14. ASSUME NEW w \in Worker, Discard(w) PROVE AttemptsEarned'
  <2>1. \A i \in DOMAIN ledger : NoNewDebt(i)
    BY <1>a, <1>14, <1>b DEF Discard, DeleteRow, NextIteration, Goto, TypeOK
  <2>2. \A i \in DOMAIN jobs' : SameAttempts(i)
    BY <1>a, <1>14 DEF Discard, DeleteRow, NextIteration, TypeOK, SameAttempts
  <2>3. \A v \in Worker : SamePopped(v) /\ SameFound(v)
    BY <1>a, <1>14 DEF Discard, DeleteRow, NextIteration, Goto, TypeOK, Working, SamePopped, SameFound
  <2> QED
    BY <2>1, <2>2, <2>3, EarnedFrame
<1>15. ASSUME NEW w \in Worker, Reserve(w) PROVE AttemptsEarned'
  <2>1. \A i \in DOMAIN ledger : NoNewDebt(i)
    BY <1>a, <1>15, <1>b DEF Reserve, UpdateRow, Row, Goto, TypeOK
  <2>2. \A i \in DOMAIN jobs' : SameAttempts(i)
    BY <1>a, <1>15 DEF Reserve, UpdateRow, Row, TypeOK, SameAttempts
  <2>3. \A v \in Worker : SamePopped(v) /\ SameFound(v)
    BY <1>a, <1>15 DEF Reserve, UpdateRow, Row, Goto, TypeOK, Working, SamePopped, SameFound
  <2> QED
    BY <2>1, <2>2, <2>3, EarnedFrame
<1>16. ASSUME NEW w \in Worker, ReleaseRead(w) PROVE AttemptsEarned'
  <2>1. /\ pc[w] = "release" /\ pc' = [pc EXCEPT ![w] = "rewrite"]
        /\ record[w].id \in DOMAIN jobs
        /\ found' = [found EXCEPT ![w] = jobs[record[w].id].attempts]
        /\ UNCHANGED <<record, jobs, ledger>>
    BY <1>16 DEF ReleaseRead, Goto
  <2>2. ASSUME NEW i PROVE Releasing(i)' = Releasing(i)
    BY <1>a, <2>1 DEF Releasing, TypeOK
  <2>3. \A i \in DOMAIN ledger : NoNewDebt(i)
    BY <1>a, <2>1, <2>2, FewerReleasing
  <2>4. \A i \in DOMAIN jobs' : SameAttempts(i)
    BY <2>1 DEF SameAttempts
  <2>5. \A v \in Worker : SamePopped(v)
    BY <1>a, <2>1 DEF TypeOK, SamePopped, Working
  <2>6. Earned(record[w].id, found[w])'
    <3>1. Earned(record[w].id, jobs[record[w].id].attempts)
      BY <2>1 DEF AttemptsEarned
    <3>2. found'[w] = jobs[record[w].id].attempts
      BY <1>a, <2>1 DEF TypeOK
    <3> QED
      BY <2>1, <2>2, <3>1, <3>2 DEF Earned
  <2>7. \A v \in Worker : SameFound(v) \/ Earned(record[v].id, found[v])'
    BY <1>a, <2>1, <2>6 DEF TypeOK, SameFound
  <2> QED
    BY <2>3, <2>4, <2>5, <2>7, EarnedFrame
<1>17. ASSUME NEW w \in Worker, ReleaseWrite(w) PROVE AttemptsEarned'
  <2>0. PICK r : r = record[w].id
    OBVIOUS
  <2>1. /\ pc[w] = "rewrite" /\ pc' = [pc EXCEPT ![w] = "loop"]
        /\ record' = [record EXCEPT ![w] = None]
        /\ found' = [found EXCEPT ![w] = 0]
        /\ UNCHANGED ledger
        /\ jobs' = UpdateRow(jobs, r, [jobs[r] EXCEPT !.reserved = FALSE,
                                                      !.delayed  = RetryAfter > 0,
                                                      !.attempts = found[w] + 1])
    BY <2>0, <1>17 DEF ReleaseWrite, NextIteration, Goto
  <2>2. \A v \in Worker : SamePopped(v) /\ SameFound(v)
    BY <1>a, <2>1 DEF TypeOK, SamePopped, SameFound, Working
  <2>3. \A i \in DOMAIN ledger : NoNewDebt(i)
    BY <1>a, <1>b, <2>1 DEF TypeOK
  <2>4. \A i \in DOMAIN jobs' : i # r => SameAttempts(i)
    BY <2>1 DEF UpdateRow, SameAttempts
  <2>5. ASSUME r \in DOMAIN jobs PROVE Earned(r, jobs[r].attempts)'
    <3>1. Releasing(r)' = Releasing(r) \ {w} /\ w \in Releasing(r)
      BY <1>a, <2>0, <2>1 DEF Releasing, TypeOK
    <3>2. Cardinality(Releasing(r)') = Cardinality(Releasing(r)) - 1
      BY <3>1, ReleasingFinite, FS_RemoveElement
    <3>3. Earned(r, found[w])
      BY <2>0, <2>1 DEF AttemptsEarned
    <3>4. jobs'[r].attempts = found[w] + 1
      BY <1>a, <2>1, <2>5 DEF UpdateRow, TypeOK, Row
    <3>5. r \in DOMAIN ledger /\ ledger[r].failures \in Nat /\ found[w] \in Nat
      BY <1>a, <2>5, FailuresType DEF TypeOK
    <3>6. jobs'[r].attempts + Cardinality(Releasing(r)') <= ledger'[r].failures
      BY <2>1, <3>2, <3>3, <3>4, <3>5, ReleasingFinite DEF Earned
    <3> QED
      BY <3>6 DEF Earned
  <2>6. \A i \in DOMAIN jobs' : SameAttempts(i) \/ Earned(i, jobs[i].attempts)'
    BY <2>1, <2>4, <2>5 DEF UpdateRow
  <2> QED
    BY <2>2, <2>3, <2>6, EarnedFrame
<1>18. ASSUME NEW o \in Operator, RetryFind(o) \/ RetryDelete(o) \/ RetryFails(o)
       PROVE  AttemptsEarned'
  <2>1. UNCHANGED <<jobs, ledger, workerVars>>
    BY <1>18 DEF RetryFind, RetryDelete, RetryFails
  <2> QED
    BY <1>b, <2>1, EarnedFrame DEF workerVars, SameAttempts, SamePopped, SameFound
<1>19. ASSUME NEW k \in DOMAIN failedJobs, Forget(k) PROVE AttemptsEarned'
  <2>1. UNCHANGED <<jobs, ledger, workerVars>>
    BY <1>19 DEF Forget
  <2> QED
    BY <1>b, <2>1, EarnedFrame DEF workerVars, SameAttempts, SamePopped, SameFound
<1>20. ASSUME UNCHANGED vars PROVE AttemptsEarned'
  BY <1>20, <1>b, EarnedFrame DEF vars, workerVars, SameAttempts, SamePopped, SameFound
<1>21. ASSUME NEW o \in Operator, RetryPush(o) PROVE AttemptsEarned'
  <2>1. /\ retrying[o].row \in FailedRow
        /\ Insert(retrying[o].row.payload, retrying[o].row.queue, FALSE)
        /\ UNCHANGED workerVars
    BY <1>a, <1>21 DEF RetryPush, Linked, RetryLinked
  <2>2. retrying[o].row.payload \in Payload /\ retrying[o].row.queue \in Queue
    BY <2>1 DEF FailedRow
  <2> QED
    BY <2>1, <2>2, EarnedInsert DEF SamePopped, SameFound, workerVars
<1>22. ASSUME NEW w \in Worker, PushNext(w) PROVE AttemptsEarned'
  <2>1. /\ pc[w] = "chain" /\ pc' = [pc EXCEPT ![w] = "delete"]
        /\ Insert(Tail(record[w].payload), Serves[w], FALSE)
        /\ UNCHANGED <<record, found>>
    BY <1>22 DEF PushNext, Goto
  <2>2. Tail(record[w].payload) \in Payload
    BY <1>a, <2>1, RestOfChain DEF Linked, RecordLinked, Working, Popped, Chained
  <2>3. Serves[w] \in Queue
    BY WorkerAssumption
  <2>4. \A v \in Worker : /\ SamePopped(v) /\ SameFound(v)
                          /\ pc'[v] \in {"release", "rewrite"} => pc'[v] = pc[v]
    BY <1>a, <2>1 DEF TypeOK, SamePopped, SameFound, Working
  <2> QED
    BY <2>1, <2>2, <2>3, <2>4, EarnedInsert
<1>23. ASSUME NEW w \in Worker, Select(w) PROVE AttemptsEarned'
  <2>1. PICK i \in DOMAIN jobs :
            record' = [record EXCEPT ![w] = [id |-> i, queue |-> jobs[i].queue,
                                             payload |-> jobs[i].payload,
                                             attempts |-> jobs[i].attempts]]
    BY <1>23 DEF Select, Available
  <2>2. /\ pc[w] = "loop" /\ pc' = [pc EXCEPT ![w] = "reserve"]
        /\ UNCHANGED <<found, jobs, ledger>>
    BY <1>23 DEF Select, Goto
  <2>3. \A j : Releasing(j)' = Releasing(j)
    BY <1>a, <2>1, <2>2 DEF Releasing, TypeOK
  <2>4. \A j \in DOMAIN ledger : NoNewDebt(j)
    BY <1>a, <2>2, <2>3, FewerReleasing
  <2>5. Earned(record[w].id, record[w].attempts)'
    <3>1. record'[w].id = i /\ record'[w].attempts = jobs[i].attempts
      BY <1>a, <2>1 DEF TypeOK
    <3>2. Earned(i, jobs[i].attempts)
      BY DEF AttemptsEarned
    <3> QED
      BY <2>2, <2>3, <3>1, <3>2 DEF Earned
  <2>6. \A v \in Worker : SamePopped(v) \/ Earned(record[v].id, record[v].attempts)'
    BY <1>a, <2>1, <2>2, <2>5 DEF TypeOK, SamePopped
  <2>7. \A v \in Worker : SameFound(v)
    BY <1>a, <2>1, <2>2 DEF TypeOK, SameFound
  <2>8. \A j \in DOMAIN jobs' : SameAttempts(j)
    BY <2>2 DEF SameAttempts
  <2> QED
    BY <2>4, <2>6, <2>7, <2>8, EarnedFrame
<1>24. ASSUME NEW w \in Worker, Succeed(w) PROVE AttemptsEarned'
  <2>1. PICK at \in {"chain", "delete"} : pc' = [pc EXCEPT ![w] = at]
    BY <1>24 DEF Succeed, Goto
  <2>2. /\ pc[w] = "run" /\ UNCHANGED <<record, found, jobs>>
        /\ ledger' = [ledger EXCEPT ![record[w].id].handled = TRUE]
    BY <1>24 DEF Succeed
  <2>3. \A j : Releasing(j)' = Releasing(j)
    BY <1>a, <2>1, <2>2 DEF Releasing, TypeOK
  <2>4. \A j \in DOMAIN ledger : j \in DOMAIN ledger' /\ ledger'[j].failures = ledger[j].failures
    BY <2>2
  <2>5. \A j \in DOMAIN ledger : NoNewDebt(j)
    BY <1>a, <2>3, <2>4, FewerReleasing
  <2>6. \A j \in DOMAIN jobs' : SameAttempts(j)
    BY <2>2 DEF SameAttempts
  <2>7. \A v \in Worker : SamePopped(v) /\ SameFound(v)
    BY <1>a, <2>1, <2>2 DEF TypeOK, SamePopped, SameFound, Working
  <2> QED
    BY <2>5, <2>6, <2>7, EarnedFrame
<1>25. ASSUME NEW w \in Worker, Fail(w) \/ HookFails(w) \/ FinishFails(w)
       PROVE  AttemptsEarned'
  <2>1. /\ pc[w] \in {"run", "chain", "delete"} /\ record[w].id \in DOMAIN ledger
        /\ \E e \in Entry : /\ e.failures = ledger[record[w].id].failures
                            /\ Caught(w, e)
    <3>1. pc[w] \in {"run", "chain", "delete"} /\ record[w].id \in DOMAIN ledger
      BY <1>a, <1>25 DEF Fail, HookFails, FinishFails, Linked, RecordLinked, Working
    <3>2. ledger[record[w].id] \in Entry
      BY <1>a, <3>1, ElementOfSeq, LenProperties DEF TypeOK
    <3>3. [ledger[record[w].id] EXCEPT !.handled = TRUE] \in Entry
      BY <3>2 DEF Entry
    <3>4. [ledger[record[w].id] EXCEPT !.handled = TRUE].failures
            = ledger[record[w].id].failures
      BY <3>2 DEF Entry
    <3> QED
      BY <1>25, <3>1, <3>2, <3>3, <3>4 DEF Fail, HookFails, FinishFails
  <2>2. PICK e \in Entry : /\ e.failures = ledger[record[w].id].failures
                           /\ Caught(w, e)
    BY <2>1
  <2> QED
    BY <2>1, <2>2, CaughtEarned
<1> QED
  BY <1>1, <1>2, <1>3, <1>4, <1>5, <1>6, <1>7, <1>8, <1>9, <1>10, <1>11, <1>12,
     <1>13, <1>14, <1>15, <1>16, <1>17, <1>18, <1>19, <1>20, <1>21, <1>22, <1>23,
     <1>24, <1>25
     DEF Next, Produce, WorkerStep, Fault, OperatorStep

LEMMA AttemptsEarnedInit == Init => AttemptsEarned
BY DEF Init, EmptyTable, AttemptsEarned, Working

\* An entry is as it was, except that it may be marked handled.
SameVerdict(i) == /\ i \in DOMAIN ledger
                  /\ ledger'[i].givenUp = ledger[i].givenUp
                  /\ ledger'[i].failures = ledger[i].failures

LEMMA InsertVerdicts ==
    ASSUME TypeOK, GivenUpOnlyAfterMaxAttempts,
           NEW payload \in Payload, NEW queue \in Queue,
           NEW delayed \in BOOLEAN, Insert(payload, queue, delayed)
    PROVE  GivenUpOnlyAfterMaxAttempts'
<1>1. /\ DOMAIN ledger' = DOMAIN ledger \cup {Len(ledger) + 1}
      /\ \A i \in DOMAIN ledger : ledger'[i] = ledger[i]
      /\ ledger'[Len(ledger) + 1] = NewEntry(payload)
  <2>1. /\ DOMAIN ledger' = 1 .. Len(ledger) + 1
        /\ \A i \in DOMAIN ledger : ledger'[i] = ledger[i]
        /\ ledger'[Len(ledger) + 1] = NewEntry(payload)
    BY InsertTypes
  <2>2. DOMAIN ledger = 1 .. Len(ledger) /\ Len(ledger) \in Nat
    BY LenProperties DEF TypeOK
  <2> QED
    BY <2>1, <2>2
<1>2. ledger'[Len(ledger) + 1].givenUp = FALSE
  BY <1>1 DEF NewEntry
<1> QED
  BY <1>1, <1>2 DEF GivenUpOnlyAfterMaxAttempts

LEMMA CaughtVerdicts ==
    ASSUME TypeInv, AttemptsEarned, GivenUpOnlyAfterMaxAttempts, NEW w \in Worker,
           pc[w] \in {"run", "chain", "delete"},
           NEW entry \in Entry,
           entry.failures = ledger[record[w].id].failures,
           entry.givenUp = ledger[record[w].id].givenUp,
           Caught(w, entry)
    PROVE  GivenUpOnlyAfterMaxAttempts'
<1>a. TypeOK /\ Linked
  BY DEF TypeInv
<1>0. /\ record[w].id \in DOMAIN ledger
      /\ record[w].attempts \in Nat
      /\ Earned(record[w].id, record[w].attempts)
  BY <1>a DEF Linked, RecordLinked, Working, Popped, AttemptsEarned
<1>1. PICK r \in DOMAIN ledger : r = record[w].id
  BY <1>0
<1> DEFINE e == FailedEntry(entry, GivesUp(w))
<1>2. /\ e \in Entry /\ e.failures = ledger[r].failures + 1
      /\ ~GivesUp(w) => e.givenUp = ledger[r].givenUp
  BY <1>1, CaughtEntry
<1>3. ledger' = [ledger EXCEPT ![r] = e]
  BY <1>1 DEF Caught
<1> HIDE DEF e
<1>4. /\ DOMAIN ledger' = DOMAIN ledger /\ ledger'[r] = e
      /\ \A j \in DOMAIN ledger : j # r => ledger'[j] = ledger[j]
  BY <1>a, <1>2, <1>3, MarkTypes
<1>5. ledger[r].failures \in Nat
  BY <1>a, FailuresType
<1>6. e.givenUp => e.failures >= MaxAttempts
  <2>1. CASE GivesUp(w)
    <3>1. record[w].attempts <= ledger[r].failures
      BY <1>0, <1>1, <1>5, ReleasingFinite DEF Earned
    <3> QED
      BY <1>0, <1>2, <1>5, <2>1, <3>1, LimitAssumption DEF GivesUp
  <2>2. CASE ~GivesUp(w)
    <3>1. e.givenUp => ledger[r].failures >= MaxAttempts
      BY <1>2, <2>2, Zenon DEF GivenUpOnlyAfterMaxAttempts
    <3>2. ledger[r].failures >= MaxAttempts => e.failures >= MaxAttempts
      BY <1>2, <1>5, LimitAssumption
    <3> QED
      BY <3>1, <3>2, Zenon
  <2> QED
    BY <2>1, <2>2
<1> QED
  BY <1>4, <1>6 DEF GivenUpOnlyAfterMaxAttempts

LEMMA GivenUpStep ==
    TypeInv /\ AttemptsEarned /\ GivenUpOnlyAfterMaxAttempts /\ [Next]_vars
        => GivenUpOnlyAfterMaxAttempts'
<1> SUFFICES ASSUME TypeInv, AttemptsEarned, GivenUpOnlyAfterMaxAttempts, [Next]_vars
             PROVE  GivenUpOnlyAfterMaxAttempts'
  OBVIOUS
<1>a. TypeOK /\ Linked
  BY DEF TypeInv
<1>b. ASSUME UNCHANGED ledger PROVE GivenUpOnlyAfterMaxAttempts'
  BY <1>b DEF GivenUpOnlyAfterMaxAttempts
<1>1. ASSUME NEW p \in Dispatches, NEW q \in Queue,
             Dispatch(p, q) \/ DispatchLater(p, q)
      PROVE  GivenUpOnlyAfterMaxAttempts'
  <2>1. PICK delayed \in BOOLEAN : Insert(p, q, delayed)
    BY <1>1 DEF Dispatch, DispatchLater
  <2> QED
    BY <1>a, <2>1, PayloadAssumption, InsertVerdicts
<1>2. ASSUME NEW w \in Worker, PushNext(w) PROVE GivenUpOnlyAfterMaxAttempts'
  <2>1. pc[w] = "chain" /\ Insert(Tail(record[w].payload), Serves[w], FALSE)
    BY <1>2 DEF PushNext
  <2>2. Tail(record[w].payload) \in Payload
    BY <1>a, <2>1, RestOfChain DEF Linked, RecordLinked, Working, Popped, Chained
  <2> QED
    BY <1>a, <2>1, <2>2, WorkerAssumption, InsertVerdicts
<1>3. ASSUME NEW o \in Operator, RetryPush(o) PROVE GivenUpOnlyAfterMaxAttempts'
  <2>1. /\ retrying[o].row \in FailedRow
        /\ Insert(retrying[o].row.payload, retrying[o].row.queue, FALSE)
    BY <1>a, <1>3 DEF RetryPush, Linked, RetryLinked
  <2> QED
    BY <1>a, <2>1, InsertVerdicts DEF FailedRow
<1>4. ASSUME NEW w \in Worker, Succeed(w) PROVE GivenUpOnlyAfterMaxAttempts'
  <2>1. ledger' = [ledger EXCEPT ![record[w].id].handled = TRUE]
    BY <1>4 DEF Succeed
  <2>2. \A i \in DOMAIN ledger' : SameVerdict(i)
    BY <2>1 DEF SameVerdict
  <2> QED
    BY <2>2 DEF SameVerdict, GivenUpOnlyAfterMaxAttempts
<1>5. ASSUME NEW w \in Worker, Fail(w) \/ HookFails(w) \/ FinishFails(w)
      PROVE  GivenUpOnlyAfterMaxAttempts'
  <2>1. pc[w] \in {"run", "chain", "delete"} /\ record[w].id \in DOMAIN ledger
    BY <1>a, <1>5 DEF Fail, HookFails, FinishFails, Linked, RecordLinked, Working
  <2>2. PICK old \in Entry : old = ledger[record[w].id]
    BY <1>a, <2>1, ElementOfSeq, LenProperties DEF TypeOK
  <2>3. /\ [old EXCEPT !.handled = TRUE] \in Entry
        /\ [old EXCEPT !.handled = TRUE].failures = old.failures
        /\ [old EXCEPT !.handled = TRUE].givenUp = old.givenUp
    BY DEF Entry
  <2>4. \E e \in Entry : /\ e.failures = old.failures /\ e.givenUp = old.givenUp
                         /\ Caught(w, e)
    BY <1>5, <2>2, <2>3 DEF Fail, HookFails, FinishFails
  <2> QED
    BY <2>1, <2>2, <2>4, CaughtVerdicts
<1>6. ASSUME NEW w \in Worker,
             \/ Start(w) \/ Exit(w) \/ Select(w) \/ SelectNothing(w) \/ Wake(w)
             \/ Reserve(w) \/ DeleteJob(w) \/ RecordFailed(w) \/ Discard(w)
             \/ ReleaseNothing(w) \/ ReleaseRead(w) \/ ReleaseWrite(w)
             \/ Signal(w) \/ Crash(w) \/ PopFails(w) \/ CatchFails(w)
      PROVE  GivenUpOnlyAfterMaxAttempts'
  BY <1>6, <1>b DEF Start, Exit, Select, SelectNothing, Wake, Reserve, DeleteJob,
     RecordFailed, Discard, ReleaseNothing, ReleaseRead, ReleaseWrite, Signal, Crash,
     PopFails, CatchFails
<1>7. ASSUME NEW i \in DOMAIN jobs, Elapse(i) PROVE GivenUpOnlyAfterMaxAttempts'
  BY <1>7, <1>b DEF Elapse
<1>8. ASSUME NEW o \in Operator, RetryFind(o) \/ RetryDelete(o) \/ RetryFails(o)
      PROVE  GivenUpOnlyAfterMaxAttempts'
  BY <1>8, <1>b DEF RetryFind, RetryDelete, RetryFails
<1>9. ASSUME NEW k \in DOMAIN failedJobs, Forget(k)
      PROVE  GivenUpOnlyAfterMaxAttempts'
  BY <1>9, <1>b DEF Forget
<1>10. ASSUME UNCHANGED vars PROVE GivenUpOnlyAfterMaxAttempts'
  BY <1>10, <1>b DEF vars
<1> QED
  BY <1>1, <1>2, <1>3, <1>4, <1>5, <1>6, <1>7, <1>8, <1>9, <1>10
     DEF Next, Produce, WorkerStep, Fault, OperatorStep

\* The worker declares a job permanently failed on the attempts it popped;
\* whatever overlapping releases did to that number, MaxAttempts runs of the
\* row have failed by then.
THEOREM GivenUpTooSoonNever == Spec => []GivenUpOnlyAfterMaxAttempts
<1>1. Init => GivenUpOnlyAfterMaxAttempts
  BY DEF Init, GivenUpOnlyAfterMaxAttempts
<1>2. Init => TypeInv /\ AttemptsEarned
  BY TypeInvInit, AttemptsEarnedInit
<1>3. TypeInv /\ [Next]_vars => TypeInv'
  BY TypeInvStep
<1>4. TypeInv /\ TypeInv' /\ AttemptsEarned /\ [Next]_vars => AttemptsEarned'
  BY EarnedStep
<1>5. TypeInv /\ AttemptsEarned /\ GivenUpOnlyAfterMaxAttempts /\ [Next]_vars
        => GivenUpOnlyAfterMaxAttempts'
  BY GivenUpStep
<1> QED
  BY <1>1, <1>2, <1>3, <1>4, <1>5, PTL DEF Spec
-----------------------------------------------------------------------------
(***************************************************************************)
(* What the queue delivers: no job is lost, chains run in order, orphans   *)
(* stay, and each statement is a step of the abstract queue or none.  The  *)
(* ledger is the thread through all of it: what it says of a row only      *)
(* grows, and whoever removes a row does so on the strength of it.         *)
(***************************************************************************)
KeepsNotes ==
    \A i \in DOMAIN ledger :
        /\ i \in DOMAIN ledger'
        /\ ledger'[i].payload = ledger[i].payload
        /\ ledger[i].handled => ledger'[i].handled
        /\ ledger[i].givenUp => ledger'[i].givenUp

LEMMA NotesStay ==
    ASSUME KeepsNotes
    PROVE  /\ Accepted \subseteq Accepted'
           /\ \A p : Handled(p) => Handled(p)'
           /\ \A p : GivenUp(p) => GivenUp(p)'
           /\ \A p : Completed(p) => Completed(p)'
<1>1. Accepted \subseteq Accepted'
  BY DEF KeepsNotes, Accepted
<1>2. ASSUME NEW p, Handled(p) PROVE Handled(p)'
  BY <1>2 DEF KeepsNotes, Handled
<1>3. ASSUME NEW p, GivenUp(p) PROVE GivenUp(p)'
  BY <1>3 DEF KeepsNotes, GivenUp
<1>4. ASSUME NEW p, Completed(p) PROVE Completed(p)'
  BY <1>1, <1>2, <1>4 DEF Completed
<1> QED
  BY <1>1, <1>2, <1>3, <1>4

LEMMA InsertNotes ==
    ASSUME TypeOK, NEW payload \in Payload, NEW queue \in Queue,
           NEW delayed \in BOOLEAN, Insert(payload, queue, delayed)
    PROVE  /\ KeepsNotes
           /\ Accepted' = Accepted \cup {payload}
           /\ DOMAIN jobs' = DOMAIN jobs \cup {Len(ledger) + 1}
           /\ \A i \in DOMAIN jobs : jobs'[i] = jobs[i]
           /\ jobs'[Len(ledger) + 1].payload = payload
           /\ Len(ledger) + 1 \notin DOMAIN ledger
           /\ DOMAIN ledger' = DOMAIN ledger \cup {Len(ledger) + 1}
           /\ ledger'[Len(ledger) + 1].payload = payload
<1> DEFINE new == Len(ledger) + 1
<1>1. /\ DOMAIN ledger' = 1 .. Len(ledger) + 1
      /\ \A i \in DOMAIN ledger : i \in DOMAIN ledger' /\ ledger'[i] = ledger[i]
      /\ ledger'[new] = NewEntry(payload)
      /\ DOMAIN jobs' = DOMAIN jobs \cup {new}
      /\ jobs'[new] = NewRow(payload, queue, delayed)
      /\ \A i \in DOMAIN jobs : jobs'[i] = jobs[i]
  BY InsertTypes
<1>2. DOMAIN ledger = 1 .. Len(ledger) /\ Len(ledger) \in Nat
  BY LenProperties DEF TypeOK
<1>3. DOMAIN ledger' = DOMAIN ledger \cup {new} /\ new \notin DOMAIN ledger
  BY <1>1, <1>2
<1>4. jobs'[new].payload = payload /\ ledger'[new].payload = payload
  BY <1>1 DEF NewRow, NewEntry
<1> HIDE DEF new
<1>5. KeepsNotes
  BY <1>1 DEF KeepsNotes
<1>6. Accepted' = Accepted \cup {payload}
  BY <1>1, <1>3, <1>4 DEF Accepted
<1> QED
  BY <1>1, <1>3, <1>4, <1>5, <1>6 DEF new

LEMMA SucceedNotes ==
    ASSUME TypeInv, NEW w \in Worker, Succeed(w)
    PROVE  /\ KeepsNotes
           /\ record[w].id \in DOMAIN ledger
           /\ DOMAIN ledger' = DOMAIN ledger
           /\ ledger'[record[w].id].handled
<1>1. TypeOK /\ record[w].id \in DOMAIN ledger
  BY DEF TypeInv, Linked, RecordLinked, Working, Succeed
<1>2. PICK r \in DOMAIN ledger : r = record[w].id
  BY <1>1
<1>3. PICK old \in Entry : old = ledger[r]
  BY <1>1, ElementOfSeq, LenProperties DEF TypeOK
<1>4. PICK e \in Entry : e = [old EXCEPT !.handled = TRUE]
  BY DEF Entry
<1>5. e.payload = old.payload /\ e.handled = TRUE /\ e.givenUp = old.givenUp
  BY <1>4 DEF Entry
<1>6. ledger' = [ledger EXCEPT ![r] = e]
  BY <1>2, <1>3, <1>4 DEF Succeed
<1>7. /\ DOMAIN ledger' = DOMAIN ledger /\ ledger'[r] = e
      /\ \A j \in DOMAIN ledger : j # r => ledger'[j] = ledger[j]
  BY <1>1, <1>6, MarkTypes
<1> QED
  BY <1>1, <1>2, <1>3, <1>5, <1>7 DEF KeepsNotes

\* The three ways a run fails are one.
FailsWith(w, entry) ==
    /\ pc[w] \in {"run", "chain", "delete"}
    /\ entry \in Entry
    /\ entry.payload = ledger[record[w].id].payload
    /\ entry.failures = ledger[record[w].id].failures
    /\ entry.givenUp = ledger[record[w].id].givenUp
    /\ ledger[record[w].id].handled => entry.handled
    /\ Caught(w, entry)

LEMMA RunFailsWith ==
    ASSUME TypeInv, NEW w \in Worker, Fail(w) \/ HookFails(w) \/ FinishFails(w)
    PROVE  \E entry : FailsWith(w, entry)
<1>1. /\ pc[w] \in {"run", "chain", "delete"}
      /\ TypeOK /\ record[w].id \in DOMAIN ledger
  BY DEF Fail, HookFails, FinishFails, TypeInv, Linked, RecordLinked, Working
<1>2. PICK old \in Entry : old = ledger[record[w].id]
  BY <1>1, ElementOfSeq, LenProperties DEF TypeOK
<1>3. PICK ran : ran = [old EXCEPT !.handled = TRUE]
  OBVIOUS
<1>4. /\ ran \in Entry /\ ran.payload = old.payload /\ ran.failures = old.failures
      /\ ran.givenUp = old.givenUp /\ ran.handled = TRUE
  BY <1>3 DEF Entry
<1>5. Caught(w, old) \/ Caught(w, ran)
  BY <1>2, <1>3 DEF Fail, HookFails, FinishFails
<1> QED
  BY <1>1, <1>2, <1>4, <1>5 DEF FailsWith

LEMMA FailsNotes ==
    ASSUME TypeInv, NEW w \in Worker, NEW entry, FailsWith(w, entry)
    PROVE  /\ KeepsNotes
           /\ record[w].id \in DOMAIN ledger
           /\ DOMAIN ledger' = DOMAIN ledger
           /\ GivesUp(w) => ledger'[record[w].id].givenUp
<1>1. TypeOK /\ record[w].id \in DOMAIN ledger
  BY DEF FailsWith, TypeInv, Linked, RecordLinked, Working
<1>2. PICK r \in DOMAIN ledger : r = record[w].id
  BY <1>1
<1>3. PICK e : e = FailedEntry(entry, GivesUp(w))
  OBVIOUS
<1>4. /\ e \in Entry /\ e.payload = entry.payload /\ e.handled = entry.handled
      /\ GivesUp(w) => e.givenUp = TRUE
      /\ ~GivesUp(w) => e.givenUp = entry.givenUp
  BY <1>3, CaughtEntry DEF FailsWith
<1>5. ledger' = [ledger EXCEPT ![r] = e]
  BY <1>2, <1>3 DEF FailsWith, Caught
<1>6. /\ DOMAIN ledger' = DOMAIN ledger /\ ledger'[r] = e
      /\ \A j \in DOMAIN ledger : j # r => ledger'[j] = ledger[j]
  BY <1>1, <1>4, <1>5, MarkTypes
<1>7. /\ e.payload = ledger[r].payload
      /\ ledger[r].handled => e.handled
      /\ ledger[r].givenUp => e.givenUp
  BY <1>2, <1>4 DEF FailsWith
<1> QED
  BY <1>1, <1>2, <1>4, <1>6, <1>7 DEF KeepsNotes
-----------------------------------------------------------------------------
(***************************************************************************)
(* What workers and operators rely on when they delete a row.              *)
(***************************************************************************)
SameRun(w) ==
    pc'[w] \in {"chain", "delete", "record", "discard"} =>
        pc'[w] = pc[w] /\ record'[w] = record[w]

\* An id of failed_jobs is not given out twice.
SameFailedRow(k) == k \in DOMAIN failedJobs /\ failedJobs'[k] = failedJobs[k]

LEMMA NotedFrame ==
    ASSUME TypeInv, Noted, KeepsNotes,
           \A w \in Worker : SameRun(w) \/ RunNoted(w)',
           \A k \in DOMAIN failedJobs' :
               SameFailedRow(k) \/ (k > lastFailed /\ GivenUp(failedJobs[k].payload)'),
           \A o \in Operator : SameRetry(o) \/ RetryNoted(o)'
    PROVE  Noted'
<1>1. ASSUME NEW w \in Worker, SameRun(w) PROVE RunNoted(w)'
  <2>1. CASE pc'[w] \in {"chain", "delete", "record", "discard"}
    <3>1. pc'[w] = pc[w] /\ record'[w] = record[w] /\ record[w].id \in DOMAIN ledger
      BY <1>1, <2>1 DEF SameRun, TypeInv, Linked, RecordLinked, Working
    <3> QED
      BY <3>1, NotesStay DEF Noted, RunNoted, KeepsNotes, Chained
  <2> QED
    BY <2>1 DEF RunNoted
<1>2. ASSUME NEW k \in DOMAIN failedJobs' PROVE GivenUp(failedJobs[k].payload)'
  <2>1. CASE SameFailedRow(k)
    <3>1. GivenUp(failedJobs[k].payload)
      BY <2>1 DEF SameFailedRow, Noted
    <3>2. GivenUp(failedJobs'[k].payload)
      BY <2>1, <3>1 DEF SameFailedRow
    <3> QED
      BY <3>2 DEF KeepsNotes, GivenUp
  <2> QED
    BY <1>2, <2>1
<1>3. ASSUME NEW o \in Operator, SameRetry(o), retrying'[o].at # "idle"
      PROVE  RetryNoted(o)'
  <2>1. /\ retrying[o].at # "idle"
        /\ retrying'[o].row = retrying[o].row
        /\ retrying'[o].id = retrying[o].id
    BY <1>3 DEF SameRetry
  <2>2. RetryLinked(o) /\ RetryNoted(o) /\ lastFailed \in Nat
    BY DEF TypeInv, TypeOK, Linked, Noted
  <2>3. GivenUp(retrying'[o].row.payload)
    BY <2>1, <2>2 DEF RetryNoted
  <2>4. GivenUp(retrying[o].row.payload)'
    BY <2>3 DEF KeepsNotes, GivenUp
  <2>5. retrying[o].id \in DOMAIN failedJobs' => SameFailedRow(retrying[o].id)
    BY <2>1, <2>2 DEF RetryLinked
  <2>6. retrying'[o].id \in DOMAIN failedJobs' => failedJobs'[retrying'[o].id] = retrying'[o].row
    BY <2>1, <2>2, <2>5 DEF SameFailedRow, RetryNoted
  <2> QED
    BY <2>4, <2>6 DEF RetryNoted
<1>4. \A o \in Operator : RetryNoted(o)'
  BY <1>3 DEF RetryNoted
<1> QED
  BY <1>1, <1>2, <1>4 DEF Noted

LEMMA NotedInit == Init => Noted
BY DEF Init, Noted, RunNoted, RetryNoted, NotRetrying, EmptyTable

LEMMA NotedStep == TypeInv /\ Noted /\ [Next]_vars => Noted'
<1> SUFFICES ASSUME TypeInv, Noted, [Next]_vars PROVE Noted'
  OBVIOUS
<1>a. TypeOK /\ Linked
  BY DEF TypeInv
<1>b. ASSUME UNCHANGED ledger PROVE KeepsNotes
  BY <1>b DEF KeepsNotes
<1>c. ASSUME UNCHANGED <<failedVars, operatorVars>>, KeepsNotes,
             \A w \in Worker : SameRun(w) \/ RunNoted(w)'
      PROVE  Noted'
  <2>1. /\ \A k \in DOMAIN failedJobs' : SameFailedRow(k)
        /\ \A o \in Operator : SameRetry(o)
    BY <1>c DEF failedVars, operatorVars, SameFailedRow, SameRetry
  <2> QED
    BY <1>c, <2>1, NotedFrame
<1>d. ASSUME UNCHANGED <<ledger, workerVars>>,
             \A k \in DOMAIN failedJobs' : SameFailedRow(k),
             \A o \in Operator : SameRetry(o) \/ RetryNoted(o)'
      PROVE  Noted'
  <2>1. KeepsNotes /\ \A w \in Worker : SameRun(w)
    BY <1>b, <1>d DEF workerVars, SameRun
  <2> QED
    BY <1>d, <2>1, NotedFrame
<1>1. ASSUME NEW p \in Dispatches, NEW q \in Queue,
             Dispatch(p, q) \/ DispatchLater(p, q)
      PROVE  Noted'
  <2>1. PICK delayed \in BOOLEAN : Insert(p, q, delayed)
    BY <1>1 DEF Dispatch, DispatchLater
  <2>2. KeepsNotes
    BY <1>a, <2>1, PayloadAssumption, InsertNotes
  <2> QED
    BY <1>1, <1>c, <2>2 DEF Dispatch, DispatchLater, workerVars, SameRun
<1>2. ASSUME NEW i \in DOMAIN jobs, Elapse(i) PROVE Noted'
  BY <1>2, <1>b, <1>c DEF Elapse, workerVars, SameRun
<1>3. ASSUME NEW w \in Worker,
             \/ Start(w) \/ Exit(w) \/ Select(w) \/ SelectNothing(w) \/ Wake(w)
             \/ Reserve(w) \/ DeleteJob(w) \/ Discard(w)
             \/ ReleaseNothing(w) \/ ReleaseRead(w) \/ ReleaseWrite(w)
             \/ Signal(w) \/ Crash(w) \/ PopFails(w) \/ CatchFails(w)
      PROVE  Noted'
  <2>1. UNCHANGED <<ledger, failedVars, operatorVars>>
    BY <1>3 DEF Start, Exit, Select, SelectNothing, Wake, Reserve, DeleteJob, Discard,
       ReleaseNothing, ReleaseRead, ReleaseWrite, Signal, Crash, PopFails, CatchFails
  <2>2. \/ UNCHANGED <<pc, record>>
        \/ \E at \in {"loop", "stopped", "reserve", "asleep", "run", "rewrite"} :
              /\ pc' = [pc EXCEPT ![w] = at]
              /\ \A v \in Worker \ {w} : record'[v] = record[v]
    BY <1>a, <1>3 DEF TypeOK, Start, Exit, Select, SelectNothing, Wake, Reserve, DeleteJob,
       Discard, ReleaseNothing, ReleaseRead, ReleaseWrite, Signal, Crash, PopFails,
       CatchFails, Stop, NextIteration, Goto
  <2>3. \A v \in Worker : SameRun(v)
    BY <1>a, <2>2 DEF TypeOK, SameRun
  <2> QED
    BY <1>b, <1>c, <2>1, <2>3
<1>4. ASSUME NEW w \in Worker, Succeed(w) PROVE Noted'
  <2>1. /\ KeepsNotes /\ ledger'[record[w].id].handled
        /\ UNCHANGED <<record, failedVars, operatorVars>>
    BY <1>4, SucceedNotes DEF Succeed
  <2>2. PICK at \in {"chain", "delete"} :
            /\ pc' = [pc EXCEPT ![w] = at]
            /\ at = "delete" => ~Chained(w)
    BY <1>4 DEF Succeed, Goto
  <2>3. RunNoted(w)'
    BY <1>a, <2>1, <2>2 DEF TypeOK, RunNoted, Chained
  <2>4. \A v \in Worker : SameRun(v) \/ RunNoted(v)'
    BY <1>a, <2>1, <2>2, <2>3 DEF TypeOK, SameRun
  <2> QED
    BY <1>c, <2>1, <2>4
<1>5. ASSUME NEW w \in Worker, Fail(w) \/ HookFails(w) \/ FinishFails(w) PROVE Noted'
  <2>1. PICK entry : FailsWith(w, entry)
    BY <1>5, RunFailsWith
  <2>2. /\ KeepsNotes
        /\ GivesUp(w) => ledger'[record[w].id].givenUp
        /\ UNCHANGED <<record, failedVars, operatorVars>>
    BY <2>1, FailsNotes DEF FailsWith, Caught
  <2>3. PICK at \in {"release", "record", "discard"} :
            /\ pc' = [pc EXCEPT ![w] = at]
            /\ at # "release" => GivesUp(w)
    BY <2>1 DEF FailsWith, Caught, CatchError, Goto
  <2>4. RunNoted(w)'
    <3>1. pc'[w] = at /\ record'[w] = record[w]
      BY <1>a, <2>2, <2>3 DEF TypeOK
    <3>2. at # "release" => ledger'[record'[w].id].givenUp
      BY <2>2, <2>3, <3>1
    <3> QED
      BY <2>3, <3>1, <3>2 DEF RunNoted
  <2>5. \A v \in Worker : SameRun(v) \/ RunNoted(v)'
    BY <1>a, <2>2, <2>3, <2>4 DEF TypeOK, SameRun
  <2> QED
    BY <1>c, <2>2, <2>5
<1>6. ASSUME NEW w \in Worker, PushNext(w) PROVE Noted'
  <2>1. /\ pc[w] = "chain" /\ pc' = [pc EXCEPT ![w] = "delete"]
        /\ Insert(Tail(record[w].payload), Serves[w], FALSE)
        /\ UNCHANGED <<record, failedVars, operatorVars>>
    BY <1>6 DEF PushNext, Goto
  <2>2. record[w].id \in DOMAIN ledger /\ Tail(record[w].payload) \in Payload
    BY <1>a, <2>1, RestOfChain DEF Linked, RecordLinked, Working, Popped, Chained
  <2>3. KeepsNotes /\ Tail(record[w].payload) \in Accepted'
    BY <1>a, <2>1, <2>2, WorkerAssumption, InsertNotes
  <2>4. ledger'[record[w].id].handled
    BY <2>1, <2>2, <2>3 DEF Noted, RunNoted, KeepsNotes
  <2>5. RunNoted(w)'
    BY <1>a, <2>1, <2>3, <2>4 DEF TypeOK, RunNoted
  <2>6. \A v \in Worker : SameRun(v) \/ RunNoted(v)'
    BY <1>a, <2>1, <2>5 DEF TypeOK, SameRun
  <2> QED
    BY <1>c, <2>1, <2>3, <2>6
<1>7. ASSUME NEW w \in Worker, RecordFailed(w) PROVE Noted'
  <2>1. /\ pc[w] = "record" /\ pc' = [pc EXCEPT ![w] = "discard"]
        /\ failedJobs' = InsertRow(failedJobs, lastFailed + 1,
                                   [queue |-> Serves[w], payload |-> record[w].payload])
        /\ UNCHANGED <<ledger, record, operatorVars>>
    BY <1>7 DEF RecordFailed, Goto
  <2>2. record[w].id \in DOMAIN ledger /\ record[w].payload = ledger[record[w].id].payload
    BY <1>a, <2>1 DEF Linked, RecordLinked, Working
  <2>3. GivenUp(record[w].payload)
    BY <2>1, <2>2 DEF Noted, RunNoted, GivenUp
  <2>4. \A k \in DOMAIN failedJobs' :
            SameFailedRow(k) \/ (k > lastFailed /\ GivenUp(failedJobs[k].payload)')
    <3>1. /\ lastFailed' = lastFailed + 1 /\ lastFailed \in Nat
          /\ DOMAIN failedJobs' = DOMAIN failedJobs \cup {lastFailed + 1}
          /\ failedJobs'[lastFailed + 1].payload = record[w].payload
          /\ \A k \in DOMAIN failedJobs : k # lastFailed + 1 => SameFailedRow(k)
      BY <1>a, <1>7, <2>1 DEF RecordFailed, InsertRow, SameFailedRow, TypeOK
    <3>2. GivenUp(failedJobs'[lastFailed + 1].payload)
      BY <2>3, <3>1
    <3>3. \A k \in DOMAIN failedJobs' : k = lastFailed + 1 => GivenUp(failedJobs[k].payload)'
      BY <2>1, <3>2 DEF GivenUp
    <3>4. lastFailed + 1 > lastFailed
      BY <3>1
    <3> QED
      BY <3>1, <3>3, <3>4
  <2>5. \A v \in Worker : SameRun(v) \/ RunNoted(v)'
    <3>1. RunNoted(w)'
      BY <1>a, <2>1, <2>2 DEF TypeOK, RunNoted, Noted
    <3> QED
      BY <1>a, <2>1, <3>1 DEF TypeOK, SameRun
  <2> QED
    BY <1>b, <2>1, <2>4, <2>5, NotedFrame DEF operatorVars, SameRetry
<1>8. ASSUME NEW o \in Operator, RetryFind(o) PROVE Noted'
  <2>1. PICK k \in DOMAIN failedJobs :
            retrying' = [retrying EXCEPT ![o] =
                           [at |-> "push", id |-> k, row |-> failedJobs[k]]]
    BY <1>8 DEF RetryFind
  <2>2. UNCHANGED <<ledger, failedVars, workerVars>>
    BY <1>8 DEF RetryFind
  <2>3. RetryNoted(o)'
    BY <1>a, <2>1, <2>2 DEF TypeOK, RetryNoted, Noted, failedVars, GivenUp
  <2> QED
    BY <1>a, <1>d, <2>1, <2>2, <2>3 DEF TypeOK, SameRetry, SameFailedRow, failedVars
<1>9. ASSUME NEW o \in Operator, RetryPush(o) PROVE Noted'
  <2>1. /\ Insert(retrying[o].row.payload, retrying[o].row.queue, FALSE)
        /\ retrying[o].at = "push" /\ retrying' = [retrying EXCEPT ![o].at = "delete"]
        /\ UNCHANGED <<failedVars, workerVars>>
    BY <1>9 DEF RetryPush
  <2>2. retrying[o].row.payload \in Payload /\ retrying[o].row.queue \in Queue
    BY <1>a, <2>1 DEF Linked, RetryLinked, FailedRow
  <2>3. KeepsNotes
    BY <1>a, <2>1, <2>2, InsertNotes
  <2>4. \A v \in Operator : SameRetry(v)
    BY <1>a, <2>1 DEF TypeOK, Retrying, SameRetry
  <2> QED
    <3>1. /\ \A v \in Worker : SameRun(v)
          /\ \A k \in DOMAIN failedJobs' : SameFailedRow(k)
      BY <2>1 DEF workerVars, failedVars, SameRun, SameFailedRow
    <3> QED
      BY <2>3, <2>4, <3>1, NotedFrame
<1>10. ASSUME NEW o \in Operator, RetryDelete(o) PROVE Noted'
  <2>1. /\ failedJobs' = DeleteRow(failedJobs, retrying[o].id)
        /\ retrying' = [retrying EXCEPT ![o] = NotRetrying]
        /\ UNCHANGED <<ledger, workerVars>>
    BY <1>10 DEF RetryDelete
  <2> QED
    BY <1>a, <1>d, <2>1 DEF TypeOK, DeleteRow, SameFailedRow, SameRetry, NotRetrying
<1>11. ASSUME NEW o \in Operator, RetryFails(o) PROVE Noted'
  BY <1>a, <1>d, <1>11
     DEF RetryFails, TypeOK, failedVars, SameFailedRow, SameRetry, NotRetrying
<1>12. ASSUME NEW k \in DOMAIN failedJobs, Forget(k) PROVE Noted'
  BY <1>d, <1>12 DEF Forget, DeleteRow, SameFailedRow, SameRetry, operatorVars
<1>13. ASSUME UNCHANGED vars PROVE Noted'
  BY <1>d, <1>13 DEF vars, workerVars, SameFailedRow, SameRetry
<1> QED
  BY <1>1, <1>2, <1>3, <1>4, <1>5, <1>6, <1>7, <1>8, <1>9, <1>10, <1>11, <1>12, <1>13
     DEF Next, Produce, WorkerStep, Fault, OperatorStep
-----------------------------------------------------------------------------
(***************************************************************************)
(* No job is lost.                                                         *)
(***************************************************************************)
KeptRow(i) == /\ i \in DOMAIN jobs' /\ jobs'[i].payload = jobs[i].payload
              /\ ~Discarding(i)'

KeptFailed(k) == /\ k \in DOMAIN failedJobs' /\ failedJobs'[k].payload = failedJobs[k].payload
                 /\ ~Deleting(k)'

LEMMA SafeFrame ==
    ASSUME KeepsNotes, EveryJobSafe, forgotten \subseteq forgotten',
           \A p : p \in Accepted' => p \in Accepted \/ Safe(p)',
           \A p : \A i \in DOMAIN jobs :
               jobs[i].payload = p => Discarding(i) \/ KeptRow(i) \/ Safe(p)',
           \A p : \A k \in DOMAIN failedJobs :
               failedJobs[k].payload = p => Deleting(k) \/ KeptFailed(k) \/ Safe(p)'
    PROVE  EveryJobSafe'
<1>1. ASSUME NEW p, Safe(p) PROVE Safe(p)'
  <2>1. CASE InJobs(p)
    <3>1. PICK i \in DOMAIN jobs : jobs[i].payload = p /\ ~Discarding(i)
      BY <2>1 DEF InJobs
    <3>2. CASE KeptRow(i)
      BY <3>1, <3>2 DEF KeptRow, Safe, InJobs
    <3> QED
      BY <3>1, <3>2
  <2>2. CASE InFailed(p)
    <3>1. PICK k \in DOMAIN failedJobs : failedJobs[k].payload = p /\ ~Deleting(k)
      BY <2>2 DEF InFailed
    <3>2. CASE KeptFailed(k)
      BY <3>1, <3>2 DEF KeptFailed, Safe, InFailed
    <3> QED
      BY <3>1, <3>2
  <2>3. CASE Completed(p) \/ p \in forgotten \/ (~TracksFailures /\ GivenUp(p))
    BY <2>3, NotesStay DEF Safe
  <2> QED
    BY <1>1, <2>1, <2>2, <2>3 DEF Safe
<1> QED
  BY <1>1 DEF EveryJobSafe

\* Nobody starts to discard a row or to delete a failed one.
SameDiscards == \A w \in Worker : pc'[w] = "discard" => /\ pc[w] = "discard"
                                                        /\ record'[w] = record[w]

SameDeletes == \A o \in Operator : retrying'[o].at = "delete" =>
                   /\ retrying[o].at = "delete" /\ retrying'[o].id = retrying[o].id

LEMMA DiscardsFrame ==
    ASSUME SameDiscards, NEW i \in DOMAIN jobs, i \in DOMAIN jobs',
           jobs'[i].payload = jobs[i].payload
    PROVE  Discarding(i) \/ KeptRow(i)
BY DEF SameDiscards, Discarding, KeptRow

LEMMA DeletesFrame ==
    ASSUME SameDeletes, NEW k \in DOMAIN failedJobs, k \in DOMAIN failedJobs',
           failedJobs'[k].payload = failedJobs[k].payload
    PROVE  Deleting(k) \/ KeptFailed(k)
BY DEF SameDeletes, Deleting, KeptFailed

\* A step that pushes a job and removes none.
LEMMA SafeInsert ==
    ASSUME TypeInv, EveryJobSafe, NEW payload \in Payload, NEW queue \in Queue,
           NEW delayed \in BOOLEAN, Insert(payload, queue, delayed),
           SameDiscards, UNCHANGED failedVars,
           \A k \in DOMAIN failedJobs :
               Deleting(k) \/ ~Deleting(k)' \/ failedJobs[k].payload = payload
    PROVE  EveryJobSafe'
<1>1. TypeOK /\ Linked
  BY DEF TypeInv
<1>2. PICK new : new = Len(ledger) + 1
  OBVIOUS
<1>3. /\ KeepsNotes
      /\ Accepted' = Accepted \cup {payload}
      /\ DOMAIN jobs' = DOMAIN jobs \cup {new}
      /\ \A i \in DOMAIN jobs : jobs'[i] = jobs[i]
      /\ jobs'[new].payload = payload
      /\ new \notin DOMAIN ledger
  <2>1. /\ KeepsNotes
        /\ Accepted' = Accepted \cup {payload}
        /\ DOMAIN jobs' = DOMAIN jobs \cup {Len(ledger) + 1}
        /\ \A i \in DOMAIN jobs : jobs'[i] = jobs[i]
        /\ jobs'[Len(ledger) + 1].payload = payload
        /\ Len(ledger) + 1 \notin DOMAIN ledger
    <3>1. KeepsNotes
      BY <1>1, InsertNotes
    <3>2. Accepted' = Accepted \cup {payload}
      BY <1>1, InsertNotes
    <3>3. DOMAIN jobs' = DOMAIN jobs \cup {Len(ledger) + 1}
      BY <1>1, InsertNotes
    <3>4. \A i \in DOMAIN jobs : jobs'[i] = jobs[i]
      BY <1>1, InsertNotes
    <3>5. jobs'[Len(ledger) + 1].payload = payload
      BY <1>1, InsertNotes
    <3>6. Len(ledger) + 1 \notin DOMAIN ledger
      BY <1>1, InsertNotes
    <3> QED
      BY <3>1, <3>2, <3>3, <3>4, <3>5, <3>6
  <2> QED
    BY <1>2, <2>1
<1>4. ~Discarding(new)'
  BY <1>1, <1>3 DEF SameDiscards, Discarding, Linked, RecordLinked, Working
<1>5. \A p : p = payload => Safe(p)'
  BY <1>3, <1>4 DEF Safe, InJobs
<1>6. \A i \in DOMAIN jobs : Discarding(i) \/ KeptRow(i)
  BY <1>3, DiscardsFrame
<1>7. \A p : \A k \in DOMAIN failedJobs :
          failedJobs[k].payload = p => Deleting(k) \/ KeptFailed(k) \/ Safe(p)'
  BY <1>5 DEF failedVars, KeptFailed
<1>8. forgotten \subseteq forgotten'
  BY DEF failedVars
<1>9. \A p : p \in Accepted' => p \in Accepted \/ Safe(p)'
  BY <1>3, <1>5
<1>10. \A p : \A i \in DOMAIN jobs :
           jobs[i].payload = p => Discarding(i) \/ KeptRow(i) \/ Safe(p)'
  BY <1>6
<1>11. KeepsNotes
  BY <1>3
<1> QED
  BY <1>7, <1>8, <1>9, <1>10, <1>11, SafeFrame

\* A step that leaves the rows of both tables and who removes them alone.
LEMMA SafeSameRows ==
    ASSUME EveryJobSafe, KeepsNotes, SameDiscards, SameDeletes, Accepted' = Accepted,
           DOMAIN jobs' = DOMAIN jobs,
           \A i \in DOMAIN jobs : jobs'[i].payload = jobs[i].payload,
           UNCHANGED failedVars
    PROVE  EveryJobSafe'
<1>1. \A i \in DOMAIN jobs : Discarding(i) \/ KeptRow(i)
  BY DiscardsFrame
<1>2. \A k \in DOMAIN failedJobs : Deleting(k) \/ KeptFailed(k)
  BY DeletesFrame DEF failedVars
<1> QED
  BY <1>1, <1>2, SafeFrame DEF failedVars

LEMMA SafeInit == Init => EveryJobSafe
BY DEF Init, EveryJobSafe, Accepted

LEMMA SafeStep == TypeInv /\ Noted /\ EveryJobSafe /\ [Next]_vars => EveryJobSafe'
<1> SUFFICES ASSUME TypeInv, Noted, EveryJobSafe, [Next]_vars PROVE EveryJobSafe'
  OBVIOUS
<1>a. TypeOK /\ Linked
  BY DEF TypeInv
<1>b. ASSUME UNCHANGED ledger PROVE KeepsNotes /\ Accepted' = Accepted
  BY <1>b DEF KeepsNotes, Accepted
<1>1. ASSUME NEW p \in Dispatches, NEW q \in Queue,
             Dispatch(p, q) \/ DispatchLater(p, q)
      PROVE  EveryJobSafe'
  <2>1. PICK delayed \in BOOLEAN : Insert(p, q, delayed)
    BY <1>1 DEF Dispatch, DispatchLater
  <2>2. /\ SameDiscards
        /\ UNCHANGED failedVars
        /\ \A k : Deleting(k)' => Deleting(k)
    BY <1>1 DEF Dispatch, DispatchLater, workerVars, operatorVars, SameDiscards, Deleting
  <2> QED
    BY <2>1, <2>2, PayloadAssumption, SafeInsert
<1>2. ASSUME NEW i \in DOMAIN jobs, Elapse(i) PROVE EveryJobSafe'
  <2>1. /\ DOMAIN jobs' = DOMAIN jobs
        /\ \A j \in DOMAIN jobs : jobs'[j].payload = jobs[j].payload
    BY <1>a, <1>2 DEF Elapse, TypeOK, Row
  <2>2. /\ SameDiscards /\ SameDeletes
        /\ UNCHANGED <<ledger, failedVars>>
    BY <1>2 DEF Elapse, workerVars, operatorVars, SameDiscards, SameDeletes
  <2> QED
    BY <1>b, <2>1, <2>2, SafeSameRows
<1>3. ASSUME NEW w \in Worker,
             \/ Start(w) \/ Exit(w) \/ Select(w) \/ SelectNothing(w) \/ Wake(w)
             \/ ReleaseNothing(w) \/ ReleaseRead(w)
             \/ Signal(w) \/ Crash(w) \/ PopFails(w) \/ CatchFails(w)
      PROVE  EveryJobSafe'
  <2>1. UNCHANGED <<jobs, ledger, failedVars, operatorVars>>
    BY <1>3 DEF Start, Exit, Select, SelectNothing, Wake, ReleaseNothing, ReleaseRead,
       Signal, Crash, PopFails, CatchFails
  <2>2. \/ UNCHANGED <<pc, record>>
        \/ \E at \in {"loop", "stopped", "reserve", "asleep", "rewrite"} :
              /\ pc' = [pc EXCEPT ![w] = at]
              /\ \A v \in Worker \ {w} : record'[v] = record[v]
    BY <1>a, <1>3 DEF TypeOK, Start, Exit, Select, SelectNothing, Wake, ReleaseNothing,
       ReleaseRead, Signal, Crash, PopFails, CatchFails, Stop, NextIteration, Goto
  <2>3. SameDiscards /\ SameDeletes
    BY <1>a, <2>1, <2>2 DEF TypeOK, SameDiscards, SameDeletes, operatorVars
  <2> QED
    BY <1>b, <2>1, <2>3, SafeSameRows
<1>4. ASSUME NEW w \in Worker, Reserve(w) \/ ReleaseWrite(w) PROVE EveryJobSafe'
  <2>0. PICK i : i = record[w].id
    OBVIOUS
  <2>1. /\ DOMAIN jobs' = DOMAIN jobs
        /\ \A j \in DOMAIN jobs : jobs'[j].payload = jobs[j].payload
    <3>1. i \in DOMAIN jobs => jobs[i] \in Row
      BY <1>a DEF TypeOK
    <3>2. CASE Reserve(w)
      <4>1. PICK row : row = [jobs[i] EXCEPT !.reserved = TRUE]
        OBVIOUS
      <4>2. i \in DOMAIN jobs => row \in Row /\ row.payload = jobs[i].payload
        BY <3>1, <4>1 DEF Row
      <4>3. jobs' = UpdateRow(jobs, i, row)
        BY <2>0, <3>2, <4>1 DEF Reserve
      <4> QED
        BY <1>a, <4>2, <4>3, UpdateTypes
    <3>3. CASE ReleaseWrite(w)
      <4>1. PICK row : row = [jobs[i] EXCEPT !.reserved = FALSE,
                                             !.delayed  = RetryAfter > 0,
                                             !.attempts = found[w] + 1]
        OBVIOUS
      <4>2. (RetryAfter > 0) \in BOOLEAN /\ found[w] + 1 \in Nat
        BY <1>a DEF TypeOK
      <4>3. i \in DOMAIN jobs => row \in Row /\ row.payload = jobs[i].payload
        BY <3>1, <4>1, <4>2, ReleasedRow
      <4>4. jobs' = UpdateRow(jobs, i, row)
        BY <2>0, <3>3, <4>1 DEF ReleaseWrite
      <4> QED
        BY <1>a, <4>3, <4>4, UpdateTypes
    <3> QED
      BY <1>4, <3>2, <3>3
  <2>2. \E at \in {"loop", "run"} :
            /\ pc' = [pc EXCEPT ![w] = at]
            /\ \A v \in Worker \ {w} : record'[v] = record[v]
    BY <1>a, <1>4 DEF TypeOK, Reserve, ReleaseWrite, NextIteration, Goto
  <2>3. UNCHANGED <<ledger, failedVars, operatorVars>>
    BY <1>4 DEF Reserve, ReleaseWrite
  <2>4. SameDiscards /\ SameDeletes
    BY <1>a, <2>2, <2>3 DEF TypeOK, SameDiscards, SameDeletes, operatorVars
  <2> QED
    BY <1>b, <2>1, <2>3, <2>4, SafeSameRows
<1>5. ASSUME NEW w \in Worker, Succeed(w) PROVE EveryJobSafe'
  <2>1. KeepsNotes /\ DOMAIN ledger' = DOMAIN ledger
    BY <1>5, SucceedNotes
  <2>2. Accepted' = Accepted
    BY <2>1 DEF KeepsNotes, Accepted
  <2>3. UNCHANGED <<jobs, failedVars, operatorVars>> /\ SameDiscards /\ SameDeletes
    BY <1>a, <1>5 DEF Succeed, Goto, TypeOK, SameDiscards, SameDeletes, operatorVars
  <2> QED
    BY <2>1, <2>2, <2>3, SafeSameRows
<1>6. ASSUME NEW w \in Worker, Fail(w) \/ HookFails(w) \/ FinishFails(w)
      PROVE  EveryJobSafe'
  <2>1. PICK entry : FailsWith(w, entry)
    BY <1>6, RunFailsWith
  <2>2. /\ KeepsNotes
        /\ DOMAIN ledger' = DOMAIN ledger
        /\ record[w].id \in DOMAIN ledger
        /\ GivesUp(w) => ledger'[record[w].id].givenUp
    BY <2>1, FailsNotes
  <2>3. /\ Accepted' = Accepted
        /\ UNCHANGED <<record, jobs, failedVars, operatorVars>>
        /\ SameDeletes
    BY <2>1, <2>2 DEF FailsWith, Caught, KeepsNotes, Accepted, SameDeletes, operatorVars
  <2>4. PICK at \in {"release", "record", "discard"} :
            /\ pc' = [pc EXCEPT ![w] = at]
            /\ at = "discard" => GivesUp(w) /\ ~TracksFailures
    BY <2>1 DEF FailsWith, Caught, CatchError, Goto
  <2>5. ASSUME NEW p, NEW i \in DOMAIN jobs, jobs[i].payload = p
        PROVE  Discarding(i) \/ KeptRow(i) \/ Safe(p)'
    <3>1. CASE at = "discard" /\ i = record[w].id
      <4>1. ledger'[i].payload = p /\ ledger'[i].givenUp /\ i \in DOMAIN ledger'
        BY <1>a, <2>2, <2>4, <2>5, <3>1 DEF KeepsNotes, Linked
      <4>2. ~TracksFailures /\ GivenUp(p)'
        BY <2>4, <3>1, <4>1 DEF GivenUp
      <4> QED
        BY <4>2 DEF Safe
    <3>2. CASE ~(at = "discard" /\ i = record[w].id)
      BY <1>a, <2>3, <2>4, <3>2 DEF Discarding, KeptRow, TypeOK
    <3> QED
      BY <3>1, <3>2
  <2>6. \A k \in DOMAIN failedJobs : Deleting(k) \/ KeptFailed(k)
    BY <2>3, DeletesFrame DEF failedVars
  <2> QED
    BY <2>2, <2>3, <2>5, <2>6, SafeFrame DEF failedVars
<1>7. ASSUME NEW w \in Worker, PushNext(w) PROVE EveryJobSafe'
  <2>1. /\ pc[w] = "chain" /\ pc' = [pc EXCEPT ![w] = "delete"]
        /\ Insert(Tail(record[w].payload), Serves[w], FALSE)
        /\ UNCHANGED <<record, failedVars, operatorVars>>
    BY <1>7 DEF PushNext, Goto
  <2>2. Tail(record[w].payload) \in Payload
    BY <1>a, <2>1, RestOfChain DEF Linked, RecordLinked, Working, Popped, Chained
  <2>3. SameDiscards /\ \A k : Deleting(k)' => Deleting(k)
    BY <1>a, <2>1 DEF TypeOK, SameDiscards, Deleting, operatorVars
  <2> QED
    BY <2>1, <2>2, <2>3, WorkerAssumption, SafeInsert
<1>8. ASSUME NEW w \in Worker, DeleteJob(w) \/ Discard(w) PROVE EveryJobSafe'
  <2>1. /\ jobs' = DeleteRow(jobs, record[w].id)
        /\ pc' = [pc EXCEPT ![w] = "loop"]
        /\ \A v \in Worker \ {w} : record'[v] = record[v]
        /\ UNCHANGED <<ledger, failedVars, operatorVars>>
    BY <1>a, <1>8 DEF TypeOK, DeleteJob, Discard, NextIteration, Goto
  <2>2. SameDiscards /\ SameDeletes
    BY <1>a, <2>1 DEF TypeOK, SameDiscards, SameDeletes, operatorVars
  <2>3. ASSUME NEW p, NEW i \in DOMAIN jobs, jobs[i].payload = p
        PROVE  Discarding(i) \/ KeptRow(i) \/ Safe(p)'
    <3>1. CASE i # record[w].id
      BY <2>1, <2>2, <3>1, DiscardsFrame DEF DeleteRow
    <3>2. CASE i = record[w].id /\ pc[w] = "discard"
      BY <3>2 DEF Discarding
    <3>3. CASE i = record[w].id /\ pc[w] = "delete"
      <4>1. /\ record[w].id \in DOMAIN ledger
            /\ record[w].payload = ledger[i].payload
            /\ jobs[i].payload = ledger[i].payload
            /\ ledger[i].handled
            /\ Len(record[w].payload) > 1 => Tail(record[w].payload) \in Accepted
        BY <1>a, <3>3 DEF Linked, RecordLinked, Working, Noted, RunNoted, Chained
      <4>2. Completed(p)
        BY <2>3, <3>3, <4>1 DEF Completed, Handled
      <4>3. Safe(p)'
        BY <1>b, <2>1, <4>2, NotesStay DEF Safe
      <4> QED
        BY <4>3
    <3> QED
      BY <1>8, <3>1, <3>2, <3>3 DEF DeleteJob, Discard
  <2>4. \A k \in DOMAIN failedJobs : Deleting(k) \/ KeptFailed(k)
    BY <2>1, <2>2, DeletesFrame DEF failedVars
  <2> QED
    BY <1>b, <2>1, <2>3, <2>4, SafeFrame DEF failedVars
<1>9. ASSUME NEW w \in Worker, RecordFailed(w) PROVE EveryJobSafe'
  <2>1. /\ pc[w] = "record" /\ pc' = [pc EXCEPT ![w] = "discard"]
        /\ failedJobs' = InsertRow(failedJobs, lastFailed + 1,
                                   [queue |-> Serves[w], payload |-> record[w].payload])
        /\ UNCHANGED <<jobs, ledger, record, forgotten, operatorVars>>
    BY <1>9 DEF RecordFailed, Goto
  <2>2. /\ lastFailed \in Nat
        /\ lastFailed + 1 \notin DOMAIN failedJobs
        /\ DOMAIN failedJobs' = DOMAIN failedJobs \cup {lastFailed + 1}
        /\ failedJobs'[lastFailed + 1].payload = record[w].payload
        /\ \A k \in DOMAIN failedJobs : failedJobs'[k] = failedJobs[k]
    BY <1>a, <2>1 DEF TypeOK, InsertRow
  <2>3. PICK k : k = lastFailed + 1
    OBVIOUS
  <2>4. PICK job : job = record[w].payload
    OBVIOUS
  <2>5. \A p : p = job => Safe(p)'
    <3>1. k \in DOMAIN failedJobs' /\ failedJobs'[k].payload = job
      BY <2>2, <2>3, <2>4
    <3>2. ~Deleting(k)'
      <4>1. ASSUME NEW o \in Operator, retrying[o].at = "delete", retrying[o].id = k
            PROVE  FALSE
        BY <1>a, <2>2, <2>3, <4>1 DEF Linked, RetryLinked
      <4> QED
        BY <2>1, <4>1 DEF Deleting, operatorVars
    <3> QED
      BY <3>1, <3>2 DEF Safe, InFailed
  <2>6. ASSUME NEW p, NEW i \in DOMAIN jobs, jobs[i].payload = p
        PROVE  Discarding(i) \/ KeptRow(i) \/ Safe(p)'
    <3>1. CASE i = record[w].id
      <4>1. p = job
        BY <1>a, <2>1, <2>4, <2>6, <3>1 DEF Linked, RecordLinked, Working
      <4> QED
        BY <2>5, <4>1
    <3>2. CASE i # record[w].id
      BY <1>a, <2>1, <3>2 DEF TypeOK, Discarding, KeptRow
    <3> QED
      BY <3>1, <3>2
  <2>7. SameDeletes
    BY <2>1 DEF SameDeletes, operatorVars
  <2>8. \A j \in DOMAIN failedJobs : Deleting(j) \/ KeptFailed(j)
    BY <2>2, <2>7, DeletesFrame
  <2> QED
    BY <1>b, <2>1, <2>6, <2>8, SafeFrame
<1>10. ASSUME NEW o \in Operator, RetryFind(o) \/ RetryFails(o) PROVE EveryJobSafe'
  <2>1. /\ UNCHANGED <<ledger, jobs, failedVars, workerVars>>
        /\ SameDiscards
    BY <1>10 DEF RetryFind, RetryFails, workerVars, SameDiscards
  <2>2. PICK r : r.at # "delete" /\ retrying' = [retrying EXCEPT ![o] = r]
    BY <1>10 DEF RetryFind, RetryFails, NotRetrying
  <2>3. SameDeletes
    BY <1>a, <2>2 DEF TypeOK, SameDeletes
  <2> QED
    BY <1>b, <2>1, <2>3, SafeSameRows
<1>11. ASSUME NEW o \in Operator, RetryPush(o) PROVE EveryJobSafe'
  <2>1. /\ Insert(retrying[o].row.payload, retrying[o].row.queue, FALSE)
        /\ retrying[o].at = "push" /\ retrying' = [retrying EXCEPT ![o].at = "delete"]
        /\ UNCHANGED <<failedVars, workerVars>>
    BY <1>11 DEF RetryPush
  <2>2. retrying[o].row.payload \in Payload /\ retrying[o].row.queue \in Queue
    BY <1>a, <2>1 DEF Linked, RetryLinked, FailedRow
  <2>3. SameDiscards
    BY <2>1 DEF workerVars, SameDiscards
  <2>4. ASSUME NEW k \in DOMAIN failedJobs
        PROVE  \/ Deleting(k) \/ ~Deleting(k)'
               \/ failedJobs[k].payload = retrying[o].row.payload
    <3>1. CASE k = retrying[o].id
      BY <2>1, <3>1 DEF Noted, RetryNoted
    <3>2. CASE k # retrying[o].id
      BY <1>a, <2>1, <3>2 DEF Deleting, TypeOK, Retrying
    <3> QED
      BY <3>1, <3>2
  <2> QED
    BY <2>1, <2>2, <2>3, <2>4, SafeInsert
<1>12. ASSUME NEW o \in Operator, RetryDelete(o) PROVE EveryJobSafe'
  <2>1. /\ retrying[o].at = "delete"
        /\ failedJobs' = DeleteRow(failedJobs, retrying[o].id)
        /\ UNCHANGED <<ledger, jobs, forgotten, workerVars>>
        /\ SameDeletes /\ SameDiscards
    BY <1>a, <1>12 DEF RetryDelete, NotRetrying, TypeOK, SameDeletes, SameDiscards, workerVars
  <2>2. \A i \in DOMAIN jobs : Discarding(i) \/ KeptRow(i)
    BY <2>1, DiscardsFrame
  <2>3. \A k \in DOMAIN failedJobs : Deleting(k) \/ KeptFailed(k)
    BY <2>1, DeletesFrame DEF DeleteRow, Deleting
  <2> QED
    BY <1>b, <2>1, <2>2, <2>3, SafeFrame
<1>13. ASSUME NEW k \in DOMAIN failedJobs, Forget(k) PROVE EveryJobSafe'
  <2>1. /\ failedJobs' = DeleteRow(failedJobs, k)
        /\ forgotten' = forgotten \cup {failedJobs[k].payload}
        /\ UNCHANGED <<ledger, jobs>>
        /\ SameDeletes /\ SameDiscards
    BY <1>13 DEF Forget, SameDeletes, SameDiscards, workerVars, operatorVars
  <2>2. \A i \in DOMAIN jobs : Discarding(i) \/ KeptRow(i)
    BY <2>1, DiscardsFrame
  <2>3. ASSUME NEW p, NEW l \in DOMAIN failedJobs, failedJobs[l].payload = p
        PROVE  Deleting(l) \/ KeptFailed(l) \/ Safe(p)'
    <3>1. CASE l = k
      BY <2>1, <2>3, <3>1 DEF Safe
    <3>2. CASE l # k
      BY <2>1, <3>2, DeletesFrame DEF DeleteRow
    <3> QED
      BY <3>1, <3>2
  <2> QED
    BY <1>b, <2>1, <2>2, <2>3, SafeFrame
<1>14. ASSUME UNCHANGED vars PROVE EveryJobSafe'
  BY <1>b, <1>14, SafeSameRows DEF vars, failedVars, SameDiscards, SameDeletes
<1> QED
  BY <1>1, <1>2, <1>3, <1>4, <1>5, <1>6, <1>7, <1>8, <1>9, <1>10, <1>11, <1>12, <1>13, <1>14
     DEF Next, Produce, WorkerStep, Fault, OperatorStep

\* Whatever fails or dies at whichever statement, and whoever else works on the
\* same row, a job that was pushed stays in one of the tables until it ran and
\* its chain went on, was given up where nobody records that, or was forgotten.
THEOREM NoJobIsLost == Spec => []NoJobLost
<1>1. Init => TypeInv /\ Noted /\ EveryJobSafe
  BY TypeInvInit, NotedInit, SafeInit
<1>2. TypeInv /\ Noted /\ EveryJobSafe /\ [Next]_vars => TypeInv' /\ Noted' /\ EveryJobSafe'
  BY TypeInvStep, NotedStep, SafeStep
<1>3. EveryJobSafe => NoJobLost
  BY DEF EveryJobSafe, Safe, InJobs, InFailed, NoJobLost, Stored, Failed
<1> QED
  BY <1>1, <1>2, <1>3, PTL DEF Spec
-----------------------------------------------------------------------------
(***************************************************************************)
(* Chains run in order.                                                    *)
(***************************************************************************)
NextOf(j, p) == /\ ledger[j].handled
                /\ Len(ledger[j].payload) > 1
                /\ Tail(ledger[j].payload) = p

LEMMA ChainsFrame ==
    ASSUME TypeOK, ChainsRunInOrder, KeepsNotes, DOMAIN ledger' = DOMAIN ledger
    PROVE  ChainsRunInOrder'
<1>1. DOMAIN ledger = 1 .. Len(ledger) /\ Len(ledger) \in Nat
  BY LenProperties DEF TypeOK
<1>2. ASSUME NEW i \in DOMAIN ledger, NEW j \in 1 .. i - 1, NextOf(j, ledger[i].payload)
      PROVE  /\ ledger'[j].handled
             /\ Len(ledger'[j].payload) > 1
             /\ Tail(ledger'[j].payload) = ledger'[i].payload
  <2>1. j \in DOMAIN ledger
    BY <1>1
  <2> QED
    BY <1>2, <2>1 DEF KeepsNotes, NextOf
<1> QED
  BY <1>2 DEF ChainsRunInOrder, KeepsNotes, NextOf

\* A payload enters the ledger when it is dispatched or comes next in a chain.
LEMMA ChainsInsert ==
    ASSUME TypeOK, ChainsRunInOrder, NEW payload \in Payload, NEW queue \in Queue,
           NEW delayed \in BOOLEAN, Insert(payload, queue, delayed),
           payload \in Dispatches \/ \E j \in DOMAIN ledger : NextOf(j, payload)
    PROVE  ChainsRunInOrder'
<1>1. DOMAIN ledger = 1 .. Len(ledger) /\ Len(ledger) \in Nat
  BY LenProperties DEF TypeOK
<1>2. KeepsNotes
  BY InsertNotes
<1>3. DOMAIN ledger' = DOMAIN ledger \cup {Len(ledger) + 1}
  BY InsertNotes
<1>4. ledger'[Len(ledger) + 1].payload = payload
  BY InsertNotes
<1>5. ASSUME NEW i \in DOMAIN ledger', NEW j \in DOMAIN ledger, j < i,
             NextOf(j, ledger'[i].payload)
      PROVE  \E k \in 1 .. i - 1 : /\ ledger'[k].handled
                                   /\ Len(ledger'[k].payload) > 1
                                   /\ Tail(ledger'[k].payload) = ledger'[i].payload
  <2>1. j \in 1 .. i - 1
    BY <1>1, <1>3, <1>5
  <2>2. /\ ledger'[j].handled
        /\ Len(ledger'[j].payload) > 1
        /\ Tail(ledger'[j].payload) = ledger'[i].payload
    BY <1>2, <1>5 DEF KeepsNotes, NextOf
  <2> QED
    BY <2>1, <2>2
<1>6. ASSUME NEW i \in DOMAIN ledger'
      PROVE  \/ ledger'[i].payload \in Dispatches
             \/ \E j \in DOMAIN ledger : j < i /\ NextOf(j, ledger'[i].payload)
  <2>1. CASE i \in DOMAIN ledger
    <3>1. ledger'[i].payload = ledger[i].payload
      BY <1>2, <2>1 DEF KeepsNotes
    <3>2. \A j \in 1 .. i - 1 : j \in DOMAIN ledger /\ j < i
      BY <1>1, <2>1
    <3> QED
      BY <2>1, <3>1, <3>2 DEF ChainsRunInOrder, NextOf
  <2>2. CASE i = Len(ledger) + 1
    <3>1. \A j \in DOMAIN ledger : j < i
      BY <1>1, <2>2
    <3> QED
      BY <1>4, <2>2, <3>1
  <2> QED
    BY <1>3, <2>1, <2>2
<1> QED
  BY <1>5, <1>6 DEF ChainsRunInOrder

LEMMA ChainsStep == TypeInv /\ Noted /\ ChainsRunInOrder /\ [Next]_vars => ChainsRunInOrder'
<1> SUFFICES ASSUME TypeInv, Noted, ChainsRunInOrder, [Next]_vars
             PROVE  ChainsRunInOrder'
  OBVIOUS
<1>a. TypeOK /\ Linked
  BY DEF TypeInv
<1>b. ASSUME UNCHANGED ledger PROVE ChainsRunInOrder'
  BY <1>b DEF ChainsRunInOrder
<1>1. ASSUME NEW p \in Dispatches, NEW q \in Queue,
             Dispatch(p, q) \/ DispatchLater(p, q)
      PROVE  ChainsRunInOrder'
  <2>1. PICK delayed \in BOOLEAN : Insert(p, q, delayed)
    BY <1>1 DEF Dispatch, DispatchLater
  <2> QED
    BY <1>a, <2>1, PayloadAssumption, ChainsInsert
<1>2. ASSUME NEW w \in Worker, PushNext(w) PROVE ChainsRunInOrder'
  <2>1. /\ pc[w] = "chain"
        /\ Insert(Tail(record[w].payload), Serves[w], FALSE)
    BY <1>2 DEF PushNext
  <2>2. /\ record[w].id \in DOMAIN ledger
        /\ record[w].payload \in Payload /\ Len(record[w].payload) > 1
        /\ record[w].payload = ledger[record[w].id].payload
        /\ ledger[record[w].id].handled
    BY <1>a, <2>1 DEF Linked, RecordLinked, Working, Popped, Chained, Noted, RunNoted
  <2>3. Tail(record[w].payload) \in Payload
    BY <2>2, RestOfChain
  <2>4. NextOf(record[w].id, Tail(record[w].payload))
    BY <2>2 DEF NextOf
  <2> QED
    BY <1>a, <2>1, <2>2, <2>3, <2>4, WorkerAssumption, ChainsInsert
<1>3. ASSUME NEW o \in Operator, RetryPush(o) PROVE ChainsRunInOrder'
  <2>1. PICK p \in Payload, q \in Queue :
            p = retrying[o].row.payload /\ q = retrying[o].row.queue
    BY <1>a, <1>3 DEF RetryPush, Linked, RetryLinked, FailedRow
  <2>2. Insert(p, q, FALSE)
    BY <1>3, <2>1 DEF RetryPush
  <2>3. PICK i \in DOMAIN ledger : ledger[i].payload = p
    BY <1>3, <2>1 DEF RetryPush, Noted, RetryNoted, GivenUp
  <2>4. DOMAIN ledger = 1 .. Len(ledger) /\ Len(ledger) \in Nat
    BY <1>a, LenProperties DEF TypeOK
  <2>5. \A j \in 1 .. i - 1 : j \in DOMAIN ledger
    BY <2>4
  <2>6. p \in Dispatches \/ \E j \in DOMAIN ledger : NextOf(j, p)
    BY <2>3, <2>5 DEF ChainsRunInOrder, NextOf
  <2> QED
    BY <1>a, <2>2, <2>6, ChainsInsert
<1>4. ASSUME NEW w \in Worker, Succeed(w) PROVE ChainsRunInOrder'
  BY <1>a, <1>4, SucceedNotes, ChainsFrame
<1>5. ASSUME NEW w \in Worker, Fail(w) \/ HookFails(w) \/ FinishFails(w)
      PROVE  ChainsRunInOrder'
  <2>1. PICK entry : FailsWith(w, entry)
    BY <1>5, RunFailsWith
  <2> QED
    BY <1>a, <2>1, FailsNotes, ChainsFrame
<1>6. ASSUME NEW w \in Worker,
             \/ Start(w) \/ Exit(w) \/ Select(w) \/ SelectNothing(w) \/ Wake(w)
             \/ Reserve(w) \/ DeleteJob(w) \/ RecordFailed(w) \/ Discard(w)
             \/ ReleaseNothing(w) \/ ReleaseRead(w) \/ ReleaseWrite(w)
             \/ Signal(w) \/ Crash(w) \/ PopFails(w) \/ CatchFails(w)
      PROVE  ChainsRunInOrder'
  BY <1>6, <1>b DEF Start, Exit, Select, SelectNothing, Wake, Reserve, DeleteJob,
     RecordFailed, Discard, ReleaseNothing, ReleaseRead, ReleaseWrite, Signal, Crash,
     PopFails, CatchFails
<1>7. ASSUME NEW i \in DOMAIN jobs, Elapse(i) PROVE ChainsRunInOrder'
  BY <1>7, <1>b DEF Elapse
<1>8. ASSUME NEW o \in Operator, RetryFind(o) \/ RetryDelete(o) \/ RetryFails(o)
      PROVE  ChainsRunInOrder'
  BY <1>8, <1>b DEF RetryFind, RetryDelete, RetryFails
<1>9. ASSUME NEW k \in DOMAIN failedJobs, Forget(k) PROVE ChainsRunInOrder'
  BY <1>9, <1>b DEF Forget
<1>10. ASSUME UNCHANGED vars PROVE ChainsRunInOrder'
  BY <1>10, <1>b DEF vars
<1> QED
  BY <1>1, <1>2, <1>3, <1>4, <1>5, <1>6, <1>7, <1>8, <1>9, <1>10
     DEF Next, Produce, WorkerStep, Fault, OperatorStep

\* Retries push a chain's rest again and workers pop it in any order; still
\* each row that is not a dispatch follows the row of a job that ran before it.
THEOREM ChainsKeepTheirOrder == Spec => []ChainsRunInOrder
<1>1. Init => TypeInv /\ Noted /\ ChainsRunInOrder
  BY TypeInvInit, NotedInit DEF Init, ChainsRunInOrder
<1>2. TypeInv /\ Noted /\ ChainsRunInOrder /\ [Next]_vars
        => TypeInv' /\ Noted' /\ ChainsRunInOrder'
  BY TypeInvStep, NotedStep, ChainsStep
<1> QED
  BY <1>1, <1>2, PTL DEF Spec
-----------------------------------------------------------------------------
(***************************************************************************)
(* The refinement of JobQueue: every statement is one of its steps or none. *)
(***************************************************************************)
QueueStep == [Promised!QueueNext]_(Promised!queueVars)

LEMMA QueueStutters ==
    ASSUME UNCHANGED ledger, DOMAIN jobs' = DOMAIN jobs
    PROVE  QueueStep
BY DEF QueueStep, Promised!queueVars

\* The ledger is a table of entries whose ids are 1, 2, ...
LEMMA LedgerIsATable ==
    ASSUME ledger \in Seq(Entry), NEW e \in Entry
    PROVE  /\ Len(ledger) + 1 \notin DOMAIN ledger
           /\ Append(ledger, e) = Promised!InsertRow(ledger, Len(ledger) + 1, e)
<1>1. DOMAIN ledger = 1 .. Len(ledger) /\ Len(ledger) \in Nat
  BY LenProperties
<1>2. PICK longer : longer = Append(ledger, e)
  OBVIOUS
<1>3. /\ longer \in Seq(Entry) /\ Len(longer) = Len(ledger) + 1
      /\ \A i \in 1 .. Len(ledger) : longer[i] = ledger[i]
      /\ longer[Len(ledger) + 1] = e
  BY <1>2, AppendProperties
<1>4. longer = [i \in DOMAIN longer |-> longer[i]] /\ DOMAIN longer = 1 .. Len(ledger) + 1
  BY <1>3, LenProperties
<1>5. DOMAIN longer = DOMAIN ledger \cup {Len(ledger) + 1}
  BY <1>1, <1>4
<1> QED
  BY <1>1, <1>2, <1>3, <1>4, <1>5 DEF Promised!InsertRow

LEMMA QueuePushes ==
    ASSUME TypeOK, NEW payload \in Payload, NEW queue \in Queue, NEW delayed \in BOOLEAN,
           Insert(payload, queue, delayed), Promised!MayBePushed(payload)
    PROVE  QueueStep
<1>1. PICK i : i = Len(ledger) + 1
  OBVIOUS
<1>2. PICK e \in Entry : e = Promised!Fresh(payload)
  <2>1. Promised!Fresh(payload) \in Entry
    BY DEF Promised!Fresh, Entry
  <2> QED
    BY <2>1
<1>3. /\ i \notin DOMAIN ledger
      /\ ledger' = Promised!InsertRow(ledger, i, Promised!Fresh(payload))
  <2>1. ledger' = Append(ledger, e)
    BY <1>2 DEF Insert, Promised!Fresh
  <2> QED
    BY <1>1, <1>2, <2>1, LedgerIsATable DEF TypeOK
<1>4. DOMAIN jobs' = DOMAIN jobs \cup {i}
  BY <1>1, InsertNotes
<1>5. Promised!PushEntry(i, payload)
  BY <1>3, <1>4 DEF Promised!PushEntry
<1>6. i \in DOMAIN ledger' /\ ledger'[i].payload = payload
  BY <1>3 DEF Promised!InsertRow, Promised!Fresh
<1> QED
  BY <1>5, <1>6 DEF QueueStep, Promised!QueueNext

LEMMA QueueLeft ==
    ASSUME TypeOK, NEW i \in DOMAIN ledger, jobs' = DeleteRow(jobs, i), UNCHANGED ledger,
           (ledger[i].handled /\ Promised!RestIsPushed(i)) \/ ledger[i].givenUp
    PROVE  QueueStep
<1>1. CASE i \in DOMAIN jobs
  <2>1. DOMAIN jobs' = DOMAIN jobs \ {i}
    BY DEF DeleteRow
  <2>2. Promised!LeaveQueue(i)
    BY <1>1, <2>1 DEF Promised!LeaveQueue, Promised!Finished
  <2> QED
    BY <2>2 DEF QueueStep, Promised!QueueNext
<1>2. CASE i \notin DOMAIN jobs
  BY <1>2, QueueStutters DEF DeleteRow
<1> QED
  BY <1>1, <1>2

\* What JobQueue does to an entry is what the loop's catch does to it.
LEMMA FailedEntries ==
    ASSUME NEW old \in Entry, NEW g \in BOOLEAN
    PROVE  /\ FailedEntry(old, g) = Promised!FailedRun(old, FALSE, g)
           /\ FailedEntry([old EXCEPT !.handled = TRUE], g) = Promised!FailedRun(old, TRUE, g)
<1> DEFINE Marked(a, b) == [old EXCEPT !.failures = @ + 1, !.handled = a, !.givenUp = b]
<1>1. /\ old.handled \in BOOLEAN /\ old.givenUp \in BOOLEAN
      /\ g => Marked(old.handled, TRUE) = FailedEntry(old, g)
      /\ ~g => Marked(old.handled, old.givenUp) = FailedEntry(old, g)
      /\ g => Marked(TRUE, TRUE) = FailedEntry([old EXCEPT !.handled = TRUE], g)
      /\ ~g => Marked(TRUE, old.givenUp) = FailedEntry([old EXCEPT !.handled = TRUE], g)
  <2>1. old.handled \in BOOLEAN /\ old.givenUp \in BOOLEAN
    BY DEF Entry
  <2>2. CASE g
    <3>1. Marked(old.handled, TRUE) = [old EXCEPT !.failures = @ + 1, !.givenUp = TRUE]
      BY DEF Entry
    <3>2. Marked(TRUE, TRUE) = [[old EXCEPT !.handled = TRUE]
                                    EXCEPT !.failures = @ + 1, !.givenUp = TRUE]
      BY DEF Entry
    <3> QED
      BY <2>1, <2>2, <3>1, <3>2 DEF FailedEntry
  <2>3. CASE ~g
    <3>1. Marked(old.handled, old.givenUp) = [old EXCEPT !.failures = @ + 1]
      BY DEF Entry
    <3>2. Marked(TRUE, old.givenUp) = [[old EXCEPT !.handled = TRUE] EXCEPT !.failures = @ + 1]
      BY DEF Entry
    <3> QED
      BY <2>1, <2>3, <3>1, <3>2 DEF FailedEntry
  <2> QED
    BY <2>1, <2>2, <2>3
<1>2. \A s \in BOOLEAN : Promised!FailedRun(old, s, g) = Marked(old.handled \/ s, old.givenUp \/ g)
  BY Zenon DEF Promised!FailedRun
<1> HIDE DEF Marked
<1>3. (old.handled \/ FALSE) = old.handled /\ (old.handled \/ TRUE) = TRUE
  BY <1>1, Zenon
<1>4. (g => (old.givenUp \/ g) = TRUE) /\ (~g => (old.givenUp \/ g) = old.givenUp)
  BY <1>1, Zenon
<1> QED
  BY <1>1, <1>2, <1>3, <1>4, Zenon

LEMMA QueueRunFails ==
    ASSUME TypeInv, AttemptsEarned, NEW w \in Worker, Fail(w) \/ HookFails(w) \/ FinishFails(w)
    PROVE  QueueStep
<1>1. /\ pc[w] \in {"run", "chain", "delete"}
      /\ TypeOK /\ record[w].id \in DOMAIN ledger /\ record[w].attempts \in Nat
      /\ Earned(record[w].id, record[w].attempts)
  BY DEF Fail, HookFails, FinishFails, TypeInv, Linked, RecordLinked, Working, Popped,
     AttemptsEarned
<1>2. PICK r \in DOMAIN ledger : r = record[w].id
  BY <1>1
<1>3. PICK old \in Entry : old = ledger[r]
  BY <1>1, ElementOfSeq, LenProperties DEF TypeOK
<1>4. PICK g \in BOOLEAN : g <=> GivesUp(w)
  BY Zenon
<1>5. FailedEntry(old, GivesUp(w)) = FailedEntry(old, g)
  BY <1>4 DEF FailedEntry
<1>6. FailedEntry([old EXCEPT !.handled = TRUE], GivesUp(w))
        = FailedEntry([old EXCEPT !.handled = TRUE], g)
  BY <1>4 DEF FailedEntry
<1>7. /\ UNCHANGED jobs
      /\ \/ ledger' = [ledger EXCEPT ![r] = FailedEntry(old, GivesUp(w))]
         \/ ledger' = [ledger EXCEPT ![r] =
                           FailedEntry([old EXCEPT !.handled = TRUE], GivesUp(w))]
  BY <1>2, <1>3 DEF Fail, HookFails, FinishFails, Caught
<1>8. PICK s \in BOOLEAN : ledger' = [ledger EXCEPT ![r] = Promised!FailedRun(old, s, g)]
  BY <1>5, <1>6, <1>7, FailedEntries, Zenon
<1>9. g => ledger[r].failures + 1 >= MaxAttempts
  <2>1. ledger[r].failures \in Nat /\ record[w].attempts <= ledger[r].failures
    BY <1>1, <1>2, FailuresType, ReleasingFinite DEF Earned
  <2>2. GivesUp(w) => ledger[r].failures + 1 >= MaxAttempts
    BY <1>1, <2>1, LimitAssumption DEF GivesUp
  <2> QED
    BY <1>4, <2>2, Zenon
<1>10. Promised!RunFails(r, s, g)
  BY <1>3, <1>7, <1>8, <1>9, Zenon DEF Promised!RunFails
<1> QED
  BY <1>10, Zenon DEF QueueStep, Promised!QueueNext

LEMMA QueueRefined ==
    TypeInv /\ Noted /\ AttemptsEarned /\ [Next]_vars => QueueStep
<1> SUFFICES ASSUME TypeInv, Noted, AttemptsEarned, [Next]_vars PROVE QueueStep
  OBVIOUS
<1>a. TypeOK /\ Linked
  BY DEF TypeInv
<1>b. ASSUME UNCHANGED <<jobs, ledger>> PROVE QueueStep
  BY <1>b, QueueStutters
<1>1. ASSUME NEW p \in Dispatches, NEW q \in Queue,
             Dispatch(p, q) \/ DispatchLater(p, q)
      PROVE  QueueStep
  <2>1. PICK delayed \in BOOLEAN : Insert(p, q, delayed)
    BY <1>1 DEF Dispatch, DispatchLater
  <2>2. Promised!MayBePushed(p)
    BY DEF Promised!MayBePushed
  <2> QED
    BY <1>a, <2>1, <2>2, PayloadAssumption, QueuePushes
<1>2. ASSUME NEW w \in Worker, PushNext(w) PROVE QueueStep
  <2>1. /\ pc[w] = "chain"
        /\ Insert(Tail(record[w].payload), Serves[w], FALSE)
    BY <1>2 DEF PushNext
  <2>2. /\ record[w].id \in DOMAIN ledger
        /\ record[w].payload \in Payload /\ Len(record[w].payload) > 1
        /\ record[w].payload = ledger[record[w].id].payload
        /\ ledger[record[w].id].handled
    BY <1>a, <2>1 DEF Linked, RecordLinked, Working, Popped, Chained, Noted, RunNoted
  <2>3. Tail(record[w].payload) \in Payload
    BY <2>2, RestOfChain
  <2>4. Promised!MayBePushed(Tail(record[w].payload))
    BY <2>2 DEF Promised!MayBePushed
  <2> QED
    BY <1>a, <2>1, <2>3, <2>4, WorkerAssumption, QueuePushes
<1>3. ASSUME NEW o \in Operator, RetryPush(o) PROVE QueueStep
  <2>1. PICK p \in Payload, q \in Queue :
            p = retrying[o].row.payload /\ q = retrying[o].row.queue
    BY <1>a, <1>3 DEF RetryPush, Linked, RetryLinked, FailedRow
  <2>2. Insert(p, q, FALSE)
    BY <1>3, <2>1 DEF RetryPush
  <2>3. GivenUp(p)
    BY <1>3, <2>1 DEF RetryPush, Noted, RetryNoted
  <2>4. Promised!MayBePushed(p)
    BY <2>3 DEF GivenUp, Promised!MayBePushed
  <2> QED
    BY <1>a, <2>2, <2>4, QueuePushes
<1>4. ASSUME NEW w \in Worker, Succeed(w) PROVE QueueStep
  <2>1. /\ record[w].id \in DOMAIN ledger
        /\ ledger' = [ledger EXCEPT ![record[w].id].handled = TRUE]
        /\ UNCHANGED jobs
    BY <1>a, <1>4 DEF Succeed, Linked, RecordLinked, Working
  <2>2. Promised!RunSucceeds(record[w].id)
    BY <2>1 DEF Promised!RunSucceeds
  <2> QED
    BY <2>1, <2>2 DEF QueueStep, Promised!QueueNext
<1>5. ASSUME NEW w \in Worker, Fail(w) \/ HookFails(w) \/ FinishFails(w) PROVE QueueStep
  BY <1>5, QueueRunFails
<1>6. ASSUME NEW w \in Worker, DeleteJob(w) \/ Discard(w) PROVE QueueStep
  <2>1. /\ pc[w] \in {"delete", "discard"}
        /\ jobs' = DeleteRow(jobs, record[w].id) /\ UNCHANGED ledger
    BY <1>6 DEF DeleteJob, Discard
  <2>2. /\ record[w].id \in DOMAIN ledger
        /\ record[w].payload = ledger[record[w].id].payload
    BY <1>a, <2>1 DEF Linked, RecordLinked, Working
  <2>3. CASE pc[w] = "delete"
    <3>1. /\ ledger[record[w].id].handled
          /\ Len(record[w].payload) > 1 => Tail(record[w].payload) \in Accepted
      BY <2>3 DEF Noted, RunNoted, Chained
    <3>2. Promised!RestIsPushed(record[w].id)
      BY <2>2, <3>1 DEF Promised!RestIsPushed, Accepted
    <3> QED
      BY <1>a, <2>1, <2>2, <3>1, <3>2, QueueLeft
  <2>4. CASE pc[w] = "discard"
    <3>1. ledger[record[w].id].givenUp
      BY <2>4 DEF Noted, RunNoted
    <3> QED
      BY <1>a, <2>1, <2>2, <3>1, QueueLeft
  <2> QED
    BY <2>1, <2>3, <2>4
<1>7. ASSUME NEW w \in Worker,
             \/ Start(w) \/ Exit(w) \/ Select(w) \/ SelectNothing(w) \/ Wake(w)
             \/ RecordFailed(w) \/ ReleaseNothing(w) \/ ReleaseRead(w)
             \/ Signal(w) \/ Crash(w) \/ PopFails(w) \/ CatchFails(w)
      PROVE  QueueStep
  BY <1>7, <1>b DEF Start, Exit, Select, SelectNothing, Wake, RecordFailed,
     ReleaseNothing, ReleaseRead, Signal, Crash, PopFails, CatchFails
<1>8. ASSUME NEW w \in Worker, Reserve(w) \/ ReleaseWrite(w) PROVE QueueStep
  BY <1>8, QueueStutters DEF Reserve, ReleaseWrite, UpdateRow
<1>9. ASSUME NEW i \in DOMAIN jobs, Elapse(i) PROVE QueueStep
  BY <1>9, QueueStutters DEF Elapse
<1>10. ASSUME NEW o \in Operator, RetryFind(o) \/ RetryDelete(o) \/ RetryFails(o)
       PROVE  QueueStep
  BY <1>10, <1>b DEF RetryFind, RetryDelete, RetryFails
<1>11. ASSUME NEW k \in DOMAIN failedJobs, Forget(k) PROVE QueueStep
  BY <1>11, <1>b DEF Forget
<1>12. ASSUME UNCHANGED vars PROVE QueueStep
  BY <1>12, <1>b DEF vars
<1> QED
  BY <1>1, <1>2, <1>3, <1>4, <1>5, <1>6, <1>7, <1>8, <1>9, <1>10, <1>11, <1>12
     DEF Next, Produce, WorkerStep, Fault, OperatorStep

\* Under every combination of faults the jobs table, with two workers on a row
\* and operators retrying, is a queue: each statement maps to one step of
\* JobQueue or to none.
THEOREM TheTableIsAQueue == Spec => ImplementsQueue
<1>1. Init => Promised!QueueInit
  BY DEF Init, EmptyTable, Promised!EmptyTable, Promised!QueueInit
<1>2. Init => TypeInv /\ Noted /\ AttemptsEarned
  BY TypeInvInit, NotedInit, AttemptsEarnedInit
<1>3. TypeInv /\ [Next]_vars => TypeInv'
  BY TypeInvStep
<1>4. TypeInv /\ Noted /\ [Next]_vars => Noted'
  BY NotedStep
<1>5. TypeInv /\ TypeInv' /\ AttemptsEarned /\ [Next]_vars => AttemptsEarned'
  BY EarnedStep
<1>6. TypeInv /\ Noted /\ AttemptsEarned /\ [Next]_vars
        => [Promised!QueueNext]_(Promised!queueVars)
  BY QueueRefined DEF QueueStep
<1> QED
  BY <1>1, <1>2, <1>3, <1>4, <1>5, <1>6, PTL DEF Spec, ImplementsQueue, Promised!QueueSpec
-----------------------------------------------------------------------------
(***************************************************************************)
(* Rows of workers that died.                                              *)
(***************************************************************************)
LEMMA OrphanFrame ==
    ASSUME NEW i \in DOMAIN jobs, Orphaned(i), i \in DOMAIN jobs',
           jobs'[i].reserved = jobs[i].reserved,
           \A w \in Worker : \/ record'[w] = record[w]
                             \/ record'[w] = None
                             \/ record'[w].id # i
    PROVE  i \in DOMAIN jobs' /\ Orphaned(i)'
BY DEF Orphaned

LEMMA OrphanStep ==
    TypeInv /\ [Next]_vars
        => \A i \in DOMAIN jobs : Orphaned(i) => i \in DOMAIN jobs' /\ Orphaned(i)'
<1> SUFFICES ASSUME TypeInv, [Next]_vars, NEW i \in DOMAIN jobs, Orphaned(i)
             PROVE  i \in DOMAIN jobs' /\ Orphaned(i)'
  OBVIOUS
<1>a. TypeOK /\ Linked /\ jobs[i].reserved
  BY DEF TypeInv, Orphaned
<1>b. ASSUME NEW w \in Worker, pc[w] \in Working \cup {"reserve"}
      PROVE  record[w].id # i
  BY <1>a, <1>b, NoneAssumption DEF Linked, RecordLinked, Orphaned
<1>c. ASSUME UNCHANGED <<jobs, record>> PROVE i \in DOMAIN jobs' /\ Orphaned(i)'
  BY <1>c DEF Orphaned
<1>1. ASSUME NEW payload \in Payload, NEW queue \in Queue, NEW delayed \in BOOLEAN,
             Insert(payload, queue, delayed), UNCHANGED record
      PROVE  i \in DOMAIN jobs' /\ Orphaned(i)'
  <2>1. DOMAIN jobs' = DOMAIN jobs \cup {Len(ledger) + 1}
    BY <1>a, <1>1, InsertNotes
  <2>2. \A j \in DOMAIN jobs : jobs'[j] = jobs[j]
    BY <1>a, <1>1, InsertNotes
  <2> QED
    BY <1>1, <2>1, <2>2, OrphanFrame
<1>2. ASSUME NEW p \in Dispatches, NEW q \in Queue,
             Dispatch(p, q) \/ DispatchLater(p, q)
      PROVE  i \in DOMAIN jobs' /\ Orphaned(i)'
  <2>1. PICK delayed \in BOOLEAN : Insert(p, q, delayed)
    BY <1>2 DEF Dispatch, DispatchLater
  <2> QED
    BY <1>1, <1>2, <2>1, PayloadAssumption DEF Dispatch, DispatchLater, workerVars
<1>3. ASSUME NEW w \in Worker, PushNext(w) PROVE i \in DOMAIN jobs' /\ Orphaned(i)'
  <2>1. /\ pc[w] = "chain" /\ UNCHANGED record
        /\ Insert(Tail(record[w].payload), Serves[w], FALSE)
    BY <1>3 DEF PushNext
  <2>2. Tail(record[w].payload) \in Payload
    BY <1>a, <2>1, RestOfChain DEF Linked, RecordLinked, Working, Popped, Chained
  <2> QED
    BY <1>1, <2>1, <2>2, WorkerAssumption
<1>4. ASSUME NEW o \in Operator, RetryPush(o) PROVE i \in DOMAIN jobs' /\ Orphaned(i)'
  <2>1. /\ retrying[o].row \in FailedRow /\ UNCHANGED record
        /\ Insert(retrying[o].row.payload, retrying[o].row.queue, FALSE)
    BY <1>a, <1>4 DEF RetryPush, Linked, RetryLinked, workerVars
  <2> QED
    BY <1>1, <2>1 DEF FailedRow
<1>5. ASSUME NEW j \in DOMAIN jobs, Elapse(j) PROVE i \in DOMAIN jobs' /\ Orphaned(i)'
  <2>1. UNCHANGED record /\ jobs' = [jobs EXCEPT ![j].delayed = FALSE]
    BY <1>5 DEF Elapse, workerVars
  <2>2. i \in DOMAIN jobs' /\ jobs'[i].reserved = jobs[i].reserved
    BY <1>a, <2>1 DEF TypeOK, Row
  <2> QED
    BY <2>1, <2>2, OrphanFrame
<1>6. ASSUME NEW w \in Worker, Select(w) PROVE i \in DOMAIN jobs' /\ Orphaned(i)'
  <2>1. PICK j \in Available(w) :
            record' = [record EXCEPT ![w] = [id |-> j, queue |-> jobs[j].queue,
                                             payload |-> jobs[j].payload,
                                             attempts |-> jobs[j].attempts]]
    BY <1>6 DEF Select
  <2>2. j # i
    BY <1>a, <2>1 DEF Available
  <2>3. \A v \in Worker : record'[v] = record[v] \/ record'[v].id # i
    BY <1>a, <2>1, <2>2 DEF TypeOK
  <2>4. UNCHANGED jobs
    BY <1>6 DEF Select
  <2> QED
    BY <2>3, <2>4, OrphanFrame
<1>7. ASSUME NEW w \in Worker, Reserve(w) \/ ReleaseWrite(w) \/ DeleteJob(w) \/ Discard(w)
      PROVE  i \in DOMAIN jobs' /\ Orphaned(i)'
  <2>1. record[w].id # i
    BY <1>b, <1>7 DEF Reserve, ReleaseWrite, DeleteJob, Discard, Working
  <2>2. i \in DOMAIN jobs' /\ jobs'[i] = jobs[i]
    BY <1>7, <2>1 DEF Reserve, ReleaseWrite, DeleteJob, Discard, UpdateRow, DeleteRow
  <2>3. \A v \in Worker : record'[v] = record[v] \/ record'[v] = None
    BY <1>a, <1>7 DEF Reserve, ReleaseWrite, DeleteJob, Discard, NextIteration, TypeOK
  <2> QED
    BY <2>2, <2>3, OrphanFrame
<1>8. ASSUME NEW w \in Worker,
             \/ Start(w) \/ Exit(w) \/ SelectNothing(w) \/ Wake(w) \/ Succeed(w) \/ Fail(w)
             \/ RecordFailed(w) \/ ReleaseNothing(w) \/ ReleaseRead(w) \/ HookFails(w)
             \/ Signal(w) \/ Crash(w) \/ PopFails(w) \/ FinishFails(w) \/ CatchFails(w)
      PROVE  i \in DOMAIN jobs' /\ Orphaned(i)'
  <2>1. UNCHANGED jobs
    BY <1>8 DEF Start, Exit, SelectNothing, Wake, Succeed, Fail, RecordFailed,
       ReleaseNothing, ReleaseRead, HookFails, Signal, Crash, PopFails, FinishFails,
       CatchFails, Caught
  <2>2. record' = record \/ record' = [record EXCEPT ![w] = None]
    BY <1>8 DEF Start, Exit, SelectNothing, Wake, Succeed, Fail, RecordFailed,
       ReleaseNothing, ReleaseRead, HookFails, Signal, Crash, PopFails, FinishFails,
       CatchFails, Caught, Stop, NextIteration
  <2>3. \A v \in Worker : record'[v] = record[v] \/ record'[v] = None
    BY <1>a, <2>2 DEF TypeOK
  <2> QED
    BY <2>1, <2>3, OrphanFrame
<1>9. ASSUME NEW o \in Operator, RetryFind(o) \/ RetryDelete(o) \/ RetryFails(o)
      PROVE  i \in DOMAIN jobs' /\ Orphaned(i)'
  BY <1>9, <1>c DEF RetryFind, RetryDelete, RetryFails, workerVars
<1>10. ASSUME NEW k \in DOMAIN failedJobs, Forget(k)
       PROVE  i \in DOMAIN jobs' /\ Orphaned(i)'
  BY <1>10, <1>c DEF Forget, workerVars
<1>11. ASSUME UNCHANGED vars PROVE i \in DOMAIN jobs' /\ Orphaned(i)'
  BY <1>11, <1>c DEF vars
<1> QED
  BY <1>2, <1>3, <1>4, <1>5, <1>6, <1>7, <1>8, <1>9, <1>10, <1>11
     DEF Next, Produce, WorkerStep, Fault, OperatorStep

\* A reserved row whose worker died is never popped, released nor deleted
\* again: nothing in the driver hands it to another worker.
THEOREM OrphansRemain == Spec => OrphansStay
<1>1. Init => TypeInv
  BY TypeInvInit
<1>2. TypeInv /\ [Next]_vars => TypeInv'
  BY TypeInvStep
<1>3. TypeInv /\ [Next]_vars
        => [\A i \in DOMAIN jobs : Orphaned(i) => i \in DOMAIN jobs' /\ Orphaned(i)']_vars
  BY OrphanStep
<1> QED
  BY <1>1, <1>2, <1>3, PTL DEF Spec, OrphansStay
-----------------------------------------------------------------------------
(***************************************************************************)
(* Workers one at a time (module MCDatabaseQueue): whoever pops a row has  *)
(* it for itself, so what it counts is what the table says.                *)
(***************************************************************************)
\* A row in the table has an attempt left; one that may be popped has its
\* failed runs counted, and whoever ran it with success failed it afterwards.
RowsCount ==
    \A i \in DOMAIN jobs :
        /\ jobs[i].attempts < MaxAttempts
        /\ ~jobs[i].reserved => /\ ledger[i].failures <= jobs[i].attempts
                                /\ ledger[i].handled => ledger[i].failures > 0

RunsCount == \A i \in DOMAIN ledger : ledger[i].failures <= MaxAttempts

OneAtATime ==
    \A v, w \in Worker : pc[v] # "stopped" /\ pc[w] # "stopped" => v = w

\* The one worker has the row as it is in the table.
HoldsRow(w) ==
    pc[w] \in Working \cup {"reserve"} =>
        /\ record[w].id \in DOMAIN jobs
        /\ record[w].attempts = jobs[record[w].id].attempts
        /\ jobs[record[w].id].reserved <=> pc[w] # "reserve"
        /\ pc[w] \in {"run", "chain", "delete"} =>
               ledger[record[w].id].failures <= record[w].attempts
        /\ pc[w] \in {"release", "rewrite"} =>
               /\ ledger[record[w].id].failures > 0
               /\ ledger[record[w].id].failures <= record[w].attempts + 1
               /\ record[w].attempts + 1 < MaxAttempts
        /\ pc[w] = "rewrite" => found[w] = record[w].attempts

AloneSafe == RowsCount /\ RunsCount /\ OneAtATime /\ \A w \in Worker : HoldsRow(w)

\* The others are not running.
AloneActs(w) == \A v \in Worker \ {w} : pc[v] = "stopped" /\ pc'[v] = "stopped"

LEMMA AloneFrame ==
    ASSUME AloneSafe, NEW w \in Worker, AloneActs(w),
           RowsCount', RunsCount', HoldsRow(w)'
    PROVE  AloneSafe'
<1>1. OneAtATime'
  BY DEF OneAtATime, AloneActs
<1>2. \A v \in Worker \ {w} : HoldsRow(v)'
  BY DEF AloneActs, HoldsRow, Working
<1> QED
  BY <1>1, <1>2 DEF AloneSafe

\* Steps that touch neither table nor ledger.
TablesStay == UNCHANGED <<jobs, ledger>>

LEMMA TablesStayCount ==
    ASSUME AloneSafe, TablesStay
    PROVE  RowsCount' /\ RunsCount'
BY DEF AloneSafe, TablesStay, RowsCount, RunsCount

\* A new row has no attempts, a new entry no runs.
LEMMA InsertCounts ==
    ASSUME TypeInv, AloneSafe, NEW payload \in Payload, NEW queue \in Queue,
           NEW delayed \in BOOLEAN, Insert(payload, queue, delayed)
    PROVE  /\ RowsCount' /\ RunsCount'
           /\ \A i \in DOMAIN jobs : i \in DOMAIN jobs' /\ jobs'[i] = jobs[i]
           /\ \A i \in DOMAIN ledger : ledger'[i] = ledger[i]
<1>1. PICK new : new = Len(ledger) + 1
  OBVIOUS
<1>2. /\ DOMAIN ledger' = 1 .. Len(ledger) + 1
      /\ \A i \in DOMAIN ledger : i \in DOMAIN ledger' /\ ledger'[i] = ledger[i]
      /\ ledger'[new] = NewEntry(payload)
      /\ DOMAIN jobs' = DOMAIN jobs \cup {new}
      /\ jobs'[new] = NewRow(payload, queue, delayed)
      /\ \A i \in DOMAIN jobs : jobs'[i] = jobs[i]
  BY <1>1, InsertTypes DEF TypeInv
<1>3. DOMAIN ledger = 1 .. Len(ledger) /\ Len(ledger) \in Nat
      /\ DOMAIN jobs \subseteq DOMAIN ledger
  BY LenProperties DEF TypeInv, TypeOK
<1>4. DOMAIN ledger' = DOMAIN ledger \cup {new}
  BY <1>1, <1>2, <1>3
<1>5. /\ ledger'[new].failures = 0 /\ ledger'[new].handled = FALSE
      /\ jobs'[new].attempts = 0
  BY <1>2 DEF NewEntry, NewRow
<1>6. RowsCount'
  BY <1>2, <1>3, <1>5, LimitAssumption DEF AloneSafe, RowsCount
<1>7. RunsCount'
  <2>1. ledger'[new].failures <= MaxAttempts
    BY <1>5, LimitAssumption
  <2>2. \A i \in DOMAIN ledger : ledger'[i].failures <= MaxAttempts
    BY <1>2 DEF AloneSafe, RunsCount
  <2> QED
    BY <1>4, <2>1, <2>2 DEF RunsCount
<1> QED
  BY <1>2, <1>6, <1>7

\* Whoever pushes, a row that is held stays as it is.
LEMMA InsertAlone ==
    ASSUME TypeInv, AloneSafe, NEW payload \in Payload, NEW queue \in Queue,
           NEW delayed \in BOOLEAN, Insert(payload, queue, delayed),
           UNCHANGED <<record, found>>,
           \A w \in Worker : \/ pc'[w] = pc[w]
                             \/ pc[w] = "chain" /\ pc'[w] = "delete"
    PROVE  AloneSafe'
<1>1. /\ RowsCount' /\ RunsCount'
      /\ \A i \in DOMAIN jobs : i \in DOMAIN jobs' /\ jobs'[i] = jobs[i]
      /\ \A i \in DOMAIN ledger : ledger'[i] = ledger[i]
      /\ DOMAIN jobs \subseteq DOMAIN ledger
  BY InsertCounts DEF TypeInv, TypeOK
<1>2. OneAtATime'
  BY DEF AloneSafe, OneAtATime
<1>3. ASSUME NEW w \in Worker PROVE HoldsRow(w)'
  BY <1>1 DEF AloneSafe, HoldsRow, Working
<1> QED
  BY <1>1, <1>2, <1>3 DEF AloneSafe

LEMMA AloneStarts == Init => AloneSafe
<1> SUFFICES ASSUME Init PROVE AloneSafe
  OBVIOUS
<1>1. DOMAIN jobs = {} /\ DOMAIN ledger = {}
  BY EmptySeq DEF Init, EmptyTable
<1>2. RowsCount /\ RunsCount
  BY <1>1 DEF RowsCount, RunsCount
<1>3. OneAtATime /\ \A w \in Worker : HoldsRow(w)
  BY DEF Init, OneAtATime, HoldsRow, Working
<1> QED
  BY <1>2, <1>3 DEF AloneSafe

\* The row the worker has in hand, with the types arithmetic needs.
LEMMA RowInHand ==
    ASSUME TypeInv, AloneSafe, NEW w \in Worker, pc[w] \in Working \cup {"reserve"}
    PROVE  \E i \in DOMAIN jobs : \E row \in Row, entry \in Entry :
              /\ i = record[w].id /\ row = jobs[i] /\ entry = ledger[i]
              /\ i \in DOMAIN ledger
              /\ record[w].attempts = row.attempts
<1>1. record[w].id \in DOMAIN jobs /\ record[w].attempts = jobs[record[w].id].attempts
  BY DEF AloneSafe, HoldsRow
<1>2. /\ record[w].id \in DOMAIN ledger /\ jobs[record[w].id] \in Row
      /\ ledger[record[w].id] \in Entry
  BY <1>1, ElementOfSeq, LenProperties DEF TypeInv, TypeOK
<1> QED
  BY <1>1, <1>2

LEMMA SelectAlone ==
    ASSUME TypeInv, AloneSafe, NEW w \in Worker, AloneActs(w), Select(w)
    PROVE  AloneSafe'
<1>1. PICK i \in Available(w) :
          record' = [record EXCEPT ![w] = [id |-> i, queue |-> jobs[i].queue,
                                           payload |-> jobs[i].payload,
                                           attempts |-> jobs[i].attempts]]
  BY DEF Select
<1>2. i \in DOMAIN jobs /\ ~jobs[i].reserved
  BY DEF Available
<1>3. record'[w].id = i /\ record'[w].attempts = jobs[i].attempts
  BY <1>1 DEF TypeInv, TypeOK
<1>4. pc'[w] = "reserve" /\ UNCHANGED <<jobs, ledger, found>>
  BY DEF Select, Goto, TypeInv, TypeOK
<1>5. HoldsRow(w)'
  BY <1>2, <1>3, <1>4 DEF HoldsRow, Working
<1>6. RowsCount' /\ RunsCount'
  BY <1>4, TablesStayCount DEF TablesStay
<1> QED
  BY <1>5, <1>6, AloneFrame

LEMMA ReserveAlone ==
    ASSUME TypeInv, AloneSafe, NEW w \in Worker, AloneActs(w), Reserve(w)
    PROVE  AloneSafe'
<1>1. pc[w] = "reserve" /\ pc'[w] = "run" /\ UNCHANGED <<record, found, ledger>>
  BY DEF Reserve, Goto, TypeInv, TypeOK
<1>2. PICK i \in DOMAIN jobs : \E r \in Row, entry \in Entry :
          /\ i = record[w].id /\ r = jobs[i] /\ entry = ledger[i]
          /\ i \in DOMAIN ledger /\ record[w].attempts = r.attempts
  BY <1>1, RowInHand DEF Working
<1>3. PICK r \in Row : r = jobs[i]
  BY <1>2
<1>4. PICK row \in Row : /\ row = [r EXCEPT !.reserved = TRUE]
                         /\ row.reserved = TRUE /\ row.attempts = r.attempts
  <2> DEFINE row == [r EXCEPT !.reserved = TRUE]
  <2>1. row \in Row /\ row.reserved = TRUE /\ row.attempts = r.attempts
    BY DEF Row
  <2> QED
    BY <2>1
<1>5. jobs' = UpdateRow(jobs, i, row)
  BY <1>2, <1>3, <1>4 DEF Reserve
<1>6. DOMAIN jobs' = DOMAIN jobs /\ \A j \in DOMAIN jobs : jobs'[j] = IF j = i THEN row ELSE jobs[j]
  BY <1>5 DEF UpdateRow
<1>7. RowsCount' /\ RunsCount'
  BY <1>1, <1>3, <1>4, <1>6 DEF AloneSafe, RowsCount, RunsCount
<1>8. /\ record[w].attempts = jobs[i].attempts /\ ~jobs[i].reserved
      /\ ledger[i].failures <= jobs[i].attempts
  BY <1>1, <1>2 DEF AloneSafe, HoldsRow, RowsCount, Working
<1>9. HoldsRow(w)'
  BY <1>1, <1>2, <1>3, <1>4, <1>6, <1>8 DEF HoldsRow, Working
<1> QED
  BY <1>7, <1>9, AloneFrame

LEMMA SucceedAlone ==
    ASSUME TypeInv, AloneSafe, NEW w \in Worker, AloneActs(w), Succeed(w)
    PROVE  AloneSafe'
<1>1. /\ pc[w] = "run" /\ pc'[w] \in {"chain", "delete"}
      /\ UNCHANGED <<record, found, jobs>>
  BY DEF Succeed, Goto, TypeInv, TypeOK
<1>2. PICK i \in DOMAIN jobs : \E row \in Row, old \in Entry :
          /\ i = record[w].id /\ row = jobs[i] /\ old = ledger[i]
          /\ i \in DOMAIN ledger /\ record[w].attempts = row.attempts
  BY <1>1, RowInHand DEF Working
<1>3. PICK old \in Entry : old = ledger[i] /\ i \in DOMAIN ledger
  BY <1>2
<1>4. PICK e \in Entry : e = [old EXCEPT !.handled = TRUE] /\ e.failures = old.failures
  <2> DEFINE e == [old EXCEPT !.handled = TRUE]
  <2>1. e \in Entry /\ e.failures = old.failures
    BY DEF Entry
  <2> QED
    BY <2>1
<1>5. ledger' = [ledger EXCEPT ![i] = e]
  BY <1>2, <1>3, <1>4 DEF Succeed
<1>6. /\ DOMAIN ledger' = DOMAIN ledger /\ ledger'[i] = e
      /\ \A j \in DOMAIN ledger : j # i => ledger'[j] = ledger[j]
  BY <1>3, <1>5, MarkTypes DEF TypeInv
<1>7. jobs[i].reserved
  BY <1>1, <1>2 DEF AloneSafe, HoldsRow, Working
<1>8. RowsCount'
  BY <1>1, <1>6, <1>7 DEF AloneSafe, RowsCount, TypeInv, TypeOK
<1>9. RunsCount'
  BY <1>3, <1>4, <1>6 DEF AloneSafe, RunsCount
<1>10. HoldsRow(w)'
  BY <1>1, <1>2, <1>3, <1>4, <1>6 DEF AloneSafe, HoldsRow, Working
<1> QED
  BY <1>8, <1>9, <1>10, AloneFrame

\* A failed run uses up the attempt the popped row had left.
LEMMA FailsAlone ==
    ASSUME TypeInv, AloneSafe, NEW w \in Worker, AloneActs(w),
           Fail(w) \/ HookFails(w) \/ FinishFails(w)
    PROVE  AloneSafe'
<1>1. PICK entry : FailsWith(w, entry)
  BY RunFailsWith
<1>2. PICK i \in DOMAIN jobs : \E row \in Row, old \in Entry :
          /\ i = record[w].id /\ row = jobs[i] /\ old = ledger[i]
          /\ i \in DOMAIN ledger /\ record[w].attempts = row.attempts
  BY <1>1, RowInHand DEF FailsWith, Working
<1>3. PICK e \in Entry : /\ e = FailedEntry(entry, GivesUp(w))
                         /\ e.failures = ledger[i].failures + 1
  <2>1. PICK e : e = FailedEntry(entry, GivesUp(w))
    OBVIOUS
  <2>2. entry \in Entry /\ entry.failures = ledger[i].failures
    BY <1>1, <1>2 DEF FailsWith
  <2>3. e \in Entry /\ e.failures = entry.failures + 1
    BY <2>1, <2>2, CaughtEntry
  <2> QED
    BY <2>1, <2>2, <2>3
<1>4. /\ DOMAIN ledger' = DOMAIN ledger /\ ledger'[i] = e
      /\ \A j \in DOMAIN ledger : j # i => ledger'[j] = ledger[j]
  BY <1>1, <1>2, <1>3, MarkTypes DEF TypeInv, FailsWith, Caught
<1>5. /\ UNCHANGED <<record, found, jobs>>
      /\ pc'[w] \in {"release", "record", "discard"}
      /\ pc'[w] = "release" => ~GivesUp(w)
  BY <1>1 DEF FailsWith, Caught, CatchError, Goto, TypeInv, TypeOK
<1>6. /\ record[w].attempts = jobs[i].attempts /\ jobs[i].reserved
      /\ ledger[i].failures <= record[w].attempts
      /\ record[w].attempts < MaxAttempts
  BY <1>1, <1>2 DEF AloneSafe, HoldsRow, RowsCount, Working, FailsWith
<1>7. ledger[i].failures \in Nat /\ record[w].attempts \in Nat /\ MaxAttempts \in Nat
  BY <1>2, LimitAssumption DEF Entry, Row
<1>8. RowsCount'
  BY <1>4, <1>5, <1>6 DEF AloneSafe, RowsCount, TypeInv, TypeOK
<1>9. RunsCount'
  BY <1>3, <1>4, <1>6, <1>7 DEF AloneSafe, RunsCount
<1>10. pc'[w] = "release" => record[w].attempts + 1 < MaxAttempts
  BY <1>5, <1>7 DEF GivesUp
<1>11. HoldsRow(w)'
  BY <1>2, <1>3, <1>4, <1>5, <1>6, <1>7, <1>10 DEF HoldsRow, Working
<1> QED
  BY <1>8, <1>9, <1>11, AloneFrame

LEMMA RemoveAlone ==
    ASSUME TypeInv, AloneSafe, NEW w \in Worker, AloneActs(w), DeleteJob(w) \/ Discard(w)
    PROVE  AloneSafe'
<1>1. PICK i : jobs' = DeleteRow(jobs, i)
  BY DEF DeleteJob, Discard
<1>2. pc'[w] = "loop" /\ UNCHANGED ledger
  BY DEF DeleteJob, Discard, NextIteration, Goto, TypeInv, TypeOK
<1>3. RowsCount' /\ RunsCount'
  BY <1>1, <1>2 DEF DeleteRow, AloneSafe, RowsCount, RunsCount
<1>4. HoldsRow(w)'
  BY <1>2 DEF HoldsRow, Working
<1> QED
  BY <1>3, <1>4, AloneFrame

\* release() of the only worker writes back the attempt it used.
LEMMA ReleaseAlone ==
    ASSUME TypeInv, AloneSafe, NEW w \in Worker, AloneActs(w), ReleaseWrite(w)
    PROVE  AloneSafe'
<1>1. pc[w] = "rewrite" /\ pc'[w] = "loop" /\ UNCHANGED ledger
  BY DEF ReleaseWrite, NextIteration, Goto, TypeInv, TypeOK
<1>2. PICK i \in DOMAIN jobs : \E r \in Row, old \in Entry :
          /\ i = record[w].id /\ r = jobs[i] /\ old = ledger[i]
          /\ i \in DOMAIN ledger /\ record[w].attempts = r.attempts
  BY <1>1, RowInHand DEF Working
<1>3. PICK r \in Row : r = jobs[i]
  BY <1>2
<1>4. /\ found[w] = record[w].attempts /\ found[w] \in Nat
      /\ ledger[i].failures > 0
      /\ ledger[i].failures <= found[w] + 1 /\ found[w] + 1 < MaxAttempts
  BY <1>1, <1>2 DEF AloneSafe, HoldsRow, Working, TypeInv, TypeOK
<1>5. PICK row : /\ row = [r EXCEPT !.reserved = FALSE, !.delayed = (RetryAfter > 0),
                                    !.attempts = found[w] + 1]
                 /\ row.attempts = found[w] + 1
  <2> DEFINE row == [r EXCEPT !.reserved = FALSE, !.delayed = (RetryAfter > 0),
                              !.attempts = found[w] + 1]
  <2>1. row.attempts = found[w] + 1
    BY DEF Row
  <2> QED
    BY <2>1
<1>6. jobs' = UpdateRow(jobs, i, row)
  BY <1>2, <1>3, <1>5 DEF ReleaseWrite
<1>7. DOMAIN jobs' = DOMAIN jobs /\ \A j \in DOMAIN jobs : jobs'[j] = IF j = i THEN row ELSE jobs[j]
  BY <1>6 DEF UpdateRow
<1>8. RowsCount'
  BY <1>1, <1>4, <1>5, <1>7 DEF AloneSafe, RowsCount
<1>9. RunsCount'
  BY <1>1 DEF AloneSafe, RunsCount
<1>10. HoldsRow(w)'
  BY <1>1 DEF HoldsRow, Working
<1> QED
  BY <1>8, <1>9, <1>10, AloneFrame

LEMMA ReadAlone ==
    ASSUME TypeInv, AloneSafe, NEW w \in Worker, AloneActs(w), ReleaseRead(w)
    PROVE  AloneSafe'
<1>1. /\ pc[w] = "release" /\ pc'[w] = "rewrite" /\ found'[w] = jobs[record[w].id].attempts
      /\ UNCHANGED <<record, jobs, ledger>>
  BY DEF ReleaseRead, Goto, TypeInv, TypeOK
<1>2. HoldsRow(w)'
  BY <1>1 DEF AloneSafe, HoldsRow, Working
<1> QED
  BY <1>1, <1>2, TablesStayCount, AloneFrame DEF TablesStay

LEMMA RestAlone ==
    ASSUME TypeInv, AloneSafe, NEW w \in Worker, AloneActs(w),
           \/ Start(w) \/ Exit(w) \/ SelectNothing(w) \/ Wake(w) \/ RecordFailed(w)
           \/ ReleaseNothing(w) \/ Signal(w) \/ Crash(w) \/ PopFails(w) \/ CatchFails(w)
    PROVE  AloneSafe'
<1>1. TablesStay
  BY DEF TablesStay, Start, Exit, SelectNothing, Wake, RecordFailed, ReleaseNothing,
     Signal, Crash, PopFails, CatchFails
<1>2. \/ pc'[w] \in {"stopped", "loop", "asleep"}
      \/ pc[w] = "record" /\ pc'[w] = "discard" /\ UNCHANGED <<record, found>>
      \/ UNCHANGED <<pc, record, found>>
  BY DEF Start, Exit, SelectNothing, Wake, RecordFailed, ReleaseNothing,
     Signal, Crash, PopFails, CatchFails, Stop, NextIteration, Goto, TypeInv, TypeOK
<1>3. HoldsRow(w)'
  BY <1>1, <1>2 DEF AloneSafe, TablesStay, HoldsRow, Working
<1> QED
  BY <1>1, <1>3, TablesStayCount, AloneFrame

LEMMA AloneStep == TypeInv /\ AloneSafe /\ Alone => AloneSafe'
<1> SUFFICES ASSUME TypeInv, AloneSafe, Alone PROVE AloneSafe'
  OBVIOUS
<1>1. ASSUME NEW p \in Dispatches, NEW q \in Queue,
             Dispatch(p, q) \/ DispatchLater(p, q)
      PROVE  AloneSafe'
  <2>1. PICK delayed \in BOOLEAN : Insert(p, q, delayed)
    BY <1>1 DEF Dispatch, DispatchLater
  <2>2. UNCHANGED <<pc, record, found>>
    BY <1>1 DEF Dispatch, DispatchLater, workerVars
  <2> QED
    BY <2>1, <2>2, PayloadAssumption, InsertAlone
<1>2. ASSUME NEW i \in DOMAIN jobs, Elapse(i) PROVE AloneSafe'
  <2>1. jobs' = [jobs EXCEPT ![i].delayed = FALSE] /\ UNCHANGED <<ledger, pc, record, found>>
    BY <1>2 DEF Elapse, workerVars
  <2>2. \A j \in DOMAIN jobs : /\ jobs'[j].attempts = jobs[j].attempts
                               /\ jobs'[j].reserved = jobs[j].reserved
    BY <2>1 DEF TypeInv, TypeOK, Row
  <2>3. DOMAIN jobs' = DOMAIN jobs
    BY <2>1
  <2>4. RowsCount' /\ RunsCount' /\ OneAtATime'
    BY <2>1, <2>2, <2>3 DEF AloneSafe, RowsCount, RunsCount, OneAtATime
  <2>5. ASSUME NEW w \in Worker PROVE HoldsRow(w)'
    BY <2>1, <2>2, <2>3 DEF AloneSafe, HoldsRow
  <2> QED
    BY <2>4, <2>5 DEF AloneSafe
<1>3. ASSUME NEW w \in Worker, \A v \in Worker \ {w} : pc[v] = "stopped",
             WorkerStep(w) \/ Fault(w)
      PROVE  AloneSafe'
  <2>1. \E at \in PcStates : pc' = [pc EXCEPT ![w] = at]
    <3>1. pc = [pc EXCEPT ![w] = pc[w]] /\ pc[w] \in PcStates
      BY DEF TypeInv, TypeOK
    <3> QED
      BY <1>3, <3>1 DEF WorkerStep, Fault, Start, Exit, Select, SelectNothing, Wake, Reserve,
         Succeed, Fail, PushNext, DeleteJob, RecordFailed, Discard, ReleaseNothing,
         ReleaseRead, ReleaseWrite, HookFails, Signal, Crash, PopFails, FinishFails,
         CatchFails, Caught, CatchError, Stop, NextIteration, Goto, PcStates
  <2>2. AloneActs(w)
    BY <1>3, <2>1 DEF AloneActs, TypeInv, TypeOK
  <2>3. CASE PushNext(w)
    <3>1. /\ pc[w] = "chain" /\ Insert(Tail(record[w].payload), Serves[w], FALSE)
          /\ pc' = [pc EXCEPT ![w] = "delete"] /\ UNCHANGED <<record, found>>
      BY <2>3 DEF PushNext, Goto
    <3>2. Tail(record[w].payload) \in Payload
      BY <3>1, RestOfChain DEF TypeInv, Linked, RecordLinked, Working, Popped, Chained
    <3>3. \A v \in Worker : pc'[v] = pc[v] \/ (pc[v] = "chain" /\ pc'[v] = "delete")
      BY <3>1 DEF TypeInv, TypeOK
    <3> QED
      BY <3>1, <3>2, <3>3, WorkerAssumption, InsertAlone
  <2> QED
    BY <1>3, <2>2, <2>3, SelectAlone, ReserveAlone, SucceedAlone, FailsAlone, RemoveAlone,
       ReleaseAlone, ReadAlone, RestAlone DEF WorkerStep, Fault
<1>4. ASSUME NEW k \in DOMAIN failedJobs, Forget(k) PROVE AloneSafe'
  <2>1. UNCHANGED <<jobs, ledger, pc, record, found>>
    BY <1>4 DEF Forget, workerVars
  <2> QED
    BY <2>1 DEF AloneSafe, RowsCount, RunsCount, OneAtATime, HoldsRow
<1> QED
  BY <1>1, <1>2, <1>3, <1>4 DEF Alone

LEMMA SettingsAreSteps == MCNext => Next /\ UNCHANGED setting
BY DEF MCNext, Alone, Crowd, Next, Produce, Fault

\* The types hold in either setting, the counts with workers one at a time.
SettingSafe == TypeInv /\ (setting = "alone" => AloneSafe)

LEMMA SettingStep == SettingSafe /\ [MCNext]_mcVars => SettingSafe'
<1> SUFFICES ASSUME SettingSafe, [MCNext]_mcVars PROVE SettingSafe'
  OBVIOUS
<1>1. CASE MCNext
  <2>1. TypeInv'
    BY <1>1, SettingsAreSteps, TypeInvStep DEF SettingSafe
  <2>2. setting' = "alone" => Alone /\ setting = "alone"
    BY <1>1 DEF MCNext
  <2> QED
    BY <2>1, <2>2, AloneStep DEF SettingSafe
<1>2. CASE UNCHANGED mcVars
  <2>1. UNCHANGED vars /\ UNCHANGED setting
    BY <1>2 DEF mcVars
  <2>2. TypeInv'
    BY <2>1, TypeInvStep DEF SettingSafe
  <2>3. UNCHANGED <<jobs, ledger, pc, record, found>>
    BY <2>1 DEF vars
  <2>4. AloneSafe => AloneSafe'
    BY <2>3 DEF AloneSafe, RowsCount, RunsCount, OneAtATime, HoldsRow
  <2> QED
    BY <2>1, <2>2, <2>4 DEF SettingSafe
<1> QED
  BY <1>1, <1>2

LEMMA SettingStarts == MCInit => SettingSafe
BY TypeInvInit, AloneStarts DEF MCInit, SettingSafe

\* AloneRunsAtMostMaxAttempts: with workers that run one at a time, whatever
\* fails or dies, no row's job is run more than MaxAttempts times, and a row
\* in the table has an attempt left.
THEOREM OneWorkerKeepsCount == MCSpec => []AloneRunsAtMostMaxAttempts
<1>1. SettingSafe => AloneRunsAtMostMaxAttempts
  BY DEF SettingSafe, AloneSafe, RowsCount, RunsCount, AloneRunsAtMostMaxAttempts,
     RunsAtMostMaxAttempts
<1> QED
  BY <1>1, SettingStarts, SettingStep, PTL DEF MCSpec

\* HandledJobsDoNotRunAgain: with workers that run one at a time, a job that
\* ran successfully is run again from the same row only if something after
\* its run threw, which the worker counts as a failed run.
THEOREM OneWorkerRunsOnce == MCSpec => HandledJobsDoNotRunAgain
<1>1. SettingSafe /\ [MCNext]_mcVars
        => [setting = "alone" => RerunsOnlyAfterFailures]_mcVars
  <2> SUFFICES ASSUME SettingSafe, setting = "alone", NEW w \in Worker, Starts(w)
               PROVE  ~ledger[record[w].id].handled \/ ledger[record[w].id].failures > 0
    BY DEF RerunsOnlyAfterFailures
  <2>1. AloneSafe /\ pc[w] = "reserve"
    BY DEF SettingSafe, Starts
  <2>2. record[w].id \in DOMAIN jobs /\ ~jobs[record[w].id].reserved
    BY <2>1 DEF AloneSafe, HoldsRow
  <2> QED
    BY <2>1, <2>2 DEF AloneSafe, RowsCount
<1> QED
  BY <1>1, SettingStarts, SettingStep, PTL DEF MCSpec, HandledJobsDoNotRunAgain
=============================================================================
