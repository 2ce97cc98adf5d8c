-------------------------- MODULE RedisQueueProofs --------------------------
(***************************************************************************)
(* Proofs about RedisQueue, for every set of jobs and workers, every limit *)
(* and every combination of faults.                                        *)
(***************************************************************************)
EXTENDS MCRedis, TLAPS, SequenceTheorems, FiniteSetTheorems

-----------------------------------------------------------------------------
(***************************************************************************)
(* How the ledger and the ready list change.                               *)
(***************************************************************************)
Fresh(payload) == [payload |-> payload, pushed |-> FALSE, failures |-> 0,
                   handled |-> FALSE, givenUp |-> FALSE]

LEMMA LedgerDomain ==
    ASSUME TypeOK
    PROVE  /\ DOMAIN ledger = 1 .. Len(ledger) /\ Len(ledger) \in Nat
           /\ \A i \in DOMAIN ledger : ledger[i] \in Entry
BY ElementOfSeq, LenProperties DEF TypeOK

LEMMA TakenId ==
    ASSUME TypeOK, NEW a \in Worker \cup {App}, NEW payload \in Payload,
           NEW later \in BOOLEAN, TakeId(a, payload, later)
    PROVE  /\ ledger' \in Seq(Entry)
           /\ DOMAIN ledger' = DOMAIN ledger \cup {Len(ledger) + 1}
           /\ Len(ledger) + 1 \notin DOMAIN ledger
           /\ \A i \in DOMAIN ledger : ledger'[i] = ledger[i]
           /\ ledger'[Len(ledger) + 1] = Fresh(payload)
<1>1. ledger \in Seq(Entry) /\ DOMAIN ledger = 1 .. Len(ledger) /\ Len(ledger) \in Nat
  BY LedgerDomain DEF TypeOK
<1>2. Fresh(payload) \in Entry
  BY DEF Fresh, Entry
<1>3. ledger' = Append(ledger, Fresh(payload))
  BY DEF TakeId, Fresh
<1>4. /\ ledger' \in Seq(Entry)
      /\ Len(ledger') = Len(ledger) + 1
      /\ \A i \in 1 .. Len(ledger) : ledger'[i] = ledger[i]
      /\ ledger'[Len(ledger) + 1] = Fresh(payload)
  BY <1>1, <1>2, <1>3, AppendProperties
<1>5. DOMAIN ledger' = 1 .. Len(ledger) + 1
  BY <1>4
<1> QED
  BY <1>1, <1>4, <1>5

LEMMA Marked ==
    ASSUME TypeOK, NEW i \in DOMAIN ledger, NEW e \in Entry,
           ledger' = [ledger EXCEPT ![i] = e]
    PROVE  /\ ledger' \in Seq(Entry)
           /\ DOMAIN ledger' = DOMAIN ledger
           /\ ledger'[i] = e
           /\ \A j \in DOMAIN ledger : j # i => ledger'[j] = ledger[j]
<1>1. ledger \in Seq(Entry) /\ i \in 1 .. Len(ledger)
  BY LedgerDomain DEF TypeOK
<1>2. /\ ledger' \in Seq(Entry)
      /\ Len(ledger') = Len(ledger)
      /\ \A j \in 1 .. Len(ledger) : ledger'[j] = IF j = i THEN e ELSE ledger[j]
  BY <1>1, ExceptSeq
<1> QED
  BY <1>1, <1>2

LEMMA LinkMarks ==
    ASSUME TypeOK, NEW i \in DOMAIN ledger, ledger' = [ledger EXCEPT ![i].pushed = TRUE]
    PROVE  /\ ledger' \in Seq(Entry)
           /\ DOMAIN ledger' = DOMAIN ledger
           /\ ledger'[i] = [ledger[i] EXCEPT !.pushed = TRUE]
           /\ \A j \in DOMAIN ledger : j # i => ledger'[j] = ledger[j]
<1>1. PICK e : e = [ledger[i] EXCEPT !.pushed = TRUE]
  OBVIOUS
<1>2. ledger[i] \in Entry
  BY LedgerDomain
<1>3. e \in Entry
  BY <1>1, <1>2 DEF Entry
<1>4. ledger' = [ledger EXCEPT ![i] = e]
  BY <1>1
<1> QED
  BY <1>1, <1>3, <1>4, Marked

LEMMA SuccessMarks ==
    ASSUME TypeOK, NEW i \in DOMAIN ledger, ledger' = [ledger EXCEPT ![i].handled = TRUE]
    PROVE  /\ ledger' \in Seq(Entry)
           /\ DOMAIN ledger' = DOMAIN ledger
           /\ ledger'[i] = [ledger[i] EXCEPT !.handled = TRUE]
           /\ \A j \in DOMAIN ledger : j # i => ledger'[j] = ledger[j]
<1>1. PICK e : e = [ledger[i] EXCEPT !.handled = TRUE]
  OBVIOUS
<1>2. ledger[i] \in Entry
  BY LedgerDomain
<1>3. e \in Entry
  BY <1>1, <1>2 DEF Entry
<1>4. ledger' = [ledger EXCEPT ![i] = e]
  BY <1>1
<1> QED
  BY <1>1, <1>3, <1>4, Marked

LEMMA FailedEntryTypes ==
    ASSUME NEW e \in Entry, NEW g \in BOOLEAN
    PROVE  /\ FailedEntry(e, g) \in Entry
           /\ FailedEntry(e, g).payload = e.payload
           /\ FailedEntry(e, g).pushed = e.pushed
           /\ FailedEntry(e, g).handled = e.handled
           /\ FailedEntry(e, g).failures = e.failures + 1
           /\ FailedEntry(e, g).givenUp = (e.givenUp \/ g)
<1>1. PICK u \in BOOLEAN : u = (e.givenUp \/ g)
  BY Zenon
<1>2. FailedEntry(e, g) = [e EXCEPT !.failures = @ + 1, !.givenUp = u]
  BY <1>1, Zenon DEF FailedEntry
<1>3. PICK f : f = [e EXCEPT !.failures = @ + 1, !.givenUp = u]
  OBVIOUS
<1>4. /\ f \in Entry /\ f.payload = e.payload /\ f.pushed = e.pushed
      /\ f.handled = e.handled /\ f.failures = e.failures + 1
  <2>1. e.failures + 1 \in Nat
    BY DEF Entry
  <2>2. \A n \in Nat : [e EXCEPT !.failures = n, !.givenUp = u] \in Entry
    BY DEF Entry
  <2> QED
    BY <1>3, <2>1, <2>2 DEF Entry
<1>5. f.givenUp = u
  BY <1>3 DEF Entry
<1> QED
  BY <1>1, <1>2, <1>3, <1>4, <1>5, Zenon

LEMMA FailureMarks ==
    ASSUME TypeOK, NEW i \in DOMAIN ledger, NEW g \in BOOLEAN,
           ledger' = [ledger EXCEPT ![i] = FailedEntry(@, g)]
    PROVE  /\ ledger' \in Seq(Entry)
           /\ DOMAIN ledger' = DOMAIN ledger
           /\ ledger'[i] = FailedEntry(ledger[i], g)
           /\ \A j \in DOMAIN ledger : j # i => ledger'[j] = ledger[j]
<1>1. ledger[i] \in Entry
  BY LedgerDomain
<1>2. FailedEntry(ledger[i], g) \in Entry
  BY <1>1, FailedEntryTypes
<1> QED
  BY <1>2, Marked

\* Entries only gain facts.
KeepsEntries ==
    \A i \in DOMAIN ledger :
        /\ i \in DOMAIN ledger'
        /\ ledger'[i].payload = ledger[i].payload
        /\ ledger[i].pushed => ledger'[i].pushed
        /\ ledger[i].handled => ledger'[i].handled
        /\ ledger[i].givenUp => ledger'[i].givenUp

LEMMA PushReadyTypes ==
    ASSUME NEW S, NEW T, S \subseteq T, ready \in Seq(S), NEW i \in T, PushReady(i)
    PROVE  /\ ready' \in Seq(T)
           /\ DOMAIN ready' = DOMAIN ready \cup {Len(ready) + 1}
           /\ \A k \in DOMAIN ready : ready'[k] = ready[k]
           /\ ready'[Len(ready) + 1] = i
<1>1. ready \in Seq(T) /\ DOMAIN ready = 1 .. Len(ready) /\ Len(ready) \in Nat
  OBVIOUS
<1>2. /\ ready' \in Seq(T) /\ Len(ready') = Len(ready) + 1
      /\ \A k \in 1 .. Len(ready) : ready'[k] = ready[k]
      /\ ready'[Len(ready) + 1] = i
  BY <1>1, AppendProperties DEF PushReady
<1>3. DOMAIN ready' = 1 .. Len(ready) + 1
  BY <1>1, <1>2
<1> QED
  BY <1>1, <1>2, <1>3

LEMMA PopReadyTypes ==
    ASSUME NEW S, ready \in Seq(S), ready # <<>>, ready' = Tail(ready)
    PROVE  /\ ready' \in Seq(S)
           /\ Head(ready) = ready[1] /\ 1 \in DOMAIN ready /\ Head(ready) \in S
           /\ \A k \in DOMAIN ready' : k + 1 \in DOMAIN ready /\ ready'[k] = ready[k + 1]
           /\ \A k \in DOMAIN ready : k = 1 \/ k - 1 \in DOMAIN ready'
<1>1. DOMAIN ready = 1 .. Len(ready) /\ Len(ready) \in Nat /\ Len(ready) # 0
  BY EmptySeq
<1>2. /\ ready' \in Seq(S) /\ Len(ready') = Len(ready) - 1
      /\ \A k \in 1 .. Len(ready) - 1 : ready'[k] = ready[k + 1]
      /\ Head(ready) = ready[1] /\ Head(ready) \in S
  BY <1>1, HeadTailProperties
<1>3. DOMAIN ready' = 1 .. Len(ready) - 1
  BY <1>1, <1>2
<1> QED
  BY <1>1, <1>2, <1>3
-----------------------------------------------------------------------------
(***************************************************************************)
(* Types.                                                                  *)
(***************************************************************************)
TypeInv == TypeOK /\ Linked

\* Only the ledger grows: what names its ids still does.
LEMMA LedgerTypes ==
    ASSUME TypeOK, ledger' \in Seq(Entry), DOMAIN ledger \subseteq DOMAIN ledger',
           UNCHANGED <<store, failedJobs, local, dropped>>,
           pushing' \in [Worker \cup {App} -> Pushing], pc' \in [Worker -> PcStates]
    PROVE  TypeOK'
<1>1. ready \in Seq(DOMAIN ledger')
  BY DEF TypeOK
<1>2. /\ element \in [Worker -> DOMAIN ledger' \cup {0}]
      /\ todo \in [Worker -> SUBSET DOMAIN ledger']
  BY DEF TypeOK
<1> QED
  BY <1>1, <1>2 DEF TypeOK, store, local

LEMMA TakeTypes ==
    ASSUME TypeOK, NEW a \in Worker \cup {App}, NEW payload \in Payload,
           NEW later \in BOOLEAN, TakeId(a, payload, later),
           UNCHANGED <<store, failedJobs, pc, local, dropped>>
    PROVE  TypeOK'
<1>1. ledger' \in Seq(Entry)
  BY TakenId
<1>2. DOMAIN ledger' = DOMAIN ledger \cup {Len(ledger) + 1}
  BY TakenId
<1>3. pushing' \in [Worker \cup {App} -> Pushing]
  BY LedgerDomain DEF TakeId, TypeOK, Pushing
<1> QED
  BY <1>1, <1>2, <1>3, LedgerTypes DEF TypeOK

LEMMA CaughtTypes ==
    ASSUME TypeInv, NEW w \in Worker, pc[w] \in {"run", "chain", "find", "del", "clear"},
           Caught(w), pushing' \in [Worker \cup {App} -> Pushing]
    PROVE  /\ TypeOK'
           /\ DOMAIN ledger' = DOMAIN ledger /\ element[w] \in DOMAIN ledger
           /\ ledger'[element[w]] = FailedEntry(ledger[element[w]], GivesUp(w))
           /\ \A j \in DOMAIN ledger : j # element[w] => ledger'[j] = ledger[j]
<1>1. /\ TypeOK /\ element[w] \in DOMAIN ledger /\ GivesUp(w) \in BOOLEAN
  BY DEF TypeInv, TypeOK, Linked, WorkerLinked, EmptyHanded, GivesUp
<1>2. ledger' = [ledger EXCEPT ![element[w]] = FailedEntry(@, GivesUp(w))]
  BY DEF Caught
<1>3. /\ ledger' \in Seq(Entry) /\ DOMAIN ledger' = DOMAIN ledger
      /\ ledger'[element[w]] = FailedEntry(ledger[element[w]], GivesUp(w))
      /\ \A j \in DOMAIN ledger : j # element[w] => ledger'[j] = ledger[j]
  <2>1. PICK i \in DOMAIN ledger : i = element[w]
    BY <1>1
  <2>2. PICK g \in BOOLEAN : g = GivesUp(w)
    BY <1>1
  <2> QED
    BY <1>1, <1>2, <2>1, <2>2, FailureMarks
<1>4. pc' \in [Worker -> PcStates]
  BY <1>1 DEF Caught, TypeOK, PcStates
<1>5. TypeOK'
  BY <1>1, <1>3, <1>4, LedgerTypes DEF Caught
<1> QED
  BY <1>1, <1>3, <1>5

LEMMA LinkTypes ==
    ASSUME TypeInv, NEW a \in Worker \cup {App}, pushing[a].at = "link", Link(a),
           UNCHANGED <<envelopes, failedJobs, local, dropped>>, pc' \in [Worker -> PcStates]
    PROVE  TypeOK'
<1>1. /\ TypeOK /\ pushing[a].id \in DOMAIN ledger
      /\ ledger' = [ledger EXCEPT ![pushing[a].id].pushed = TRUE]
  BY DEF TypeInv, Linked, PushLinked, Link
<1>2. ledger' \in Seq(Entry)
  BY <1>1, LinkMarks
<1>3. DOMAIN ledger' = DOMAIN ledger
  BY <1>1, LinkMarks
<1>4. ready' \in Seq(DOMAIN ledger')
  <2>1. ready \in Seq(DOMAIN ledger)
    BY <1>1 DEF TypeOK
  <2>2. CASE UNCHANGED ready
    BY <1>3, <2>1, <2>2
  <2>3. CASE PushReady(pushing[a].id)
    BY <1>1, <1>3, <2>1, <2>3, PushReadyTypes
  <2> QED
    BY <2>2, <2>3 DEF Link
<1>5. delayed' \in [DOMAIN delayed' -> BOOLEAN] /\ DOMAIN delayed' \subseteq DOMAIN ledger'
  <2>1. PICK i \in DOMAIN ledger : i = pushing[a].id
    BY <1>1
  <2>2. UNCHANGED delayed \/ delayed' = InsertRow(delayed, i, FALSE)
    BY <2>1 DEF Link, Delay
  <2>3. delayed \in [DOMAIN delayed -> BOOLEAN] /\ DOMAIN delayed \subseteq DOMAIN ledger
    BY <1>1 DEF TypeOK
  <2>4. CASE delayed' = InsertRow(delayed, i, FALSE)
    BY <1>3, <2>3, <2>4 DEF InsertRow
  <2> QED
    BY <1>3, <2>2, <2>3, <2>4
<1>6. pushing' \in [Worker \cup {App} -> Pushing]
  BY <1>1 DEF Link, TypeOK, Pushing, NotPushing
<1> QED
  BY <1>1, <1>2, <1>3, <1>4, <1>5, <1>6 DEF TypeOK, local

\* What a worker or the application does without touching the tables of redis.
LEMMA LocalTypes ==
    ASSUME TypeOK, UNCHANGED <<store, failedJobs, ledger>>,
           pc' \in [Worker -> PcStates],
           pushing' \in [Worker \cup {App} -> Pushing],
           element' \in [Worker -> DOMAIN ledger \cup {0}],
           envelope' \in [Worker -> Envelope \cup {Nothing}],
           todo' \in [Worker -> SUBSET DOMAIN ledger],
           quit' \in [Worker -> BOOLEAN],
           dropped' \subseteq DOMAIN ledger
    PROVE  TypeOK'
BY DEF TypeOK, store

LEMMA LetGoTypes ==
    ASSUME TypeOK, NEW w \in Worker, LetGo(w)
    PROVE  /\ element' \in [Worker -> DOMAIN ledger \cup {0}]
           /\ envelope' \in [Worker -> Envelope \cup {Nothing}]
           /\ todo' \in [Worker -> SUBSET DOMAIN ledger]
           /\ quit' \in [Worker -> BOOLEAN]
BY DEF TypeOK, LetGo

LEMMA DropsTypes ==
    ASSUME TypeInv, NEW w \in Worker, Drops(w)
    PROVE  /\ dropped' \subseteq DOMAIN ledger
           /\ pushing' \in [Worker \cup {App} -> Pushing]
<1>1. TypeOK /\ Linked
  BY DEF TypeInv
<1>2. pushing[w].id \in DOMAIN ledger \cup {0}
  BY <1>1 DEF Linked, PushLinked
<1> QED
  BY <1>1, <1>2 DEF TypeOK, Drops, NotPushing, Pushing

LEMMA StepTypes ==
    ASSUME TypeOK, NEW w \in Worker, NEW from, NEW to \in PcStates, Step(w, from, to)
    PROVE  pc' \in [Worker -> PcStates] /\ pc'[w] = to
BY DEF TypeOK, Step

LEMMA RestOfChain ==
    ASSUME TypeInv, NEW w \in Worker, pc[w] = "chain"
    PROVE  Tail(envelope[w].payload) \in Payload
<1>1. PICK p : p = envelope[w].payload
  OBVIOUS
<1>2. p \in Seq(Job) /\ p # <<>> /\ Len(p) > 1
  BY <1>1 DEF TypeInv, Linked, WorkerLinked, Loaded, EmptyHanded, PcStates, Envelope,
     Payload, Chained
<1>3. Tail(p) \in Seq(Job) /\ Len(Tail(p)) = Len(p) - 1
  BY <1>2, HeadTailProperties
<1>4. Len(Tail(p)) # 0
  <2>1. Len(p) \in Nat
    BY <1>2, LenProperties
  <2> QED
    BY <1>2, <1>3, <2>1
<1>5. \A q : q = <<>> => Len(q) = 0
  BY EmptySeq
<1>6. Tail(p) # <<>>
  BY <1>4, <1>5
<1> QED
  BY <1>1, <1>3, <1>6 DEF Payload

LEMMA TypesStep == TypeInv /\ [Next]_vars => TypeOK'
<1> SUFFICES ASSUME TypeInv, [Next]_vars PROVE TypeOK'
  OBVIOUS
<1>a. TypeOK /\ Linked
  BY DEF TypeInv
<1>1. ASSUME NEW p \in Dispatches, NEW later \in BOOLEAN, Dispatch(p, later) PROVE TypeOK'
  <2>1. p \in Payload
    BY RedisQueueAssumption
  <2> QED
    BY <1>a, <1>1, <2>1, TakeTypes DEF Dispatch
<1>2. ASSUME NEW w \in Worker, PushNext(w) PROVE TypeOK'
  <2>1. Tail(envelope[w].payload) \in Payload
    BY <1>2, RestOfChain DEF PushNext
  <2> QED
    BY <1>a, <1>2, <2>1, TakeTypes DEF PushNext
<1>3. ASSUME NEW a \in Worker \cup {App}, SaveNew(a) PROVE TypeOK'
  <2>1. PICK i \in DOMAIN ledger : i = pushing[a].id
    BY <1>a, <1>3 DEF SaveNew, Linked, PushLinked
  <2>2. PICK e \in Envelope : e = [payload |-> ledger[i].payload, attempts |-> 0]
    <3>1. ledger[i] \in Entry
      BY <1>a, LedgerDomain
    <3> QED
      BY <3>1 DEF Entry, Envelope
  <2>3. envelopes' = InsertRow(envelopes, i, e)
    BY <1>3, <2>1, <2>2 DEF SaveNew
  <2>4. /\ envelopes' \in [DOMAIN envelopes' -> Envelope]
        /\ DOMAIN envelopes' \subseteq DOMAIN ledger
    BY <1>a, <2>3 DEF TypeOK, InsertRow
  <2>5. pushing' \in [Worker \cup {App} -> Pushing]
    BY <1>a, <1>3 DEF SaveNew, TypeOK, Pushing
  <2> QED
    BY <1>a, <1>3, <2>4, <2>5 DEF SaveNew, TypeOK, local
<1>4. ASSUME Dispatched PROVE TypeOK'
  BY <1>a, <1>4, LinkTypes DEF Dispatched, TypeOK
<1>5. ASSUME NEW w \in Worker, PushedNext(w) PROVE TypeOK'
  BY <1>a, <1>5, LinkTypes, StepTypes DEF PushedNext, PcStates
<1>6. ASSUME DispatchFails PROVE TypeOK'
  <2>1. pushing' \in [Worker \cup {App} -> Pushing]
    BY <1>a, <1>6 DEF DispatchFails, TypeOK, Pushing, NotPushing
  <2> QED
    BY <1>a, <1>6, <2>1, LocalTypes DEF DispatchFails, TypeOK, local
<1>7. ASSUME NEW i \in DOMAIN delayed, Elapse(i) PROVE TypeOK'
  BY <1>a, <1>7 DEF Elapse, TypeOK, local
<1>8. ASSUME NEW w \in Worker,
             \/ Start(w) \/ AllPromoted(w) \/ PopNothing(w) \/ Index(w) \/ Wake(w)
             \/ FindForDelete(w)
      PROVE  TypeOK'
  <2>1. /\ UNCHANGED <<store, failedJobs, pushing, local, ledger, dropped>>
        /\ \E from, to \in PcStates : Step(w, from, to)
    BY <1>8 DEF Start, AllPromoted, PopNothing, Index, Wake, FindForDelete, PcStates
  <2>2. pc' \in [Worker -> PcStates]
    BY <1>a, <2>1, StepTypes
  <2> QED
    BY <1>a, <2>1, <2>2 DEF TypeOK, store, local
<1>9. ASSUME NEW w \in Worker, Exit(w) \/ Signal(w) PROVE TypeOK'
  BY <1>a, <1>9 DEF Exit, Signal, Step, TypeOK, PcStates, store
<1>10. ASSUME NEW w \in Worker, FindDue(w) PROVE TypeOK'
  <2>1. pc' \in [Worker -> PcStates]
    BY <1>a, <1>10, StepTypes DEF FindDue, PcStates
  <2>2. todo' \in [Worker -> SUBSET DOMAIN ledger]
    BY <1>a, <1>10 DEF FindDue, Due, TypeOK
  <2> QED
    BY <1>a, <1>10, <2>1, <2>2, LocalTypes DEF FindDue, TypeOK
<1>11. ASSUME NEW w \in Worker, Undelay(w) PROVE TypeOK'
  <2>1. pc' \in [Worker -> PcStates]
    BY <1>a, <1>11, StepTypes DEF Undelay, PcStates
  <2>2. PICK i \in todo[w] : /\ element' = [element EXCEPT ![w] = i]
                             /\ todo' = [todo EXCEPT ![w] = @ \ {i}]
                             /\ delayed' = DeleteRow(delayed, i)
    BY <1>11 DEF Undelay
  <2>3. /\ element' \in [Worker -> DOMAIN ledger \cup {0}]
        /\ todo' \in [Worker -> SUBSET DOMAIN ledger]
        /\ delayed' \in [DOMAIN delayed' -> BOOLEAN]
        /\ DOMAIN delayed' \subseteq DOMAIN ledger
    BY <1>a, <2>2 DEF TypeOK, DeleteRow
  <2> QED
    BY <1>a, <1>11, <2>1, <2>3 DEF Undelay, TypeOK
<1>12. ASSUME NEW w \in Worker, Promote(w) PROVE TypeOK'
  <2>1. pc' \in [Worker -> PcStates]
    BY <1>a, <1>12, StepTypes DEF Promote, PcStates
  <2>2. PICK i \in DOMAIN ledger : i = element[w]
    BY <1>a, <1>12 DEF Promote, Step, TypeOK, Linked, WorkerLinked, EmptyHanded
  <2>3. ready' \in Seq(DOMAIN ledger)
    <3>1. ready \in Seq(DOMAIN ledger) /\ PushReady(i)
      BY <1>a, <1>12, <2>2 DEF TypeOK, Promote
    <3> QED
      BY <3>1, PushReadyTypes
  <2> QED
    BY <1>a, <1>12, <2>1, <2>3 DEF Promote, TypeOK
<1>13. ASSUME NEW w \in Worker, Pop(w) PROVE TypeOK'
  <2>1. pc' \in [Worker -> PcStates]
    BY <1>a, <1>13, StepTypes DEF Pop, PcStates
  <2>2. ready' \in Seq(DOMAIN ledger) /\ Head(ready) \in DOMAIN ledger
    <3>1. ready \in Seq(DOMAIN ledger) /\ ready # <<>> /\ ready' = Tail(ready)
      BY <1>a, <1>13 DEF TypeOK, Pop
    <3> QED
      BY <3>1, PopReadyTypes
  <2>3. element' \in [Worker -> DOMAIN ledger \cup {0}]
    BY <1>a, <1>13, <2>2 DEF Pop, TypeOK
  <2> QED
    BY <1>a, <1>13, <2>1, <2>2, <2>3 DEF Pop, TypeOK
<1>14. ASSUME NEW w \in Worker, LoadNothing(w) \/ FindNothing(w) PROVE TypeOK'
  <2>1. pc' \in [Worker -> PcStates]
    BY <1>a, <1>14, StepTypes DEF LoadNothing, FindNothing, PcStates
  <2>2. UNCHANGED <<store, failedJobs, pushing, ledger, dropped>> /\ LetGo(w)
    BY <1>14 DEF LoadNothing, FindNothing
  <2> QED
    BY <1>a, <2>1, <2>2, LetGoTypes, LocalTypes DEF TypeOK
<1>15. ASSUME NEW w \in Worker, Load(w) \/ FindForRelease(w) PROVE TypeOK'
  <2>1. pc' \in [Worker -> PcStates]
    BY <1>a, <1>15, StepTypes DEF Load, FindForRelease, PcStates
  <2>2. envelope' \in [Worker -> Envelope \cup {Nothing}]
    BY <1>a, <1>15 DEF Load, FindForRelease, TypeOK
  <2> QED
    BY <1>a, <1>15, <2>1, <2>2, LocalTypes DEF Load, FindForRelease, TypeOK
<1>16. ASSUME NEW w \in Worker, Reserve(w) \/ Rewrite(w) PROVE TypeOK'
  <2>1. pc' \in [Worker -> PcStates]
    BY <1>a, <1>16, StepTypes DEF Reserve, Rewrite, PcStates
  <2>2. PICK i \in DOMAIN ledger : i = element[w]
    BY <1>a, <1>16 DEF Reserve, Rewrite, Step, TypeOK, Linked, WorkerLinked, EmptyHanded
  <2>3. envelope[w] \in Envelope
    BY <1>a, <1>16 DEF Reserve, Rewrite, Step, Linked, WorkerLinked, EmptyHanded, Loaded,
       PcStates
  <2>4. [envelope[w] EXCEPT !.attempts = @ + 1] \in Envelope
    BY <2>3 DEF Envelope
  <2>5. PICK e \in Envelope : envelopes' = InsertRow(envelopes, i, e)
    BY <1>16, <2>2, <2>3, <2>4 DEF Reserve, Rewrite
  <2>6. /\ envelopes' \in [DOMAIN envelopes' -> Envelope]
        /\ DOMAIN envelopes' \subseteq DOMAIN ledger
    BY <1>a, <2>5 DEF TypeOK, InsertRow
  <2> QED
    BY <1>a, <1>16, <2>1, <2>6 DEF Reserve, Rewrite, TypeOK, local
<1>17. ASSUME NEW w \in Worker, Delete(w) PROVE TypeOK'
  <2>1. pc' \in [Worker -> PcStates]
    BY <1>a, <1>17, StepTypes DEF Delete, PcStates
  <2>2. /\ envelopes' \in [DOMAIN envelopes' -> Envelope]
        /\ DOMAIN envelopes' \subseteq DOMAIN ledger
    BY <1>a, <1>17 DEF TypeOK, Delete, DeleteRow
  <2> QED
    BY <1>a, <1>17, <2>1, <2>2 DEF Delete, TypeOK, local
<1>18. ASSUME NEW w \in Worker, Clear(w) \/ ReleaseDelayed(w) PROVE TypeOK'
  <2>1. pc' \in [Worker -> PcStates]
    BY <1>a, <1>18, StepTypes DEF Clear, ReleaseDelayed, PcStates
  <2>2. PICK i \in DOMAIN ledger : i = element[w]
    BY <1>a, <1>18 DEF Clear, ReleaseDelayed, Step, TypeOK, Linked, WorkerLinked, EmptyHanded
  <2>3. \/ delayed' = DeleteRow(delayed, i)
        \/ \E due \in BOOLEAN : delayed' = InsertRow(delayed, i, due)
    BY <1>18, <2>2 DEF Clear, ReleaseDelayed, Delay
  <2>4. delayed' \in [DOMAIN delayed' -> BOOLEAN] /\ DOMAIN delayed' \subseteq DOMAIN ledger
    <3>1. delayed \in [DOMAIN delayed -> BOOLEAN] /\ DOMAIN delayed \subseteq DOMAIN ledger
      BY <1>a DEF TypeOK
    <3>2. CASE delayed' = DeleteRow(delayed, i)
      BY <3>1, <3>2 DEF DeleteRow
    <3>3. ASSUME NEW due \in BOOLEAN, delayed' = InsertRow(delayed, i, due)
          PROVE  /\ delayed' \in [DOMAIN delayed' -> BOOLEAN]
                 /\ DOMAIN delayed' \subseteq DOMAIN ledger
      BY <3>1, <3>3 DEF InsertRow
    <3> QED
      BY <2>3, <3>2, <3>3
  <2>5. /\ UNCHANGED <<envelopes, ready, failedJobs, pushing, ledger, dropped>>
        /\ LetGo(w)
    BY <1>18 DEF Clear, ReleaseDelayed
  <2> QED
    BY <1>a, <2>1, <2>4, <2>5, LetGoTypes DEF TypeOK
<1>19. ASSUME NEW w \in Worker, RecordFailed(w) PROVE TypeOK'
  <2>1. pc' \in [Worker -> PcStates]
    BY <1>a, <1>19, StepTypes DEF RecordFailed, PcStates
  <2>2. envelope[w].payload \in Seq(Job)
    BY <1>a, <1>19 DEF RecordFailed, Step, Linked, WorkerLinked, EmptyHanded, Loaded,
       PcStates, Envelope, Payload
  <2> QED
    BY <1>a, <1>19, <2>1, <2>2 DEF RecordFailed, TypeOK, store, local
<1>20. ASSUME NEW w \in Worker, Succeed(w) PROVE TypeOK'
  <2>1. PICK to \in {"chain", "find"} : Step(w, "run", to)
    BY <1>20 DEF Succeed
  <2>2. pc' \in [Worker -> PcStates]
    BY <1>a, <2>1, StepTypes DEF PcStates
  <2>3. PICK i \in DOMAIN ledger : i = element[w]
    BY <1>a, <2>1 DEF Step, TypeOK, Linked, WorkerLinked, EmptyHanded
  <2>4. ledger' = [ledger EXCEPT ![i].handled = TRUE]
    BY <1>20, <2>3 DEF Succeed
  <2>5. ledger' \in Seq(Entry)
    BY <1>a, <2>4, SuccessMarks
  <2>6. DOMAIN ledger \subseteq DOMAIN ledger'
    BY <1>a, <2>4, SuccessMarks
  <2>7. /\ UNCHANGED <<store, failedJobs, local, dropped>>
        /\ pushing' \in [Worker \cup {App} -> Pushing]
    BY <1>a, <1>20 DEF Succeed, TypeOK
  <2> QED
    BY <1>a, <2>2, <2>5, <2>6, <2>7, LedgerTypes
<1>21. ASSUME NEW w \in Worker, Fail(w) \/ FinishFails(w) PROVE TypeOK'
  <2>1. pc[w] \in {"run", "chain", "find", "del", "clear"} /\ Caught(w)
    BY <1>21 DEF Fail, FinishFails, Finishing
  <2>2. pushing' \in [Worker \cup {App} -> Pushing]
    <3>1. NotPushing \in Pushing /\ pushing \in [Worker \cup {App} -> Pushing]
      BY <1>a DEF TypeOK, NotPushing, Pushing
    <3>2. UNCHANGED pushing \/ pushing' = [pushing EXCEPT ![w] = NotPushing]
      BY <1>21 DEF Fail, FinishFails
    <3> QED
      BY <3>1, <3>2
  <2> QED
    BY <2>1, <2>2, CaughtTypes
<1>22. ASSUME NEW w \in Worker, CrashWorker(w) \/ CatchFails(w) PROVE TypeOK'
  <2>1. Stop(w)
    BY <1>22 DEF CrashWorker, CatchFails
  <2>2. /\ dropped' \subseteq DOMAIN ledger
        /\ pushing' \in [Worker \cup {App} -> Pushing]
    BY <2>1, DropsTypes DEF Stop
  <2> QED
    BY <1>a, <2>1, <2>2 DEF Stop, TypeOK, PcStates, store
<1>23. ASSUME NEW w \in Worker, PopFails(w) PROVE TypeOK'
  <2>1. /\ dropped' \subseteq DOMAIN ledger
        /\ pushing' \in [Worker \cup {App} -> Pushing]
    BY <1>23, DropsTypes DEF PopFails
  <2>2. pc' \in [Worker -> PcStates]
    BY <1>a, <1>23 DEF PopFails, TypeOK, PcStates
  <2> QED
    BY <1>a, <1>23, <2>1, <2>2, LetGoTypes, LocalTypes DEF PopFails, TypeOK
<1>24. ASSUME UNCHANGED vars PROVE TypeOK'
  BY <1>a, <1>24 DEF TypeOK, vars, local
<1> QED
  BY <1>1, <1>2, <1>3, <1>4, <1>5, <1>6, <1>7, <1>8, <1>9, <1>10, <1>11, <1>12, <1>13,
     <1>14, <1>15, <1>16, <1>17, <1>18, <1>19, <1>20, <1>21, <1>22, <1>23, <1>24
     DEF Next, Produce, WorkerStep, PopStep, JobStep, Fault
-----------------------------------------------------------------------------
(***************************************************************************)
(* The links between ids, envelopes, pushes and hands.                     *)
(***************************************************************************)
KeepsPushed == \A i \in DOMAIN ledger : ledger'[i].pushed = ledger[i].pushed

LEMMA PushFrame ==
    ASSUME TypeInv, KeepsEntries, KeepsPushed,
           \A a \in Worker \cup {App} : pushing'[a] = pushing[a] \/ pushing'[a] = NotPushing,
           \A i \in DOMAIN envelopes : i \in DOMAIN envelopes' \/ ledger[i].pushed
    PROVE  \A a \in Worker \cup {App} : PushLinked(a)'
<1> SUFFICES ASSUME NEW a \in Worker \cup {App} PROVE PushLinked(a)'
  OBVIOUS
<1>1. PushLinked(a)
  BY DEF TypeInv, Linked
<1>2. CASE pushing'[a].at = "idle"
  BY <1>1, <1>2 DEF PushLinked, NotPushing
<1>3. CASE pushing'[a].at # "idle"
  <2>1. pushing'[a] = pushing[a]
    BY <1>3 DEF NotPushing
  <2>2. /\ pushing[a].id \in DOMAIN ledger'
        /\ ~ledger'[pushing[a].id].pushed
        /\ pushing[a].at = "link" => pushing[a].id \in DOMAIN envelopes'
    BY <1>1, <1>3, <2>1 DEF PushLinked, KeepsEntries, KeepsPushed
  <2>3. ASSUME NEW b \in Worker \cup {App}, b # a, pushing'[b].at # "idle"
        PROVE  pushing'[b].id # pushing[a].id
    BY <1>1, <1>3, <2>1, <2>3 DEF PushLinked, NotPushing
  <2> QED
    BY <1>3, <2>1, <2>2, <2>3 DEF PushLinked
<1> QED
  BY <1>2, <1>3

NoNewPush(w) ==
    \/ pushing'[w].at = "idle"
    \/ pushing'[w] = pushing[w] /\ (pc[w] = "chain" => pc'[w] = "chain")

KeepsHand(w) ==
    /\ element'[w] = element[w] /\ envelope'[w] = envelope[w]
    /\ todo'[w] \subseteq todo[w]
    /\ pc'[w] \in EmptyHanded <=> pc[w] \in EmptyHanded
    /\ pc'[w] \in Loaded => pc[w] \in Loaded
    /\ pc'[w] = "chain" => pc[w] = "chain" \/ Chained(w)
    /\ NoNewPush(w)

LetsGo(w) ==
    /\ element'[w] = 0 /\ pc'[w] \in EmptyHanded
    /\ todo'[w] \subseteq todo[w]
    /\ pushing'[w].at = "idle"

LEMMA WorkerFrame ==
    ASSUME TypeInv, KeepsEntries, NEW w \in Worker, KeepsHand(w) \/ LetsGo(w)
    PROVE  WorkerLinked(w)'
<1>1. /\ WorkerLinked(w) /\ element[w] \in DOMAIN ledger \cup {0}
      /\ todo[w] \subseteq DOMAIN ledger /\ PushLinked(w)
  BY DEF TypeInv, TypeOK, Linked
<1>2. \A i \in todo'[w] : ledger'[i].pushed
  BY <1>1 DEF KeepsHand, LetsGo, WorkerLinked, KeepsEntries
<1>3. CASE LetsGo(w)
  BY <1>2, <1>3 DEF LetsGo, WorkerLinked, ChainLinked, EmptyHanded, Loaded
<1>4. CASE KeepsHand(w)
  <2>1. element'[w] # 0 => ledger'[element'[w]].pushed
    BY <1>1, <1>4 DEF KeepsHand, WorkerLinked, KeepsEntries
  <2>2. pc'[w] \in EmptyHanded <=> element'[w] = 0
    BY <1>1, <1>4 DEF KeepsHand, WorkerLinked
  <2>3. pc'[w] \in Loaded => /\ envelope'[w] \in Envelope
                             /\ envelope'[w].payload = ledger'[element'[w]].payload
    <3>1. pc[w] \in Loaded => pc[w] \notin EmptyHanded
      BY DEF Loaded
    <3>2. pc[w] \in Loaded => element[w] \in DOMAIN ledger
      BY <1>1, <3>1 DEF WorkerLinked
    <3> QED
      BY <1>1, <1>4, <3>2 DEF KeepsHand, WorkerLinked, KeepsEntries
  <2>4. pc'[w] = "chain" => Len(envelope'[w].payload) > 1
    BY <1>1, <1>4 DEF KeepsHand, WorkerLinked, Chained
  <2>5. pushing'[w].at # "idle" =>
            /\ pc'[w] = "chain"
            /\ ledger'[pushing'[w].id].payload = Tail(envelope'[w].payload)
    BY <1>1, <1>4 DEF KeepsHand, NoNewPush, WorkerLinked, ChainLinked, PushLinked, KeepsEntries
  <2> QED
    BY <1>2, <2>1, <2>2, <2>3, <2>4, <2>5 DEF WorkerLinked, ChainLinked, Chained
<1> QED
  BY <1>3, <1>4

EnvelopesLink ==
    \A i \in DOMAIN envelopes' :
        \/ i \in DOMAIN envelopes /\ envelopes'[i].payload = envelopes[i].payload
        \/ envelopes'[i].payload = ledger'[i].payload

DelayedLink == \A i \in DOMAIN delayed' : i \in DOMAIN delayed \/ ledger'[i].pushed

ReadyLink ==
    \A k \in DOMAIN ready' : \/ \E l \in DOMAIN ready : ready'[k] = ready[l]
                             \/ ledger'[ready'[k]].pushed

LEMMA LinkedFrame ==
    ASSUME TypeInv, KeepsEntries, EnvelopesLink, DelayedLink, ReadyLink,
           \A a \in Worker \cup {App} : PushLinked(a)',
           \A w \in Worker : KeepsHand(w) \/ LetsGo(w) \/ WorkerLinked(w)'
    PROVE  Linked'
<1>a. TypeOK /\ Linked
  BY DEF TypeInv
<1>1. \A w \in Worker : WorkerLinked(w)'
  BY WorkerFrame
<1>2. \A i \in DOMAIN envelopes' : envelopes'[i].payload = ledger'[i].payload
  BY <1>a DEF TypeOK, Linked, EnvelopesLink, KeepsEntries
<1>3. \A i \in DOMAIN delayed' : ledger'[i].pushed
  BY <1>a DEF TypeOK, Linked, DelayedLink, KeepsEntries
<1>4. \A k \in DOMAIN ready' : ledger'[ready'[k]].pushed
  <2>1. \A l \in DOMAIN ready : ready[l] \in DOMAIN ledger
    BY <1>a, ElementOfSeq, LenProperties DEF TypeOK
  <2> QED
    BY <1>a, <2>1 DEF Linked, ReadyLink, KeepsEntries
<1> QED
  BY <1>1, <1>2, <1>3, <1>4 DEF Linked

\* One process takes a step at a time.
OnlyActs(w) ==
    /\ \A v \in Worker \ {w} :
           /\ pc'[v] = pc[v] /\ element'[v] = element[v] /\ envelope'[v] = envelope[v]
           /\ todo'[v] = todo[v]
    /\ \A a \in (Worker \cup {App}) \ {w} : pushing'[a] = pushing[a]

LEMMA OthersKeep ==
    ASSUME TypeOK, NEW w, OnlyActs(w)
    PROVE  \A v \in Worker \ {w} : KeepsHand(v)
BY DEF OnlyActs, KeepsHand, NoNewPush

LEMMA WorkersActAlone ==
    ASSUME TypeOK, NEW w \in Worker, WorkerStep(w) \/ Fault(w)
    PROVE  OnlyActs(w)
<1>1. CASE PopStep(w)
  BY <1>1 DEF TypeOK, PopStep, Start, Exit, FindDue, Undelay, Promote, AllPromoted, Pop,
     PopNothing, LoadNothing, Load, Reserve, Index, Wake, Step, LetGo, local, OnlyActs
<1>2. CASE JobStep(w)
  BY <1>2 DEF TypeOK, JobStep, Succeed, Fail, Caught, PushNext, TakeId, SaveNew, PushedNext,
     Link, FindForDelete, FindNothing, Delete, Clear, RecordFailed, FindForRelease, Rewrite,
     ReleaseDelayed, Step, LetGo, local, OnlyActs
<1>3. CASE Fault(w)
  BY <1>3 DEF TypeOK, Fault, Signal, CrashWorker, PopFails, FinishFails, CatchFails, Caught,
     Stop, Drops, LetGo, local, OnlyActs
<1> QED
  BY <1>1, <1>2, <1>3 DEF WorkerStep

\* A step of a worker that neither takes nor links an id.
LEMMA WorkerLinks ==
    ASSUME TypeInv, NEW w \in Worker, OnlyActs(w), KeepsEntries, KeepsPushed,
           EnvelopesLink, DelayedLink, ReadyLink,
           \A i \in DOMAIN envelopes : i \in DOMAIN envelopes' \/ ledger[i].pushed,
           pushing'[w] = pushing[w] \/ pushing'[w] = NotPushing,
           KeepsHand(w) \/ LetsGo(w) \/ WorkerLinked(w)'
    PROVE  Linked'
<1>1. \A a \in Worker \cup {App} : pushing'[a] = pushing[a] \/ pushing'[a] = NotPushing
  BY DEF OnlyActs
<1>2. \A a \in Worker \cup {App} : PushLinked(a)'
  BY <1>1, PushFrame
<1>3. \A v \in Worker : KeepsHand(v) \/ LetsGo(v) \/ WorkerLinked(v)'
  BY OthersKeep DEF TypeInv
<1> QED
  BY <1>2, <1>3, LinkedFrame

LEMMA SameStoreLinks ==
    ASSUME UNCHANGED <<store, ledger>>
    PROVE  /\ KeepsEntries /\ KeepsPushed /\ EnvelopesLink /\ DelayedLink /\ ReadyLink
           /\ \A i \in DOMAIN envelopes : i \in DOMAIN envelopes'
BY DEF store, KeepsEntries, KeepsPushed, EnvelopesLink, DelayedLink, ReadyLink

LEMMA LocalStepLinks ==
    ASSUME TypeInv, NEW w \in Worker, OnlyActs(w),
           \/ Start(w) \/ Exit(w) \/ AllPromoted(w) \/ PopNothing(w) \/ Wake(w) \/ Index(w)
           \/ FindForDelete(w) \/ RecordFailed(w) \/ Signal(w)
    PROVE  Linked'
<1>1. UNCHANGED <<store, ledger, pushing, element, envelope, todo>>
  BY DEF Start, Exit, AllPromoted, PopNothing, Wake, Index, FindForDelete, RecordFailed,
     Signal, local
<1>2. KeepsHand(w)
  <2>1. /\ pc'[w] \in EmptyHanded <=> pc[w] \in EmptyHanded
        /\ pc'[w] \in Loaded => pc[w] \in Loaded
        /\ pc'[w] = pc[w] \/ (pc[w] # "chain" /\ pc'[w] # "chain")
    <3>1. pc \in [Worker -> PcStates]
      BY DEF TypeInv, TypeOK
    <3>2. CASE Start(w) \/ Exit(w) \/ AllPromoted(w) \/ PopNothing(w) \/ Wake(w)
      BY <3>1, <3>2 DEF Start, Exit, AllPromoted, PopNothing, Wake, Step, EmptyHanded, Loaded
    <3>3. CASE Index(w) \/ FindForDelete(w) \/ RecordFailed(w)
      <4>1. /\ pc[w] \in {"index", "find", "discard", "record"}
            /\ pc'[w] \in {"run", "del", "discardDel", "discard"}
        BY <3>1, <3>3 DEF Index, FindForDelete, RecordFailed, Step
      <4>2. pc[w] \in Loaded /\ pc'[w] \in Loaded /\ pc[w] # "chain" /\ pc'[w] # "chain"
        BY <4>1 DEF EmptyHanded, Loaded, PcStates
      <4> QED
        BY <4>2 DEF Loaded, EmptyHanded
    <3>4. CASE Signal(w)
      <4>1. pc' = pc
        BY <3>4 DEF Signal
      <4> QED
        BY <4>1
    <3> QED
      BY <3>2, <3>3, <3>4
  <2>2. NoNewPush(w)
    BY <1>1, <2>1 DEF NoNewPush, TypeInv, Linked, WorkerLinked, ChainLinked
  <2> QED
    BY <1>1, <2>1, <2>2 DEF KeepsHand
<1> QED
  BY <1>1, <1>2, WorkerLinks, SameStoreLinks

LEMMA LetGoStepLinks ==
    ASSUME TypeInv, NEW w \in Worker, OnlyActs(w),
           \/ LoadNothing(w) \/ FindNothing(w) \/ PopFails(w) \/ CrashWorker(w) \/ CatchFails(w)
    PROVE  Linked'
<1>1. UNCHANGED <<store, ledger>>
  BY DEF LoadNothing, FindNothing, PopFails, CrashWorker, CatchFails, Stop
<1>2. LetsGo(w) /\ (pushing'[w] = pushing[w] \/ pushing'[w] = NotPushing)
  <2>1. /\ element'[w] = 0 /\ todo'[w] = {} /\ pc'[w] \in EmptyHanded
    BY DEF LoadNothing, FindNothing, PopFails, CrashWorker, CatchFails, Stop, LetGo, Step,
       EmptyHanded, TypeInv, TypeOK
  <2>2. \/ UNCHANGED pushing /\ pc[w] # "chain"
        \/ pushing'[w] = NotPushing
    BY DEF LoadNothing, FindNothing, PopFails, CrashWorker, CatchFails, Stop, Drops, Step,
       TypeInv, TypeOK
  <2>3. pc[w] # "chain" => pushing[w].at = "idle"
    BY DEF TypeInv, Linked, WorkerLinked, ChainLinked
  <2> QED
    BY <2>1, <2>2, <2>3 DEF LetsGo, NotPushing
<1> QED
  BY <1>1, <1>2, WorkerLinks, SameStoreLinks

LEMMA LoadStepLinks ==
    ASSUME TypeInv, NEW w \in Worker, OnlyActs(w),
           FindDue(w) \/ Load(w) \/ FindForRelease(w)
    PROVE  Linked'
<1>1. UNCHANGED <<store, ledger, pushing, element>>
  BY DEF FindDue, Load, FindForRelease
<1>2. pc[w] # "chain" /\ pushing[w].at = "idle"
  BY DEF FindDue, Load, FindForRelease, Step, TypeInv, Linked, WorkerLinked, ChainLinked
<1>a. TypeOK /\ Linked /\ WorkerLinked(w)
  BY DEF TypeInv, Linked
<1>3. CASE FindDue(w)
  <2>1. pc[w] = "loop" /\ pc'[w] = "promote" /\ todo'[w] = Due
    BY <1>a, <1>3 DEF FindDue, Step, TypeOK
  <2>2. \A i \in Due : ledger[i].pushed
    BY <1>a DEF Due, Linked
  <2>3. WorkerLinked(w)'
    BY <1>a, <1>1, <1>2, <2>1, <2>2 DEF WorkerLinked, ChainLinked, EmptyHanded, Loaded
  <2> QED
    BY <1>1, <2>3, WorkerLinks, SameStoreLinks
<1>4. CASE Load(w) \/ FindForRelease(w)
  <2>1. /\ pc[w] \notin EmptyHanded /\ pc'[w] \notin EmptyHanded \cup {"chain"}
        /\ envelope'[w] = envelopes[element[w]] /\ element[w] \in DOMAIN envelopes
        /\ todo'[w] = todo[w]
    BY <1>a, <1>4 DEF Load, FindForRelease, Step, TypeOK, EmptyHanded
  <2>2. /\ envelope'[w] \in Envelope
        /\ envelope'[w].payload = ledger[element[w]].payload
    BY <1>a, <2>1 DEF TypeOK, Linked
  <2>3. WorkerLinked(w)'
    BY <1>a, <1>1, <1>2, <2>1, <2>2 DEF WorkerLinked, ChainLinked
  <2> QED
    BY <1>1, <2>3, WorkerLinks, SameStoreLinks
<1> QED
  BY <1>3, <1>4

LEMMA MoveStepLinks ==
    ASSUME TypeInv, NEW w \in Worker, OnlyActs(w),
           Undelay(w) \/ Promote(w) \/ Pop(w) \/ Clear(w) \/ ReleaseDelayed(w)
    PROVE  Linked'
<1>a. TypeOK /\ Linked /\ WorkerLinked(w)
  BY DEF TypeInv, Linked
<1>1. UNCHANGED <<envelopes, ledger, pushing>>
  BY DEF Undelay, Promote, Pop, Clear, ReleaseDelayed
<1>2. pc[w] # "chain" /\ pushing[w].at = "idle"
  BY <1>a DEF Undelay, Promote, Pop, Clear, ReleaseDelayed, Step, WorkerLinked, ChainLinked
<1>3. /\ KeepsEntries /\ KeepsPushed /\ EnvelopesLink
      /\ \A i \in DOMAIN envelopes : i \in DOMAIN envelopes'
      /\ pushing'[w] = pushing[w]
  BY <1>1 DEF KeepsEntries, KeepsPushed, EnvelopesLink
<1>4. CASE Undelay(w)
  <2>1. PICK i \in todo[w] : /\ element' = [element EXCEPT ![w] = i]
                             /\ todo' = [todo EXCEPT ![w] = @ \ {i}]
                             /\ delayed' = DeleteRow(delayed, i)
    BY <1>4 DEF Undelay
  <2>2. i \in DOMAIN ledger /\ ledger[i].pushed /\ i # 0
    BY <1>a, LedgerDomain DEF TypeOK, WorkerLinked
  <2>3. element'[w] = i /\ todo'[w] \subseteq todo[w] /\ pc'[w] = "promoted" /\ UNCHANGED ready
    BY <1>a, <1>4, <2>1 DEF Undelay, Step, TypeOK
  <2>4. DelayedLink /\ ReadyLink
    BY <2>1, <2>3 DEF DelayedLink, ReadyLink, DeleteRow
  <2>5. WorkerLinked(w)'
    BY <1>a, <1>1, <1>2, <2>2, <2>3 DEF WorkerLinked, ChainLinked, EmptyHanded, Loaded
  <2> QED
    BY <1>3, <2>4, <2>5, WorkerLinks
<1>5. CASE Promote(w)
  <2>1. /\ element[w] \in DOMAIN ledger /\ ledger[element[w]].pushed
        /\ PushReady(element[w]) /\ ready \in Seq(DOMAIN ledger)
    BY <1>a, <1>5 DEF Promote, Step, TypeOK, WorkerLinked, EmptyHanded
  <2>2. ReadyLink
    <3>1. /\ DOMAIN ready' = DOMAIN ready \cup {Len(ready) + 1}
          /\ \A k \in DOMAIN ready : ready'[k] = ready[k]
          /\ ready'[Len(ready) + 1] = element[w]
      BY <2>1, PushReadyTypes
    <3> QED
      BY <1>1, <2>1, <3>1 DEF ReadyLink
  <2>3. LetsGo(w) /\ DelayedLink
    BY <1>a, <1>1, <1>2, <1>5 DEF Promote, Step, LetsGo, EmptyHanded, TypeOK, DelayedLink
  <2> QED
    BY <1>3, <2>2, <2>3, WorkerLinks
<1>6. CASE Pop(w)
  <2>1. ready \in Seq(DOMAIN ledger) /\ ready # <<>> /\ ready' = Tail(ready)
    BY <1>a, <1>6 DEF TypeOK, Pop
  <2>2. ReadyLink
    BY <2>1, PopReadyTypes DEF ReadyLink
  <2>3. element'[w] \in DOMAIN ledger \ {0} /\ ledger[element'[w]].pushed
    <3>1. 1 \in DOMAIN ready /\ element'[w] = ready[1] /\ ready[1] \in DOMAIN ledger
      BY <1>a, <1>6, <2>1, PopReadyTypes DEF Pop, TypeOK
    <3> QED
      BY <1>a, <3>1, LedgerDomain DEF Linked
  <2>4. todo'[w] = todo[w] /\ pc'[w] = "load" /\ DelayedLink
    BY <1>a, <1>6 DEF Pop, Step, TypeOK, DelayedLink
  <2>5. WorkerLinked(w)'
    BY <1>a, <1>1, <1>2, <2>3, <2>4 DEF WorkerLinked, ChainLinked, EmptyHanded, Loaded
  <2> QED
    BY <1>3, <2>2, <2>4, <2>5, WorkerLinks
<1>7. CASE Clear(w) \/ ReleaseDelayed(w)
  <2>1. PICK i \in DOMAIN ledger : i = element[w] /\ ledger[i].pushed
    BY <1>a, <1>7 DEF Clear, ReleaseDelayed, Step, TypeOK, WorkerLinked, EmptyHanded
  <2>2. \/ delayed' = DeleteRow(delayed, i)
        \/ \E due \in BOOLEAN : delayed' = InsertRow(delayed, i, due)
    BY <1>7, <2>1 DEF Clear, ReleaseDelayed, Delay
  <2>3. DelayedLink
    BY <1>1, <2>1, <2>2 DEF DelayedLink, DeleteRow, InsertRow
  <2>4. ReadyLink /\ LetGo(w) /\ pc'[w] = "loop"
    BY <1>a, <1>7 DEF Clear, ReleaseDelayed, Step, ReadyLink, TypeOK
  <2>5. LetsGo(w)
    BY <1>a, <1>1, <1>2, <2>4 DEF LetsGo, LetGo, EmptyHanded, TypeOK
  <2> QED
    BY <1>3, <2>3, <2>4, <2>5, WorkerLinks
<1> QED
  BY <1>4, <1>5, <1>6, <1>7

LEMMA EnvelopeStepLinks ==
    ASSUME TypeInv, NEW w \in Worker, OnlyActs(w), Reserve(w) \/ Rewrite(w) \/ Delete(w)
    PROVE  Linked'
<1>a. TypeOK /\ Linked /\ WorkerLinked(w)
  BY DEF TypeInv, Linked
<1>1. UNCHANGED <<ready, delayed, ledger, pushing, element, envelope, todo>>
  BY DEF Reserve, Rewrite, Delete, local
<1>2. /\ pc[w] \in {"reserve", "rewrite", "del", "discardDel"}
      /\ pc'[w] \in {"index", "delay", "clear", "discardClear"}
  BY <1>a DEF Reserve, Rewrite, Delete, Step, TypeOK
<1>3. PICK i \in DOMAIN ledger : i = element[w] /\ ledger[i].pushed
  BY <1>a, <1>2 DEF TypeOK, WorkerLinked, EmptyHanded
<1>4. envelope[w] \in Envelope /\ envelope[w].payload = ledger[i].payload
  BY <1>a, <1>2, <1>3 DEF WorkerLinked, Loaded, PcStates, EmptyHanded
<1>5. \/ envelopes' = DeleteRow(envelopes, i)
      \/ \E e \in Envelope : /\ e.payload = ledger[i].payload
                             /\ envelopes' = InsertRow(envelopes, i, e)
  <2>1. CASE Delete(w)
    BY <1>3, <2>1 DEF Delete
  <2>2. CASE Reserve(w)
    BY <1>3, <1>4, <2>2 DEF Reserve
  <2>3. CASE Rewrite(w)
    <3>1. PICK e : e = [envelope[w] EXCEPT !.attempts = @ + 1]
      OBVIOUS
    <3>2. e \in Envelope /\ e.payload = ledger[i].payload
      BY <1>4, <3>1 DEF Envelope
    <3> QED
      BY <1>3, <2>3, <3>1, <3>2 DEF Rewrite
  <2> QED
    BY <2>1, <2>2, <2>3
<1>6. /\ EnvelopesLink
      /\ \A j \in DOMAIN envelopes : j \in DOMAIN envelopes' \/ ledger[j].pushed
  BY <1>1, <1>3, <1>5 DEF EnvelopesLink, DeleteRow, InsertRow
<1>7. KeepsEntries /\ KeepsPushed /\ DelayedLink /\ ReadyLink /\ pushing'[w] = pushing[w]
  BY <1>1 DEF KeepsEntries, KeepsPushed, DelayedLink, ReadyLink
<1>8. KeepsHand(w)
  BY <1>a, <1>1, <1>2 DEF KeepsHand, NoNewPush, EmptyHanded, Loaded, PcStates
<1> QED
  BY <1>6, <1>7, <1>8, WorkerLinks

\* A run that ends notes its outcome, and nothing else, in the ledger.
LEMMA RunMarks ==
    ASSUME TypeInv, NEW w \in Worker, NEW i, i = element[w],
           Succeed(w) \/ Fail(w) \/ FinishFails(w)
    PROVE  /\ KeepsEntries /\ KeepsPushed
           /\ i \in DOMAIN ledger /\ DOMAIN ledger' = DOMAIN ledger
           /\ \A j \in DOMAIN ledger : j # i => ledger'[j] = ledger[j]
           /\ Succeed(w) => /\ ledger'[i].handled
                            /\ ledger'[i].failures = ledger[i].failures
                            /\ ledger'[i].givenUp = ledger[i].givenUp
           /\ ~Succeed(w) => /\ ledger'[i].failures = ledger[i].failures + 1
                             /\ ledger'[i].givenUp = (ledger[i].givenUp \/ GivesUp(w))
<1>1. TypeOK
  BY DEF TypeInv
<1>2. /\ pc[w] \in {"run", "chain", "find", "del", "clear"}
      /\ Fail(w) \/ FinishFails(w) => Caught(w)
  BY DEF Succeed, Fail, FinishFails, Finishing, Step
<1>3. i \in DOMAIN ledger
  BY <1>2 DEF TypeInv, TypeOK, Linked, WorkerLinked, EmptyHanded
<1>4. ledger[i] \in Entry
  BY <1>1, <1>3, LedgerDomain
<1>5. CASE Succeed(w)
  <2>1. ledger' = [ledger EXCEPT ![i].handled = TRUE]
    BY <1>5 DEF Succeed
  <2>2. DOMAIN ledger' = DOMAIN ledger
    BY <1>1, <1>3, <2>1, SuccessMarks
  <2>3. ledger'[i] = [ledger[i] EXCEPT !.handled = TRUE]
    BY <1>1, <1>3, <2>1, SuccessMarks
  <2>4. \A j \in DOMAIN ledger : j # i => ledger'[j] = ledger[j]
    BY <1>1, <1>3, <2>1, SuccessMarks
  <2>5. /\ ledger'[i].payload = ledger[i].payload /\ ledger'[i].pushed = ledger[i].pushed
        /\ ledger'[i].handled /\ ledger'[i].failures = ledger[i].failures
        /\ ledger'[i].givenUp = ledger[i].givenUp
    BY <1>4, <2>3 DEF Entry
  <2> QED
    BY <1>3, <1>5, <2>2, <2>4, <2>5 DEF KeepsEntries, KeepsPushed
<1>6. CASE ~Succeed(w)
  <2>1. ledger' = [ledger EXCEPT ![i] = FailedEntry(@, GivesUp(w))]
    BY <1>2, <1>6 DEF Caught
  <2>2. PICK g \in BOOLEAN : g = GivesUp(w)
    <3>1. GivesUp(w) \in BOOLEAN
      BY DEF GivesUp
    <3> QED
      BY <3>1
  <2>3. ledger' = [ledger EXCEPT ![i] = FailedEntry(@, g)]
    BY <2>1, <2>2
  <2>4. DOMAIN ledger' = DOMAIN ledger
    BY <1>1, <1>3, <2>3, FailureMarks
  <2>5. ledger'[i] = FailedEntry(ledger[i], g)
    BY <1>1, <1>3, <2>3, FailureMarks
  <2>6. \A j \in DOMAIN ledger : j # i => ledger'[j] = ledger[j]
    BY <1>1, <1>3, <2>3, FailureMarks
  <2>7. /\ ledger'[i].payload = ledger[i].payload /\ ledger'[i].pushed = ledger[i].pushed
        /\ ledger'[i].handled = ledger[i].handled
        /\ ledger'[i].failures = ledger[i].failures + 1
    BY <1>4, <2>5, FailedEntryTypes
  <2>8. ledger'[i].givenUp = (ledger[i].givenUp \/ g)
    BY <1>4, <2>5, FailedEntryTypes
  <2>9. ledger'[i].givenUp = (ledger[i].givenUp \/ GivesUp(w))
    BY <2>2, <2>8, Zenon
  <2>10. KeepsEntries /\ KeepsPushed
    <3>1. ledger[i].givenUp => ledger'[i].givenUp
      BY <2>8, Zenon
    <3> QED
      BY <1>3, <2>4, <2>6, <2>7, <3>1 DEF KeepsEntries, KeepsPushed
  <2> QED
    BY <1>3, <1>6, <2>4, <2>6, <2>7, <2>9, <2>10
<1> QED
  BY <1>5, <1>6

LEMMA RunStepLinks ==
    ASSUME TypeInv, NEW w \in Worker, OnlyActs(w), Succeed(w) \/ Fail(w) \/ FinishFails(w)
    PROVE  Linked'
<1>a. TypeOK /\ Linked /\ WorkerLinked(w)
  BY DEF TypeInv, Linked
<1>1. UNCHANGED <<store, element, envelope, todo>>
  BY DEF Succeed, Fail, FinishFails, Caught, local
<1>2. /\ pc[w] \in {"run", "chain", "find", "del", "clear"}
      /\ pc'[w] \in {"chain", "find", "record", "release"}
      /\ pc'[w] = "chain" => Chained(w)
  BY <1>a DEF Succeed, Fail, FinishFails, Finishing, Caught, Step, TypeOK
<1>3. PICK i \in DOMAIN ledger : i = element[w]
  BY <1>a, <1>2 DEF TypeOK, WorkerLinked, EmptyHanded
<1>4. KeepsEntries /\ KeepsPushed
  BY <1>3, RunMarks
<1>5. /\ EnvelopesLink /\ DelayedLink /\ ReadyLink
      /\ \A j \in DOMAIN envelopes : j \in DOMAIN envelopes'
  BY <1>1 DEF store, EnvelopesLink, DelayedLink, ReadyLink
<1>6. /\ pushing'[w] = pushing[w] \/ pushing'[w] = NotPushing
      /\ NoNewPush(w)
  <2>1. CASE FinishFails(w)
    BY <1>a, <2>1 DEF FinishFails, TypeOK, NoNewPush, NotPushing
  <2>2. CASE Succeed(w) \/ Fail(w)
    BY <1>a, <2>2 DEF Succeed, Fail, Step, NoNewPush, WorkerLinked, ChainLinked
  <2> QED
    BY <2>1, <2>2
<1>7. KeepsHand(w)
  BY <1>1, <1>2, <1>6 DEF KeepsHand, EmptyHanded, Loaded, PcStates
<1> QED
  BY <1>4, <1>5, <1>6, <1>7, WorkerLinks

\* Taking an id links nothing yet: the id is new.
LEMMA TakeLinks ==
    ASSUME TypeInv, NEW a \in Worker \cup {App}, NEW payload \in Payload,
           NEW later \in BOOLEAN, TakeId(a, payload, later),
           a \in Worker => pc[a] = "chain" /\ payload = Tail(envelope[a].payload),
           UNCHANGED <<store, failedJobs, pc, local, dropped>>
    PROVE  Linked'
<1>a. TypeOK /\ Linked /\ Len(ledger) + 1 # 0
  BY LedgerDomain DEF TypeInv
<1>0. PICK n : n = Len(ledger) + 1
  OBVIOUS
<1>1. /\ DOMAIN ledger' = DOMAIN ledger \cup {n} /\ n \notin DOMAIN ledger
      /\ \A i \in DOMAIN ledger : ledger'[i] = ledger[i]
  BY <1>a, <1>0, TakenId
<1>2. ledger'[n].payload = payload /\ ~ledger'[n].pushed
  <2>1. ledger'[n] = Fresh(payload)
    BY <1>a, <1>0, TakenId
  <2>2. Fresh(payload).payload = payload /\ Fresh(payload).pushed = FALSE
    BY DEF Fresh
  <2> QED
    BY <2>1, <2>2
<1>3. /\ pushing'[a].at = "save" /\ pushing'[a].id = n
      /\ \A b \in Worker \cup {App} : b # a => pushing'[b] = pushing[b]
  BY <1>a, <1>0 DEF TakeId, TypeOK
<1>4. /\ KeepsEntries /\ EnvelopesLink /\ DelayedLink /\ ReadyLink
      /\ DOMAIN envelopes' = DOMAIN envelopes
  BY <1>a, <1>1 DEF KeepsEntries, EnvelopesLink, DelayedLink, ReadyLink, store
<1>5. ASSUME NEW b \in Worker \cup {App} PROVE PushLinked(b)'
  <2>1. CASE b = a
    <3>1. \A c \in Worker \cup {App} : c # a /\ pushing[c].at # "idle" =>
              pushing[c].id # n
      BY <1>a, <1>1 DEF Linked, PushLinked
    <3> QED
      BY <1>1, <1>2, <1>3, <2>1, <3>1 DEF PushLinked
  <2>2. CASE b # a
    <3>1. PushLinked(b) /\ pushing'[b] = pushing[b]
      BY <1>a, <1>3, <2>2 DEF Linked
    <3>2. CASE pushing[b].at = "idle"
      BY <3>1, <3>2 DEF PushLinked
    <3>3. CASE pushing[b].at # "idle"
      <4>1. pushing[b].id \in DOMAIN ledger /\ pushing[b].id # n
        BY <1>1, <3>1, <3>3 DEF PushLinked
      <4>2. \A c \in Worker \cup {App} : c # b /\ pushing'[c].at # "idle" =>
                pushing'[c].id # pushing[b].id
        BY <1>3, <3>1, <3>3, <4>1 DEF PushLinked
      <4> QED
        BY <1>1, <1>4, <3>1, <3>3, <4>1, <4>2 DEF PushLinked
    <3> QED
      BY <3>2, <3>3
  <2> QED
    BY <2>1, <2>2
<1>6. ASSUME NEW w \in Worker PROVE KeepsHand(w) \/ WorkerLinked(w)'
  <2>1. UNCHANGED <<pc, element, envelope, todo>>
    BY DEF local
  <2>2. CASE w # a
    BY <1>3, <2>1, <2>2 DEF KeepsHand, NoNewPush
  <2>3. CASE w = a
    <3>1. WorkerLinked(w) /\ element[w] \in DOMAIN ledger /\ todo[w] \subseteq DOMAIN ledger
      BY <1>a, <2>3 DEF Linked, WorkerLinked, EmptyHanded, TypeOK
    <3> QED
      BY <1>1, <1>2, <1>3, <2>1, <2>3, <3>1 DEF WorkerLinked, ChainLinked, Chained
  <2> QED
    BY <2>2, <2>3
<1> QED
  BY <1>4, <1>5, <1>6, LinkedFrame

LEMMA SaveLinks ==
    ASSUME TypeInv, NEW a \in Worker \cup {App}, SaveNew(a)
    PROVE  Linked'
<1>a. TypeOK /\ Linked
  BY DEF TypeInv
<1>1. PICK i \in DOMAIN ledger : i = pushing[a].id
  BY <1>a DEF Linked, PushLinked, SaveNew
<1>2. PICK e : /\ e = [payload |-> ledger[i].payload, attempts |-> 0]
               /\ envelopes' = InsertRow(envelopes, i, e)
  BY <1>1 DEF SaveNew
<1>3. /\ pushing' = [pushing EXCEPT ![a].at = "link"]
      /\ UNCHANGED <<ready, delayed, pc, local, ledger>>
  BY DEF SaveNew
<1>4. /\ pushing'[a].at = "link" /\ pushing'[a].id = i
      /\ \A b \in Worker \cup {App} : b # a => pushing'[b] = pushing[b]
  BY <1>a, <1>1, <1>3 DEF TypeOK, Pushing
<1>5. /\ KeepsEntries /\ EnvelopesLink /\ DelayedLink /\ ReadyLink
      /\ DOMAIN envelopes' = DOMAIN envelopes \cup {i}
  BY <1>2, <1>3 DEF KeepsEntries, EnvelopesLink, DelayedLink, ReadyLink, InsertRow
<1>6. ASSUME NEW b \in Worker \cup {App} PROVE PushLinked(b)'
  <2>1. PushLinked(b)
    BY <1>a DEF Linked
  <2>2. \A c \in Worker \cup {App} : pushing'[c].id = pushing[c].id
    BY <1>1, <1>4
  <2>3. \A c \in Worker \cup {App} : pushing'[c].at # "idle" <=> pushing[c].at # "idle"
    BY <1>4 DEF SaveNew
  <2>4. pushing'[b].at = "link" => pushing[b].at = "link" \/ b = a
    BY <1>4
  <2> QED
    BY <1>1, <1>3, <1>5, <2>1, <2>2, <2>3, <2>4 DEF PushLinked
<1>7. ASSUME NEW w \in Worker PROVE KeepsHand(w) \/ WorkerLinked(w)'
  <2>1. UNCHANGED <<pc, element, envelope, todo, ledger>>
    BY <1>3 DEF local
  <2>2. CASE w # a
    BY <1>4, <2>1, <2>2 DEF KeepsHand, NoNewPush
  <2>3. CASE w = a
    <3>1. WorkerLinked(w)
      BY <1>a DEF Linked
    <3> QED
      BY <1>1, <1>4, <2>1, <2>3, <3>1 DEF WorkerLinked, ChainLinked, Chained, SaveNew
  <2> QED
    BY <2>2, <2>3
<1> QED
  BY <1>5, <1>6, <1>7, LinkedFrame

\* The end of a push: its id is marked as pushed, and nothing else changes.
LEMMA PushMarks ==
    ASSUME TypeInv, NEW a \in Worker \cup {App}, pushing[a].at = "link", Link(a),
           NEW i, i = pushing[a].id
    PROVE  /\ KeepsEntries
           /\ i \in DOMAIN ledger /\ i \in DOMAIN envelopes /\ ~ledger[i].pushed
           /\ DOMAIN ledger' = DOMAIN ledger
           /\ \A j \in DOMAIN ledger : j # i => ledger'[j] = ledger[j]
           /\ ledger'[i].payload = ledger[i].payload /\ ledger'[i].pushed
           /\ ledger'[i].handled = ledger[i].handled
           /\ ledger'[i].failures = ledger[i].failures /\ ledger'[i].givenUp = ledger[i].givenUp
<1>1. TypeOK /\ PushLinked(a)
  BY DEF TypeInv, Linked
<1>2. i \in DOMAIN ledger /\ i \in DOMAIN envelopes /\ ~ledger[i].pushed
  BY <1>1 DEF PushLinked
<1>3. ledger' = [ledger EXCEPT ![i].pushed = TRUE]
  BY DEF Link
<1>4. DOMAIN ledger' = DOMAIN ledger
  BY <1>1, <1>2, <1>3, LinkMarks
<1>5. \A j \in DOMAIN ledger : j # i => ledger'[j] = ledger[j]
  BY <1>1, <1>2, <1>3, LinkMarks
<1>6. ledger[i] \in Entry /\ ledger'[i] = [ledger[i] EXCEPT !.pushed = TRUE]
  BY <1>1, <1>2, <1>3, LinkMarks, LedgerDomain
<1>7. /\ ledger'[i].payload = ledger[i].payload /\ ledger'[i].pushed
      /\ ledger'[i].handled = ledger[i].handled
      /\ ledger'[i].failures = ledger[i].failures /\ ledger'[i].givenUp = ledger[i].givenUp
  BY <1>6 DEF Entry
<1>8. KeepsEntries
  BY <1>2, <1>4, <1>5, <1>7 DEF KeepsEntries
<1> QED
  BY <1>2, <1>4, <1>5, <1>7, <1>8

\* What LPUSH or ZADD makes reachable is an id with its envelope.
LEMMA LinkLinks ==
    ASSUME TypeInv, NEW a \in Worker \cup {App}, pushing[a].at = "link", Link(a),
           UNCHANGED <<envelopes, local>>,
           \A w \in Worker : \/ w # a /\ pc'[w] = pc[w]
                             \/ w = a /\ pc[w] = "chain" /\ pc'[w] = "find"
    PROVE  Linked'
<1>a. TypeOK /\ Linked
  BY DEF TypeInv
<1>1. PICK i \in DOMAIN ledger : i = pushing[a].id /\ i \in DOMAIN envelopes
  BY <1>a DEF Linked, PushLinked
<1>2. /\ KeepsEntries /\ DOMAIN ledger' = DOMAIN ledger
      /\ ledger'[i].payload = ledger[i].payload /\ ledger'[i].pushed
  BY <1>1, PushMarks
<1>3. \A j \in DOMAIN ledger : j # i => ledger'[j] = ledger[j]
  BY <1>1, PushMarks
<1>6. KeepsEntries /\ EnvelopesLink
  BY <1>2 DEF KeepsEntries, EnvelopesLink
<1>7. DelayedLink
  <2>1. UNCHANGED delayed \/ delayed' = InsertRow(delayed, i, FALSE)
    BY <1>1 DEF Link, Delay
  <2> QED
    BY <1>2, <2>1 DEF DelayedLink, InsertRow
<1>8. ReadyLink
  <2>1. CASE UNCHANGED ready
    BY <2>1 DEF ReadyLink
  <2>2. CASE PushReady(i)
    <3>1. ready \in Seq(DOMAIN ledger)
      BY <1>a DEF TypeOK
    <3>2. /\ DOMAIN ready' = DOMAIN ready \cup {Len(ready) + 1}
          /\ \A k \in DOMAIN ready : ready'[k] = ready[k]
          /\ ready'[Len(ready) + 1] = i
      BY <2>2, <3>1, PushReadyTypes
    <3> QED
      BY <1>2, <3>2 DEF ReadyLink
  <2> QED
    BY <1>1, <2>1, <2>2 DEF Link
<1>9. /\ pushing'[a] = NotPushing
      /\ \A b \in Worker \cup {App} : b # a => pushing'[b] = pushing[b]
  BY <1>a DEF Link, TypeOK
<1>10. ASSUME NEW b \in Worker \cup {App} PROVE PushLinked(b)'
  <2>1. CASE pushing'[b].at = "idle"
    BY <1>a, <1>9, <2>1 DEF PushLinked, NotPushing, Linked
  <2>2. CASE pushing'[b].at # "idle"
    <3>1. b # a /\ pushing'[b] = pushing[b] /\ PushLinked(b)
      BY <1>a, <1>9, <2>2 DEF NotPushing, Linked
    <3>2. pushing[b].id # i /\ pushing[b].id \in DOMAIN ledger
      BY <1>1, <2>2, <3>1 DEF PushLinked
    <3>3. \A c \in Worker \cup {App} : c # b /\ pushing'[c].at # "idle" =>
              pushing'[c].id # pushing[b].id
      BY <1>9, <2>2, <3>1 DEF PushLinked, NotPushing
    <3> QED
      BY <1>2, <1>3, <2>2, <3>1, <3>2, <3>3 DEF PushLinked
  <2> QED
    BY <2>1, <2>2
<1>11. ASSUME NEW w \in Worker PROVE KeepsHand(w)
  <2>1. UNCHANGED <<element, envelope, todo>>
    BY DEF local
  <2>2. CASE w # a
    BY <1>9, <2>1, <2>2 DEF KeepsHand, NoNewPush
  <2>3. CASE w = a
    BY <1>9, <2>1, <2>3 DEF KeepsHand, NoNewPush, NotPushing, EmptyHanded, Loaded, PcStates
  <2> QED
    BY <2>2, <2>3
<1> QED
  BY <1>6, <1>7, <1>8, <1>10, <1>11, LinkedFrame

LEMMA LinkedStep == TypeInv /\ [Next]_vars => Linked'
<1> SUFFICES ASSUME TypeInv, [Next]_vars PROVE Linked'
  OBVIOUS
<1>a. TypeOK /\ Linked
  BY DEF TypeInv
<1>1. ASSUME NEW p \in Dispatches, NEW later \in BOOLEAN, Dispatch(p, later) PROVE Linked'
  <2>1. p \in Payload /\ App \notin Worker
    BY RedisQueueAssumption
  <2> QED
    BY <1>1, <2>1, TakeLinks DEF Dispatch
<1>2. ASSUME NEW a \in Worker \cup {App}, SaveNew(a) PROVE Linked'
  BY <1>2, SaveLinks
<1>3. CASE Dispatched
  BY <1>3, LinkLinks, RedisQueueAssumption DEF Dispatched
<1>4. CASE DispatchFails
  <2>1. UNCHANGED <<store, ledger, pc, element, envelope, todo>>
    BY <1>4 DEF DispatchFails, local
  <2>2. \A a \in Worker \cup {App} : pushing'[a] = pushing[a] \/ pushing'[a] = NotPushing
    BY <1>a, <1>4 DEF DispatchFails, TypeOK
  <2>3. \A w \in Worker : KeepsHand(w)
    BY <2>1, <2>2 DEF KeepsHand, NoNewPush, NotPushing
  <2>4. \A a \in Worker \cup {App} : PushLinked(a)'
    BY <2>1, <2>2, PushFrame, SameStoreLinks
  <2> QED
    BY <2>1, <2>3, <2>4, LinkedFrame, SameStoreLinks
<1>5. ASSUME NEW i \in DOMAIN delayed, Elapse(i) PROVE Linked'
  <2>1. /\ UNCHANGED <<envelopes, ready, ledger, pushing, pc, element, envelope, todo>>
        /\ DOMAIN delayed' = DOMAIN delayed
    BY <1>a, <1>5 DEF Elapse, local, TypeOK
  <2> QED
    BY <1>a, <2>1 DEF Linked, PushLinked, WorkerLinked, ChainLinked, Chained
<1>6. ASSUME NEW w \in Worker, WorkerStep(w) \/ Fault(w) PROVE Linked'
  <2>1. OnlyActs(w)
    BY <1>a, <1>6, WorkersActAlone
  <2>2. CASE PushNext(w)
    <3>1. Tail(envelope[w].payload) \in Payload
      BY <2>2, RestOfChain DEF PushNext
    <3> QED
      BY <2>2, <3>1, TakeLinks DEF PushNext
  <2>3. CASE PushedNext(w)
    <3>1. pc[w] = "chain" /\ pc'[w] = "find" /\ \A v \in Worker : v # w => pc'[v] = pc[v]
      BY <1>a, <2>3 DEF PushedNext, Step, TypeOK
    <3> QED
      BY <2>3, <3>1, LinkLinks DEF PushedNext
  <2> QED
    BY <1>2, <1>6, <2>1, <2>2, <2>3, LocalStepLinks, LetGoStepLinks, LoadStepLinks,
       MoveStepLinks, EnvelopeStepLinks, RunStepLinks
       DEF WorkerStep, PopStep, JobStep, Fault
<1>7. CASE UNCHANGED vars
  BY <1>a, <1>7 DEF vars, local, Linked, PushLinked, WorkerLinked, ChainLinked, Chained
<1> QED
  BY <1>1, <1>2, <1>3, <1>4, <1>5, <1>6, <1>7 DEF Next, Produce

LEMMA TypeInvInit == Init => TypeInv
<1> SUFFICES ASSUME Init PROVE TypeInv
  OBVIOUS
<1>1. TypeOK
  <2>1. ledger \in Seq(Entry) /\ DOMAIN ledger = {} /\ ready \in Seq(DOMAIN ledger)
    BY DEF Init
  <2> QED
    BY <2>1 DEF Init, TypeOK, EmptyTable, NotPushing, Pushing, PcStates, Envelope
<1>2. Linked
  BY DEF Init, Linked, EmptyTable, PushLinked, WorkerLinked, ChainLinked, NotPushing,
     EmptyHanded, Loaded
<1> QED
  BY <1>1, <1>2 DEF TypeInv

\* Envelopes, ids and hands stay of their types, whatever fails.
THEOREM RedisTypes == Spec => []TypeOK
<1>1. TypeInv /\ [Next]_vars => TypeInv'
  BY TypesStep, LinkedStep DEF TypeInv
<1> QED
  BY <1>1, TypeInvInit, PTL DEF Spec, TypeInv
-----------------------------------------------------------------------------
(***************************************************************************)
(* Only jobs in somebody's hands are lost.                                 *)
(***************************************************************************)
HistoryGrows == KeepsEntries /\ failedJobs \subseteq failedJobs' /\ dropped \subseteq dropped'

LEMMA CompletedStays ==
    ASSUME TypeOK, KeepsEntries, NEW i \in DOMAIN ledger, Completed(i)
    PROVE  Completed(i)'
BY DEF Completed, KeepsEntries

LEMMA RecordedStays ==
    ASSUME HistoryGrows, NEW i \in DOMAIN ledger, Recorded(i)
    PROVE  Recorded(i)'
BY DEF Recorded, HistoryGrows, KeepsEntries

\* In a list, in the delayed set or in a worker's hands, with its envelope.
Reachable(i) == i \in DOMAIN envelopes /\ (Queued(i) \/ InHand(i) # {})

LEMMA SafetyFrame ==
    ASSUME TypeInv, EveryJobSafe, HistoryGrows, \A w \in Worker : Noted(w)',
           \A i \in DOMAIN ledger : ledger[i].pushed /\ Reachable(i) => Safe(i)',
           \A i \in DOMAIN ledger' :
               ledger'[i].pushed => Safe(i)' \/ (i \in DOMAIN ledger /\ ledger[i].pushed)
    PROVE  EveryJobSafe'
<1> SUFFICES ASSUME NEW i \in DOMAIN ledger, ledger[i].pushed PROVE Safe(i)'
  BY DEF EveryJobSafe
<1>1. Safe(i)
  BY DEF EveryJobSafe
<1>2. CASE Completed(i)
  BY <1>2, CompletedStays DEF TypeInv, HistoryGrows, Safe
<1>3. CASE Recorded(i) \/ i \in dropped
  BY <1>3, RecordedStays DEF HistoryGrows, Safe
<1>4. CASE Reachable(i)
  BY <1>4
<1> QED
  BY <1>1, <1>2, <1>3, <1>4 DEF Safe, Reachable

Deleting == {"find", "del", "clear"}
Discarding == {"discard", "discardDel", "discardClear"}

KeepsNote(w) ==
    /\ element'[w] = element[w] /\ envelope'[w] = envelope[w]
    /\ pc'[w] = "chain" => pc[w] = "chain"
    /\ pc'[w] \in Deleting => pc[w] \in Deleting
    /\ pc'[w] = "record" => pc[w] = "record"
    /\ pc'[w] \in Discarding => pc[w] \in Discarding

NothingToNote(w) == pc'[w] \notin {"chain", "record"} \cup Deleting \cup Discarding

LEMMA NotedFrame ==
    ASSUME TypeInv, HistoryGrows, NEW w \in Worker, Noted(w), KeepsNote(w) \/ NothingToNote(w)
    PROVE  Noted(w)'
<1>1. CASE NothingToNote(w)
  BY <1>1 DEF NothingToNote, Noted, Deleting, Discarding
<1>2. CASE KeepsNote(w)
  <2>1. PICK i : i = element[w]
    OBVIOUS
  <2>2. pc[w] \in {"chain", "record"} \cup Deleting \cup Discarding => i \in DOMAIN ledger
    BY <2>1 DEF TypeInv, Linked, WorkerLinked, EmptyHanded, TypeOK, Deleting, Discarding
  <2>3. pc'[w] = "chain" => ledger'[element'[w]].handled
    BY <1>2, <2>1, <2>2 DEF KeepsNote, Noted, HistoryGrows, KeepsEntries
  <2>4. pc'[w] \in Deleting => Completed(i)'
    BY <1>2, <2>1, <2>2, CompletedStays DEF KeepsNote, Noted, HistoryGrows, TypeInv, Deleting
  <2>5. element'[w] = i
    BY <1>2, <2>1 DEF KeepsNote
  <2>6. pc'[w] \in Deleting => Completed(element[w])'
    BY <2>4, <2>5 DEF Completed
  <2>7. pc'[w] = "record" => ledger'[element'[w]].givenUp
    BY <1>2, <2>1, <2>2 DEF KeepsNote, Noted, HistoryGrows, KeepsEntries
  <2>8. pc'[w] \in Discarding => Recorded(i)'
    BY <1>2, <2>1, <2>2, RecordedStays DEF KeepsNote, Noted, Discarding
  <2>9. pc'[w] \in Discarding => Recorded(element[w])'
    BY <2>5, <2>8 DEF Recorded
  <2> QED
    BY <2>3, <2>6, <2>7, <2>9 DEF Noted, Deleting, Discarding
<1> QED
  BY <1>1, <1>2

\* The hands of the worker that takes a step, and where what was in them goes.
Listed(i) == \E k \in DOMAIN ready : ready[k] = i

LEMMA ReachFrame ==
    ASSUME TypeOK, NEW w \in Worker, OnlyActs(w), NEW i \in DOMAIN ledger,
           Queued(i) \/ InHand(i) # {},
           i \in DOMAIN delayed => i \in DOMAIN delayed' \/ element'[w] = i,
           Listed(i) => Listed(i)' \/ element'[w] = i,
           element[w] = i => i \in DOMAIN delayed' \/ Listed(i)' \/ element'[w] = i
    PROVE  (Queued(i) \/ InHand(i) # {})'
<1>1. i \in DOMAIN delayed' \/ Listed(i)' => Queued(i)'
  BY DEF Queued, Listed
<1>2. element'[w] = i => w \in InHand(i)'
  BY DEF InHand
<1>3. CASE Queued(i)
  BY <1>1, <1>2, <1>3 DEF Queued, Listed
<1>4. CASE InHand(i) # {}
  <2>1. PICK v \in Worker : element[v] = i
    BY <1>4 DEF InHand
  <2>2. CASE v = w
    BY <1>1, <1>2, <2>1, <2>2
  <2>3. CASE v # w
    BY <2>1, <2>3 DEF OnlyActs, InHand
  <2> QED
    BY <2>2, <2>3
<1> QED
  BY <1>3, <1>4

\* One step of a worker that links no id.
LEMMA WorkerSafety ==
    ASSUME TypeInv, EveryJobSafe, HistoryGrows, NEW w \in Worker, OnlyActs(w),
           DOMAIN ledger' = DOMAIN ledger, KeepsPushed,
           KeepsNote(w) \/ NothingToNote(w) \/ Noted(w)',
           \A i \in DOMAIN ledger : ledger[i].pushed /\ Reachable(i) => Safe(i)'
    PROVE  EveryJobSafe'
<1>1. ASSUME NEW v \in Worker PROVE Noted(v)'
  <2>1. Noted(v)
    BY DEF EveryJobSafe
  <2>2. v # w => KeepsNote(v)
    BY DEF OnlyActs, KeepsNote
  <2> QED
    BY <2>1, <2>2, NotedFrame
<1>2. \A i \in DOMAIN ledger' : ledger'[i].pushed => i \in DOMAIN ledger /\ ledger[i].pushed
  BY DEF KeepsPushed
<1> QED
  BY <1>1, <1>2, SafetyFrame

\* Ids only become easier to reach, and whoever held one still does.
ReachGrows ==
    /\ DOMAIN envelopes \subseteq DOMAIN envelopes'
    /\ DOMAIN delayed \subseteq DOMAIN delayed'
    /\ \A i : Listed(i) => Listed(i)'
    /\ element' = element

LEMMA GrowthReaches ==
    ASSUME ReachGrows, NEW i, Reachable(i)
    PROVE  Safe(i)'
BY DEF ReachGrows, Reachable, Queued, Listed, InHand, Safe

\* Steps that leave everything where it was.
LEMMA StayStepSafe ==
    ASSUME TypeInv, EveryJobSafe, NEW w \in Worker, OnlyActs(w),
           \/ Start(w) \/ Exit(w) \/ FindDue(w) \/ AllPromoted(w) \/ PopNothing(w) \/ Wake(w)
           \/ Load(w) \/ Reserve(w) \/ Index(w) \/ FindForDelete(w) \/ FindForRelease(w)
           \/ Rewrite(w) \/ Signal(w)
    PROVE  EveryJobSafe'
<1>1. /\ UNCHANGED <<ledger, failedJobs, dropped, ready, delayed, element>>
      /\ DOMAIN envelopes \subseteq DOMAIN envelopes'
  BY DEF Start, Exit, FindDue, AllPromoted, PopNothing, Wake, Load, Reserve, Index,
     FindForDelete, FindForRelease, Rewrite, Signal, store, local, InsertRow
<1>2. KeepsNote(w) \/ NothingToNote(w)
  <2>1. CASE FindForDelete(w) \/ Signal(w)
    BY <2>1 DEF FindForDelete, Signal, Step, KeepsNote, NothingToNote, Deleting, Discarding,
       TypeInv, TypeOK, local
  <2>2. CASE ~FindForDelete(w) /\ ~Signal(w)
    BY <2>2 DEF Start, Exit, FindDue, AllPromoted, PopNothing, Wake, Load, Reserve, Index,
       FindForRelease, Rewrite, Step, NothingToNote, Deleting, Discarding, TypeInv, TypeOK
  <2> QED
    BY <2>1, <2>2
<1>3. HistoryGrows /\ KeepsPushed /\ DOMAIN ledger' = DOMAIN ledger
  BY <1>1 DEF HistoryGrows, KeepsEntries, KeepsPushed
<1>4. ReachGrows
  BY <1>1 DEF ReachGrows, Listed
<1> QED
  BY <1>2, <1>3, <1>4, GrowthReaches, WorkerSafety

LEMMA RunStepSafe ==
    ASSUME TypeInv, EveryJobSafe, NEW w \in Worker, OnlyActs(w),
           Succeed(w) \/ Fail(w) \/ FinishFails(w) \/ RecordFailed(w)
    PROVE  EveryJobSafe'
<1>a. TypeOK /\ WorkerLinked(w)
  BY DEF TypeInv, Linked
<1>1. /\ UNCHANGED <<dropped, store, element, envelope>> /\ failedJobs \subseteq failedJobs'
      /\ Succeed(w) \/ Fail(w) \/ FinishFails(w) \/ UNCHANGED ledger
  BY DEF Succeed, Fail, FinishFails, RecordFailed, Caught, local
<1>2. KeepsEntries /\ KeepsPushed /\ DOMAIN ledger' = DOMAIN ledger
  <2>1. CASE UNCHANGED ledger
    BY <2>1 DEF KeepsEntries, KeepsPushed
  <2>2. CASE Succeed(w) \/ Fail(w) \/ FinishFails(w)
    BY <2>2, RunMarks
  <2> QED
    BY <1>1, <2>1, <2>2
<1>3. HistoryGrows /\ ReachGrows
  BY <1>1, <1>2 DEF HistoryGrows, ReachGrows, Listed, store
<1>4. NothingToNote(w) \/ Noted(w)'
  <2>1. CASE Succeed(w)
    <3>1. PICK i \in DOMAIN ledger : i = element[w]
      BY <1>a, <2>1 DEF TypeOK, WorkerLinked, EmptyHanded, Succeed, Step
    <3>2. DOMAIN ledger' = DOMAIN ledger /\ ledger'[i].handled
      BY <2>1, <3>1, RunMarks
    <3>3. /\ pc'[w] = IF Chained(w) THEN "chain" ELSE "find"
          /\ envelope[w].payload = ledger[i].payload /\ element'[w] = i
      BY <1>a, <1>1, <2>1, <3>1 DEF Succeed, Step, TypeOK, WorkerLinked, Loaded, PcStates,
         EmptyHanded
    <3>4. CASE Chained(w)
      BY <3>2, <3>3, <3>4 DEF Noted
    <3>5. CASE ~Chained(w)
      <4>1. ledger'[i].payload = ledger[i].payload
        BY <1>2, <3>1 DEF KeepsEntries
      <4>2. ~(Len(ledger'[i].payload) > 1)
        BY <3>3, <3>5, <4>1 DEF Chained
      <4>3. Completed(element[w])'
        BY <3>2, <3>3, <4>2 DEF Completed
      <4> QED
        BY <3>3, <3>5, <4>3 DEF Noted
    <3> QED
      BY <3>4, <3>5
  <2>2. CASE Fail(w) \/ FinishFails(w)
    <3>1. pc'[w] = IF GivesUp(w) THEN "record" ELSE "release"
      BY <1>a, <2>2 DEF Fail, FinishFails, Caught, TypeOK
    <3>2. CASE ~GivesUp(w)
      BY <3>1, <3>2 DEF NothingToNote, Deleting, Discarding
    <3>3. CASE GivesUp(w)
      <4>1. PICK i : i = element[w]
        OBVIOUS
      <4>2. ~Succeed(w)
        BY <1>a, <2>2 DEF Succeed, Fail, FinishFails, Finishing, Caught, Step, TypeOK
      <4>3. ledger'[i].givenUp = (ledger[i].givenUp \/ GivesUp(w))
        BY <2>2, <4>1, <4>2, RunMarks
      <4>4. ledger'[i].givenUp
        BY <3>3, <4>3, Zenon
      <4>5. pc'[w] = "record" /\ element'[w] = i
        BY <1>1, <3>1, <3>3, <4>1
      <4> QED
        BY <4>4, <4>5 DEF Noted
    <3> QED
      BY <3>2, <3>3
  <2>3. CASE RecordFailed(w)
    <3>1. PICK i \in DOMAIN ledger : i = element[w]
      BY <1>a, <2>3 DEF TypeOK, WorkerLinked, EmptyHanded, RecordFailed, Step
    <3>2. /\ pc[w] = "record" /\ pc'[w] = "discard" /\ UNCHANGED ledger /\ element'[w] = i
          /\ ledger[i].payload \in failedJobs'
      BY <1>a, <1>1, <2>3, <3>1 DEF RecordFailed, Step, TypeOK, WorkerLinked, Loaded, PcStates,
         EmptyHanded
    <3>3. ledger[i].givenUp
      BY <3>1, <3>2 DEF EveryJobSafe, Noted
    <3>4. Recorded(element[w])'
      BY <3>2, <3>3 DEF Recorded
    <3> QED
      BY <3>2, <3>4 DEF Noted
  <2> QED
    BY <2>1, <2>2, <2>3
<1> QED
  BY <1>2, <1>3, <1>4, GrowthReaches, WorkerSafety

\* An id on its way from one table to the other is in the worker's hands.
LEMMA MoveStepSafe ==
    ASSUME TypeInv, EveryJobSafe, NEW w \in Worker, OnlyActs(w),
           Undelay(w) \/ Promote(w) \/ Pop(w) \/ ReleaseDelayed(w)
    PROVE  EveryJobSafe'
<1>a. TypeOK /\ WorkerLinked(w)
  BY DEF TypeInv, Linked
<1>1. UNCHANGED <<envelopes, ledger, failedJobs, dropped>>
  BY DEF Undelay, Promote, Pop, ReleaseDelayed
<1>2. HistoryGrows /\ KeepsPushed /\ DOMAIN ledger' = DOMAIN ledger
  BY <1>1 DEF HistoryGrows, KeepsEntries, KeepsPushed
<1>3. NothingToNote(w)
  BY <1>a DEF Undelay, Promote, Pop, ReleaseDelayed, Step, NothingToNote, Deleting,
     Discarding, TypeOK
<1>4. ASSUME NEW i \in DOMAIN ledger, Reachable(i) PROVE Safe(i)'
  <2>1. Queued(i) \/ InHand(i) # {}
    BY <1>4 DEF Reachable
  <2>2. /\ i \in DOMAIN delayed => i \in DOMAIN delayed' \/ element'[w] = i
        /\ Listed(i) => Listed(i)' \/ element'[w] = i
        /\ element[w] = i => i \in DOMAIN delayed' \/ Listed(i)' \/ element'[w] = i
    <3>1. CASE Undelay(w)
      <4>1. PICK j \in todo[w] : /\ element' = [element EXCEPT ![w] = j]
                                 /\ delayed' = DeleteRow(delayed, j)
        BY <3>1 DEF Undelay
      <4>2. element[w] = 0 /\ i # 0 /\ UNCHANGED ready
        BY <1>a, <3>1, LedgerDomain DEF Undelay, Step, WorkerLinked, EmptyHanded
      <4> QED
        BY <1>a, <4>1, <4>2 DEF DeleteRow, Listed, TypeOK
    <3>2. CASE Promote(w)
      <4>1. element[w] \in DOMAIN ledger
        BY <1>a, <3>2 DEF Promote, Step, TypeOK, WorkerLinked, EmptyHanded
      <4>2. PushReady(element[w]) /\ ready \in Seq(DOMAIN ledger) /\ UNCHANGED delayed
        BY <1>a, <3>2 DEF Promote, TypeOK
      <4>3. /\ DOMAIN ready' = DOMAIN ready \cup {Len(ready) + 1}
            /\ \A k \in DOMAIN ready : ready'[k] = ready[k]
            /\ ready'[Len(ready) + 1] = element[w]
        BY <4>1, <4>2, PushReadyTypes
      <4> QED
        BY <4>2, <4>3 DEF Listed
    <3>3. CASE Pop(w)
      <4>1. ready \in Seq(DOMAIN ledger) /\ ready # <<>> /\ ready' = Tail(ready)
        BY <1>a, <3>3 DEF TypeOK, Pop
      <4>2. /\ element'[w] = ready[1] /\ 1 \in DOMAIN ready
            /\ \A k \in DOMAIN ready' : k + 1 \in DOMAIN ready /\ ready'[k] = ready[k + 1]
            /\ \A k \in DOMAIN ready : k = 1 \/ k - 1 \in DOMAIN ready'
        BY <1>a, <3>3, <4>1, PopReadyTypes DEF Pop, TypeOK
      <4>3. ASSUME NEW k \in DOMAIN ready, ready[k] = i, k # 1 PROVE Listed(i)'
        <5>1. k \in Nat
          BY <4>1, LenProperties
        <5>2. k - 1 \in DOMAIN ready' /\ ready'[k - 1] = ready[k]
          BY <4>2, <4>3, <5>1
        <5> QED
          BY <4>3, <5>2 DEF Listed
      <4>4. element[w] = 0 /\ i # 0 /\ UNCHANGED delayed
        BY <1>a, <3>3, LedgerDomain DEF Pop, Step, WorkerLinked, EmptyHanded
      <4> QED
        BY <4>2, <4>3, <4>4 DEF Listed
    <3>4. CASE ReleaseDelayed(w)
      BY <3>4 DEF ReleaseDelayed, Delay, InsertRow, Listed
    <3> QED
      BY <3>1, <3>2, <3>3, <3>4
  <2>3. (Queued(i) \/ InHand(i) # {})'
    BY <1>a, <2>1, <2>2, ReachFrame
  <2> QED
    BY <1>1, <1>4, <2>3 DEF Reachable, Safe
<1> QED
  BY <1>2, <1>3, <1>4, WorkerSafety

\* What a worker deletes or lets go is done with, or counts as dropped.
LEMMA LetGoStepSafe ==
    ASSUME TypeInv, EveryJobSafe, NEW w \in Worker, OnlyActs(w),
           \/ LoadNothing(w) \/ FindNothing(w) \/ Delete(w) \/ Clear(w)
           \/ PopFails(w) \/ CrashWorker(w) \/ CatchFails(w)
    PROVE  EveryJobSafe'
<1>a. TypeOK /\ WorkerLinked(w) /\ Noted(w)
  BY DEF TypeInv, Linked, EveryJobSafe
<1>1. UNCHANGED <<ready, ledger, failedJobs>> /\ dropped \subseteq dropped'
  BY DEF LoadNothing, FindNothing, Delete, Clear, PopFails, CrashWorker, CatchFails, Stop,
     Drops, store
<1>2. HistoryGrows /\ KeepsPushed /\ DOMAIN ledger' = DOMAIN ledger
  BY <1>1 DEF HistoryGrows, KeepsEntries, KeepsPushed
<1>3. KeepsNote(w) \/ NothingToNote(w)
  <2>1. CASE Delete(w)
    BY <1>a, <2>1 DEF Delete, Step, KeepsNote, Deleting, Discarding, TypeOK, local
  <2>2. CASE ~Delete(w)
    BY <1>a, <2>2 DEF LoadNothing, FindNothing, Clear, PopFails, CrashWorker, CatchFails, Stop,
       Step, NothingToNote, Deleting, Discarding, TypeOK
  <2> QED
    BY <2>1, <2>2
<1>4. ASSUME NEW i \in DOMAIN ledger, Reachable(i), i # element[w] PROVE Reachable(i)'
  <2>1. /\ i \in DOMAIN envelopes' /\ (i \in DOMAIN delayed => i \in DOMAIN delayed')
        /\ Listed(i) => Listed(i)'
    BY <1>1, <1>4 DEF LoadNothing, FindNothing, Delete, Clear, PopFails, CrashWorker, CatchFails,
       Stop, Reachable, DeleteRow, Listed, store
  <2> QED
    BY <1>a, <1>4, <2>1, ReachFrame DEF Reachable
<1>5. ASSUME NEW i \in DOMAIN ledger, Reachable(i), i = element[w] PROVE Safe(i)'
  <2>1. CASE LoadNothing(w) \/ FindNothing(w)
    BY <1>5, <2>1 DEF LoadNothing, FindNothing, Reachable
  <2>2. CASE PopFails(w) \/ CrashWorker(w) \/ CatchFails(w)
    <3>1. Drops(w) /\ i # 0
      BY <1>a, <2>2, LedgerDomain DEF PopFails, CrashWorker, CatchFails, Stop
    <3> QED
      BY <1>5, <3>1 DEF Drops, Safe
  <2>3. CASE Delete(w) \/ Clear(w)
    <3>1. pc[w] \in Deleting \cup Discarding
      BY <2>3 DEF Delete, Clear, Step, Deleting, Discarding
    <3>2. CASE pc[w] \in Deleting
      BY <1>a, <1>2, <1>5, <3>2, CompletedStays DEF Noted, Deleting, Safe, HistoryGrows
    <3>3. CASE pc[w] \in Discarding
      <4>1. Recorded(i)
        BY <1>a, <1>5, <3>3 DEF Noted, Discarding
      <4> QED
        BY <1>2, <4>1, RecordedStays DEF Safe
    <3> QED
      BY <3>1, <3>2, <3>3
  <2> QED
    BY <2>1, <2>2, <2>3
<1>6. \A i \in DOMAIN ledger : Reachable(i) => Safe(i)'
  BY <1>4, <1>5 DEF Reachable, Safe
<1> QED
  BY <1>2, <1>3, <1>6, WorkerSafety

\* The workers while the application, or a push, takes a step.
LEMMA PushSafety ==
    ASSUME TypeInv, EveryJobSafe, KeepsEntries, ReachGrows,
           UNCHANGED <<failedJobs, envelope, dropped>>,
           \A w \in Worker : pc'[w] = pc[w] \/ Noted(w)',
           \A i \in DOMAIN ledger' :
               ledger'[i].pushed => Safe(i)' \/ (i \in DOMAIN ledger /\ ledger[i].pushed)
    PROVE  EveryJobSafe'
<1>1. HistoryGrows
  BY DEF HistoryGrows
<1>2. ASSUME NEW w \in Worker PROVE Noted(w)'
  <2>1. pc'[w] = pc[w] => KeepsNote(w)
    BY DEF KeepsNote, ReachGrows
  <2> QED
    BY <1>1, <2>1, NotedFrame DEF EveryJobSafe
<1> QED
  BY <1>1, <1>2, GrowthReaches, SafetyFrame

LEMMA TakeSafe ==
    ASSUME TypeInv, EveryJobSafe, NEW a \in Worker \cup {App}, NEW payload \in Payload,
           NEW later \in BOOLEAN, TakeId(a, payload, later),
           UNCHANGED <<store, failedJobs, pc, local, dropped>>
    PROVE  EveryJobSafe'
<1>0. PICK n : n = Len(ledger) + 1
  OBVIOUS
<1>1. /\ DOMAIN ledger' = DOMAIN ledger \cup {n}
      /\ \A i \in DOMAIN ledger : ledger'[i] = ledger[i]
      /\ ledger'[n] = Fresh(payload)
  BY <1>0, TakenId DEF TypeInv
<1>2. KeepsEntries
  BY <1>1 DEF KeepsEntries
<1>3. \A i \in DOMAIN ledger' : ledger'[i].pushed => i \in DOMAIN ledger /\ ledger[i].pushed
  <2>1. Fresh(payload).pushed = FALSE
    BY DEF Fresh
  <2> QED
    BY <1>1, <2>1
<1>4. ReachGrows
  BY DEF ReachGrows, Listed, store, local
<1> QED
  BY <1>2, <1>3, <1>4, PushSafety DEF local

LEMMA LinkSafe ==
    ASSUME TypeInv, EveryJobSafe, NEW a \in Worker \cup {App}, pushing[a].at = "link", Link(a),
           UNCHANGED <<envelopes, failedJobs, local, dropped>>,
           \A w \in Worker : \/ w # a /\ pc'[w] = pc[w]
                             \/ w = a /\ pc[w] = "chain" /\ pc'[w] = "find"
    PROVE  EveryJobSafe'
<1>a. TypeOK /\ Linked
  BY DEF TypeInv
<1>1. PICK i : i = pushing[a].id
  OBVIOUS
<1>2. /\ KeepsEntries /\ i \in DOMAIN ledger /\ i \in DOMAIN envelopes
      /\ DOMAIN ledger' = DOMAIN ledger
  BY <1>1, PushMarks
<1>3. /\ \A j \in DOMAIN ledger : j # i => ledger'[j] = ledger[j]
      /\ ledger'[i].payload = ledger[i].payload /\ ledger'[i].pushed
  BY <1>1, PushMarks
<1>4. UNCHANGED <<element, envelope>>
  BY DEF local
<1>5. ReachGrows /\ (i \in DOMAIN delayed' \/ Listed(i)')
  <2>1. CASE pushing[a].later
    BY <1>1, <1>4, <2>1 DEF Link, Delay, InsertRow, ReachGrows, Listed
  <2>2. CASE ~pushing[a].later
    <3>1. PushReady(i) /\ UNCHANGED delayed /\ ready \in Seq(DOMAIN ledger)
      BY <1>a, <1>1, <2>2 DEF Link, TypeOK
    <3>2. /\ DOMAIN ready' = DOMAIN ready \cup {Len(ready) + 1}
          /\ \A k \in DOMAIN ready : ready'[k] = ready[k]
          /\ ready'[Len(ready) + 1] = i
      BY <1>2, <3>1, PushReadyTypes
    <3> QED
      BY <1>4, <3>1, <3>2 DEF ReachGrows, Listed
  <2> QED
    BY <2>1, <2>2
<1>6. Safe(i)'
  BY <1>2, <1>5 DEF Safe, Queued, Listed
<1>7. \A j \in DOMAIN ledger' :
          ledger'[j].pushed => Safe(j)' \/ (j \in DOMAIN ledger /\ ledger[j].pushed)
  BY <1>2, <1>3, <1>6
<1>8. ASSUME NEW w \in Worker, w = a, pc[w] = "chain", pc'[w] = "find" PROVE Noted(w)'
  <2>1. WorkerLinked(w) /\ Noted(w)
    BY <1>a DEF Linked, EveryJobSafe
  <2>2. PICK e \in DOMAIN ledger : e = element[w]
    BY <1>a, <1>8, <2>1 DEF WorkerLinked, EmptyHanded, TypeOK
  <2>3. ledger[i].payload = Tail(ledger[e].payload)
    BY <1>1, <1>8, <2>1, <2>2 DEF WorkerLinked, ChainLinked, Loaded, PcStates, EmptyHanded
  <2>4. ledger'[e].handled /\ ledger'[e].payload = ledger[e].payload
    BY <1>2, <1>8, <2>1, <2>2 DEF Noted, KeepsEntries
  <2>5. ledger'[i].payload = Tail(ledger'[e].payload)
    BY <1>3, <2>3, <2>4
  <2>6. element'[w] = e
    BY <1>4, <2>2
  <2>7. Completed(element[w])'
    BY <1>2, <1>3, <2>4, <2>5, <2>6 DEF Completed
  <2> QED
    BY <1>8, <2>7 DEF Noted
<1> QED
  BY <1>2, <1>4, <1>5, <1>7, <1>8, PushSafety

LEMMA SafeStep == TypeInv /\ EveryJobSafe /\ [Next]_vars => EveryJobSafe'
<1> SUFFICES ASSUME TypeInv, EveryJobSafe, [Next]_vars PROVE EveryJobSafe'
  OBVIOUS
<1>a. TypeOK /\ Linked
  BY DEF TypeInv
<1>1. ASSUME NEW p \in Dispatches, NEW later \in BOOLEAN, Dispatch(p, later)
      PROVE  EveryJobSafe'
  <2>1. p \in Payload
    BY RedisQueueAssumption
  <2> QED
    BY <1>1, <2>1, TakeSafe DEF Dispatch
<1>2. CASE Dispatched
  BY <1>2, LinkSafe, RedisQueueAssumption DEF Dispatched
<1>3. CASE \/ \E a \in Worker \cup {App} : SaveNew(a)
           \/ DispatchFails
           \/ \E i \in DOMAIN delayed : Elapse(i)
           \/ UNCHANGED vars
  <2>1. /\ UNCHANGED <<ledger, ready, element, failedJobs, pc, envelope, dropped>>
        /\ DOMAIN envelopes \subseteq DOMAIN envelopes'
        /\ DOMAIN delayed \subseteq DOMAIN delayed'
    BY <1>3 DEF SaveNew, DispatchFails, Elapse, vars, store, local, InsertRow
  <2>2. KeepsEntries /\ ReachGrows
    BY <2>1 DEF KeepsEntries, ReachGrows, Listed
  <2> QED
    BY <2>1, <2>2, PushSafety
<1>4. ASSUME NEW w \in Worker, WorkerStep(w) \/ Fault(w), ~SaveNew(w) PROVE EveryJobSafe'
  <2>1. OnlyActs(w)
    BY <1>a, <1>4, WorkersActAlone
  <2>2. CASE PushNext(w)
    <3>1. Tail(envelope[w].payload) \in Payload
      BY <2>2, RestOfChain DEF PushNext
    <3> QED
      BY <2>2, <3>1, TakeSafe DEF PushNext
  <2>3. CASE PushedNext(w)
    <3>1. pc[w] = "chain" /\ pc'[w] = "find" /\ \A v \in Worker : v # w => pc'[v] = pc[v]
      BY <1>a, <2>3 DEF PushedNext, Step, TypeOK
    <3> QED
      BY <2>3, <3>1, LinkSafe DEF PushedNext
  <2> QED
    BY <1>4, <2>1, <2>2, <2>3, StayStepSafe, RunStepSafe, MoveStepSafe, LetGoStepSafe
       DEF WorkerStep, PopStep, JobStep, Fault
<1> QED
  BY <1>1, <1>2, <1>3, <1>4 DEF Next, Produce

\* Once push() returned, only an id some worker had in hand when it died, or
\* when redis refused it a command, can be lost.
THEOREM OnlyHeldJobsGetLost == Spec => []OnlyHeldJobsAreLost
<1> DEFINE IInv == TypeInv /\ EveryJobSafe
<1>1. Init => IInv
  <2>1. Init => EveryJobSafe
    BY DEF Init, EveryJobSafe, Noted
  <2> QED
    BY <2>1, TypeInvInit
<1>2. IInv /\ [Next]_vars => IInv'
  BY TypesStep, LinkedStep, SafeStep DEF TypeInv
<1>3. IInv => OnlyHeldJobsAreLost
  BY DEF EveryJobSafe, Safe, OnlyHeldJobsAreLost
<1> QED
  BY <1>1, <1>2, <1>3, PTL DEF Spec
-----------------------------------------------------------------------------
(***************************************************************************)
(* A job is given up only after MaxAttempts runs of it failed.             *)
(***************************************************************************)
LEMMA ReleasingFinite ==
    ASSUME NEW i
    PROVE  /\ IsFiniteSet(Releasing(i)) /\ Cardinality(Releasing(i)) \in Nat
           /\ IsFiniteSet(Releasing(i)') /\ Cardinality(Releasing(i)') \in Nat
<1>1. Releasing(i) \subseteq Worker /\ Releasing(i)' \subseteq Worker
  BY DEF Releasing
<1> QED
  BY <1>1, RedisQueueAssumption, FS_Subset, FS_CardinalityType

LEMMA FailuresType ==
    /\ TypeOK => \A i \in DOMAIN ledger : ledger[i].failures \in Nat
    /\ TypeOK' => \A i \in DOMAIN ledger' : ledger'[i].failures \in Nat
<1>1. ASSUME NEW l \in Seq(Entry), NEW i \in DOMAIN l PROVE l[i].failures \in Nat
  <2>1. l[i] \in Entry
    BY <1>1, ElementOfSeq, LenProperties
  <2> QED
    BY <2>1 DEF Entry
<1> QED
  BY <1>1 DEF TypeOK

\* Nobody joins the workers that must release i, or a failed run pays for it.
NoNewDebt(i) ==
    /\ i \in DOMAIN ledger'
    /\ Cardinality(Releasing(i)') + ledger[i].failures
         <= Cardinality(Releasing(i)) + ledger'[i].failures

LEMMA FewerReleasing ==
    ASSUME TypeOK, NEW i \in DOMAIN ledger, i \in DOMAIN ledger',
           Releasing(i)' \subseteq Releasing(i),
           ledger'[i].failures = ledger[i].failures
    PROVE  NoNewDebt(i)
<1>1. Cardinality(Releasing(i)') <= Cardinality(Releasing(i))
  BY ReleasingFinite, FS_Subset
<1>2. ledger[i].failures \in Nat
  BY FailuresType
<1> QED
  BY <1>1, <1>2, ReleasingFinite DEF NoNewDebt

LEMMA EarnedStays ==
    ASSUME TypeOK, TypeOK', NEW i \in DOMAIN ledger, NoNewDebt(i), NEW n \in Nat,
           Earned(i, n)
    PROVE  Earned(i, n)'
<1>1. ledger[i].failures \in Nat /\ ledger'[i].failures \in Nat
  BY FailuresType DEF NoNewDebt
<1> QED
  BY <1>1, ReleasingFinite DEF Earned, NoNewDebt

\* A count somebody could already act on.
OldCount(i, n) == i \in DOMAIN ledger /\ n \in Nat /\ Earned(i, n)

LEMMA OldCounts ==
    ASSUME TypeInv, AttemptsEarned
    PROVE  /\ \A i \in DOMAIN envelopes : OldCount(i, envelopes[i].attempts)
           /\ \A w \in Worker : pc[w] \in Loaded => OldCount(element[w], envelope[w].attempts)
<1>1. \A i \in DOMAIN envelopes : i \in DOMAIN ledger /\ envelopes[i].attempts \in Nat
  BY DEF TypeInv, TypeOK, Envelope
<1>2. \A w \in Worker : pc[w] \in Loaded =>
          element[w] \in DOMAIN ledger /\ envelope[w].attempts \in Nat
  BY DEF TypeInv, TypeOK, Linked, WorkerLinked, Loaded, Envelope
<1> QED
  BY <1>1, <1>2 DEF OldCount, AttemptsEarned

LEMMA EarnedFrame ==
    ASSUME TypeInv, TypeInv', AttemptsEarned,
           \A i \in DOMAIN ledger : NoNewDebt(i),
           \A i \in DOMAIN ledger' : i \in DOMAIN ledger \/ Earned(i, 0)',
           \A i \in DOMAIN envelopes' : \/ OldCount(i, envelopes'[i].attempts)
                                        \/ Earned(i, envelopes[i].attempts)',
           \A w \in Worker : pc'[w] \in Loaded => OldCount(element'[w], envelope'[w].attempts)
    PROVE  AttemptsEarned'
<1>a. TypeOK /\ TypeOK'
  BY DEF TypeInv
<1>1. ASSUME NEW i, NEW n, OldCount(i, n) PROVE Earned(i, n)'
  BY <1>a, <1>1, EarnedStays DEF OldCount
<1>2. ASSUME NEW i \in DOMAIN ledger' PROVE Earned(i, 0)'
  BY <1>a, <1>2, EarnedStays DEF AttemptsEarned
<1>3. ASSUME NEW i \in DOMAIN envelopes' PROVE Earned(i, envelopes[i].attempts)'
  <2>1. CASE OldCount(i, envelopes'[i].attempts)
    <3>1. PICK n : n = envelopes'[i].attempts
      OBVIOUS
    <3>2. Earned(i, n)'
      BY <1>1, <2>1, <3>1
    <3> QED
      BY <3>1, <3>2 DEF Earned
  <2> QED
    BY <2>1
<1>4. ASSUME NEW w \in Worker, pc'[w] \in Loaded
      PROVE  Earned(element[w], envelope[w].attempts)'
  <2>1. PICK i, n : i = element'[w] /\ n = envelope'[w].attempts
    OBVIOUS
  <2>2. Earned(i, n)'
    BY <1>1, <1>4, <2>1
  <2> QED
    BY <2>1, <2>2 DEF Earned, Releasing
<1>5. Loaded' = Loaded
  BY DEF Loaded, EmptyHanded, PcStates
<1> QED
  BY <1>2, <1>3, <1>4, <1>5 DEF AttemptsEarned

Releases == {"release", "rewrite"}

LEMMA NoDebt ==
    ASSUME TypeOK, TypeOK', NEW w, OnlyActs(w),
           \A i \in DOMAIN ledger :
               i \in DOMAIN ledger' /\ ledger'[i].failures = ledger[i].failures,
           w \in Worker /\ pc'[w] \in Releases => pc[w] \in Releases /\ element'[w] = element[w]
    PROVE  \A i \in DOMAIN ledger : NoNewDebt(i)
<1>1. ASSUME NEW i \in DOMAIN ledger PROVE NoNewDebt(i)
  <2>1. Releasing(i)' \subseteq Releasing(i)
    BY DEF Releasing, Releases, OnlyActs
  <2> QED
    BY <2>1, FewerReleasing
<1> QED
  BY <1>1

LEMMA WorkerEarned ==
    ASSUME TypeInv, TypeInv', AttemptsEarned, NEW w \in Worker, OnlyActs(w),
           DOMAIN ledger' = DOMAIN ledger, \A i \in DOMAIN ledger : NoNewDebt(i),
           \A i \in DOMAIN envelopes' : \/ i \in DOMAIN envelopes /\ envelopes'[i] = envelopes[i]
                                        \/ OldCount(i, envelopes'[i].attempts)
                                        \/ Earned(i, envelopes[i].attempts)',
           pc'[w] \in Loaded => OldCount(element'[w], envelope'[w].attempts)
    PROVE  AttemptsEarned'
<1>1. \A v \in Worker : pc'[v] \in Loaded => OldCount(element'[v], envelope'[v].attempts)
  BY OldCounts DEF OnlyActs
<1>2. \A i \in DOMAIN envelopes' : \/ OldCount(i, envelopes'[i].attempts)
                                   \/ Earned(i, envelopes[i].attempts)'
  BY OldCounts
<1> QED
  BY <1>1, <1>2, EarnedFrame

\* Steps that neither count a run nor move a count.
LEMMA QuietStepEarned ==
    ASSUME TypeInv, TypeInv', AttemptsEarned, NEW w \in Worker, OnlyActs(w),
           \/ PopStep(w) /\ ~Load(w) /\ ~Reserve(w)
           \/ FindForDelete(w) \/ FindNothing(w) \/ Delete(w) \/ Clear(w) \/ RecordFailed(w)
           \/ ReleaseDelayed(w)
           \/ Signal(w) \/ CrashWorker(w) \/ PopFails(w) \/ CatchFails(w)
    PROVE  AttemptsEarned'
<1>a. TypeOK /\ TypeOK'
  BY DEF TypeInv
<1>1. /\ UNCHANGED ledger
      /\ \A i \in DOMAIN envelopes' : i \in DOMAIN envelopes /\ envelopes'[i] = envelopes[i]
  BY DEF PopStep, Start, Exit, FindDue, Undelay, Promote, AllPromoted, Pop, PopNothing,
     LoadNothing, Index, Wake, FindForDelete, FindNothing, Delete, Clear, RecordFailed,
     ReleaseDelayed, Signal, CrashWorker, PopFails, CatchFails, Stop, DeleteRow, store
<1>2. pc'[w] \in Loaded => pc[w] \in Loaded /\ UNCHANGED <<element, envelope>>
  <2>1. CASE Index(w) \/ FindForDelete(w) \/ RecordFailed(w) \/ Delete(w)
    <3>1. pc[w] \in {"index", "find", "discard", "record", "del", "discardDel"}
      BY <2>1 DEF Index, FindForDelete, RecordFailed, Delete, Step
    <3>2. pc[w] \in Loaded
      BY <3>1 DEF Loaded, EmptyHanded, PcStates
    <3> QED
      BY <2>1, <3>2 DEF Index, FindForDelete, RecordFailed, Delete, local
  <2>2. CASE Signal(w)
    BY <2>2 DEF Signal
  <2>3. CASE ~(Index(w) \/ FindForDelete(w) \/ RecordFailed(w) \/ Delete(w) \/ Signal(w))
    <3>1. pc'[w] \in EmptyHanded \cup {"promoted", "load"}
      BY <1>a, <2>3 DEF PopStep, Start, Exit, FindDue, Undelay, Promote, AllPromoted, Pop,
         PopNothing, LoadNothing, Wake, FindNothing, Clear, ReleaseDelayed, CrashWorker,
         PopFails, CatchFails, Stop, Step, EmptyHanded, TypeOK
    <3> QED
      BY <3>1 DEF Loaded
  <2> QED
    BY <2>1, <2>2, <2>3
<1>3. pc'[w] \in Releases => pc[w] \in Releases /\ element'[w] = element[w]
  <2>1. CASE Signal(w)
    BY <2>1 DEF Signal
  <2>2. CASE ~Signal(w)
    BY <1>a, <2>2 DEF PopStep, Start, Exit, FindDue, Undelay, Promote, AllPromoted, Pop,
       PopNothing, LoadNothing, Index, Wake, FindForDelete, FindNothing, Delete, Clear,
       RecordFailed, ReleaseDelayed, CrashWorker, PopFails, CatchFails, Stop, Step, Releases,
       TypeOK
  <2> QED
    BY <2>1, <2>2
<1>4. \A i \in DOMAIN ledger : NoNewDebt(i)
  BY <1>a, <1>1, <1>3, NoDebt
<1>5. pc'[w] \in Loaded => OldCount(element'[w], envelope'[w].attempts)
  BY <1>2, OldCounts
<1> QED
  BY <1>1, <1>4, <1>5, WorkerEarned

\* What a worker loads, and what pop() writes back, was counted before.
LEMMA CopyStepEarned ==
    ASSUME TypeInv, TypeInv', AttemptsEarned, NEW w \in Worker, OnlyActs(w),
           Load(w) \/ FindForRelease(w) \/ Reserve(w)
    PROVE  AttemptsEarned'
<1>a. TypeOK /\ TypeOK'
  BY DEF TypeInv
<1>1. UNCHANGED <<ledger, element>>
  BY DEF Load, FindForRelease, Reserve, local
<1>2. \A i \in DOMAIN ledger : NoNewDebt(i)
  <2>1. pc'[w] \in Releases => pc[w] \in Releases
    BY <1>a DEF Load, FindForRelease, Reserve, Step, Releases, TypeOK
  <2> QED
    BY <1>a, <1>1, <2>1, NoDebt
<1>3. CASE Load(w) \/ FindForRelease(w)
  <2>1. /\ UNCHANGED envelopes /\ element[w] \in DOMAIN envelopes
        /\ envelope'[w] = envelopes[element[w]]
    BY <1>a, <1>3 DEF Load, FindForRelease, TypeOK, store
  <2> QED
    BY <1>1, <1>2, <2>1, OldCounts, WorkerEarned
<1>4. CASE Reserve(w)
  <2>1. /\ envelopes' = InsertRow(envelopes, element[w], envelope[w])
        /\ UNCHANGED envelope /\ pc[w] = "reserve"
    BY <1>4 DEF Reserve, Step, local
  <2>2. OldCount(element[w], envelope[w].attempts)
    BY <2>1, OldCounts DEF Loaded, EmptyHanded, PcStates
  <2>3. \A i \in DOMAIN envelopes' : \/ i \in DOMAIN envelopes /\ envelopes'[i] = envelopes[i]
                                     \/ OldCount(i, envelopes'[i].attempts)
    BY <2>1, <2>2 DEF InsertRow
  <2> QED
    BY <1>1, <1>2, <2>1, <2>2, <2>3, WorkerEarned
<1> QED
  BY <1>3, <1>4

\* The attempt release() adds is the run its worker still had to account for.
LEMMA RewriteEarned ==
    ASSUME TypeInv, TypeInv', AttemptsEarned, NEW w \in Worker, OnlyActs(w), Rewrite(w)
    PROVE  AttemptsEarned'
<1>a. TypeOK /\ TypeOK'
  BY DEF TypeInv
<1>1. /\ UNCHANGED <<ledger, element, envelope>> /\ pc[w] = "rewrite" /\ pc'[w] = "delay"
  BY <1>a DEF Rewrite, Step, local, TypeOK
<1>2. PICK i, n : i = element[w] /\ n = envelope[w].attempts
  OBVIOUS
<1>3. OldCount(i, n)
  BY <1>1, <1>2, OldCounts DEF Loaded, EmptyHanded, PcStates
<1>4. envelopes' = InsertRow(envelopes, i, [envelope[w] EXCEPT !.attempts = n + 1])
  BY <1>2 DEF Rewrite
<1>5. Earned(i, n + 1)'
  <2>1. w \in Releasing(i) /\ Releasing(i)' = Releasing(i) \ {w}
    BY <1>1, <1>2 DEF Releasing, OnlyActs
  <2>2. Cardinality(Releasing(i)') = Cardinality(Releasing(i)) - 1
    BY <2>1, ReleasingFinite, FS_RemoveElement
  <2>3. n \in Nat /\ ledger[i].failures \in Nat /\ n + Cardinality(Releasing(i)) <= ledger[i].failures
    BY <1>a, <1>3, FailuresType DEF OldCount, Earned
  <2> QED
    BY <1>1, <2>2, <2>3, ReleasingFinite DEF Earned
<1>6. \A j \in DOMAIN envelopes' : \/ j \in DOMAIN envelopes /\ envelopes'[j] = envelopes[j]
                                   \/ j = i /\ envelopes'[j].attempts = n + 1
  <2>1. envelope[w] \in Envelope
    BY <1>1 DEF TypeInv, Linked, WorkerLinked, Loaded, PcStates, EmptyHanded
  <2>2. [envelope[w] EXCEPT !.attempts = n + 1].attempts = n + 1
    BY <2>1 DEF Envelope
  <2> QED
    BY <1>4, <2>2 DEF InsertRow
<1>7. \A j \in DOMAIN envelopes' : \/ j \in DOMAIN envelopes /\ envelopes'[j] = envelopes[j]
                                   \/ Earned(j, envelopes[j].attempts)'
  BY <1>5, <1>6 DEF Earned
<1>8. \A j \in DOMAIN ledger : NoNewDebt(j)
  BY <1>a, <1>1, NoDebt DEF Releases
<1>9. OldCount(element'[w], envelope'[w].attempts)
  BY <1>1, <1>2, <1>3
<1> QED
  BY <1>1, <1>7, <1>8, <1>9, WorkerEarned

\* A failed run is counted before its worker owes a release.
LEMMA RunEarned ==
    ASSUME TypeInv, TypeInv', AttemptsEarned, NEW w \in Worker, OnlyActs(w),
           Succeed(w) \/ Fail(w) \/ FinishFails(w)
    PROVE  AttemptsEarned'
<1>a. TypeOK /\ TypeOK'
  BY DEF TypeInv
<1>1. UNCHANGED <<envelopes, element, envelope>> /\ pc[w] \in Loaded /\ pc[w] \notin Releases
  BY DEF Succeed, Fail, FinishFails, Finishing, Caught, Step, store, local, Loaded, PcStates,
     EmptyHanded, Releases
<1>2. PICK i : i = element[w]
  OBVIOUS
<1>3. /\ i \in DOMAIN ledger /\ DOMAIN ledger' = DOMAIN ledger
      /\ \A j \in DOMAIN ledger : j # i => ledger'[j] = ledger[j]
      /\ Succeed(w) => ledger'[i].failures = ledger[i].failures
      /\ ~Succeed(w) => ledger'[i].failures = ledger[i].failures + 1
  BY <1>2, RunMarks
<1>4. ASSUME NEW j \in DOMAIN ledger, j # i PROVE NoNewDebt(j)
  <2>1. Releasing(j)' \subseteq Releasing(j)
    BY <1>1, <1>2, <1>4 DEF Releasing, OnlyActs
  <2> QED
    BY <1>a, <1>3, <1>4, <2>1, FewerReleasing
<1>5. ASSUME Succeed(w) PROVE NoNewDebt(i)
  <2>1. Releasing(i)' \subseteq Releasing(i)
    <3>1. pc'[w] \notin Releases
      BY <1>a, <1>5 DEF Succeed, Step, Releases, TypeOK
    <3> QED
      BY <3>1, <1>1 DEF Releasing, OnlyActs, Releases
  <2> QED
    BY <1>a, <1>3, <1>5, <2>1, FewerReleasing
<1>6. ASSUME ~Succeed(w) PROVE NoNewDebt(i)
  <2>1. Releasing(i)' \subseteq Releasing(i) \cup {w}
    BY <1>1 DEF Releasing, OnlyActs
  <2>2. w \notin Releasing(i)
    BY <1>1 DEF Releasing, Releases
  <2>3. /\ IsFiniteSet(Releasing(i) \cup {w})
        /\ Cardinality(Releasing(i) \cup {w}) = Cardinality(Releasing(i)) + 1
    BY <2>2, ReleasingFinite, FS_AddElement
  <2>4. Cardinality(Releasing(i)') <= Cardinality(Releasing(i)) + 1
    BY <2>1, <2>3, FS_Subset
  <2> QED
    BY <1>a, <1>3, <1>6, <2>4, ReleasingFinite, FailuresType DEF NoNewDebt
<1>7. \A j \in DOMAIN ledger : NoNewDebt(j)
  BY <1>4, <1>5, <1>6
<1>8. OldCount(element'[w], envelope'[w].attempts)
  BY <1>1, OldCounts
<1> QED
  BY <1>1, <1>3, <1>7, <1>8, WorkerEarned

\* A process in a push: the workers and the counts stay as they are.
LEMMA PushEarned ==
    ASSUME TypeInv, TypeInv', AttemptsEarned,
           \A i \in DOMAIN ledger :
               i \in DOMAIN ledger' /\ ledger'[i].failures = ledger[i].failures,
           \A i \in DOMAIN ledger' : i \in DOMAIN ledger \/ Earned(i, 0)',
           \A i \in DOMAIN envelopes' : \/ i \in DOMAIN envelopes /\ envelopes'[i] = envelopes[i]
                                        \/ envelopes'[i].attempts = 0 /\ i \in DOMAIN ledger,
           UNCHANGED <<element, envelope>>,
           \A w \in Worker : pc'[w] = pc[w] \/ (pc'[w] = "find" /\ pc[w] = "chain")
    PROVE  AttemptsEarned'
<1>a. TypeOK /\ TypeOK'
  BY DEF TypeInv
<1>1. ASSUME NEW i \in DOMAIN ledger PROVE NoNewDebt(i)
  <2>1. Releasing(i)' \subseteq Releasing(i)
    BY DEF Releasing
  <2> QED
    BY <1>a, <2>1, FewerReleasing
<1>2. ASSUME NEW w \in Worker, pc'[w] \in Loaded
      PROVE  OldCount(element'[w], envelope'[w].attempts)
  <2>1. pc[w] \in Loaded
    BY <1>2 DEF Loaded, PcStates, EmptyHanded
  <2> QED
    BY <2>1, OldCounts
<1>3. ASSUME NEW i \in DOMAIN envelopes' PROVE OldCount(i, envelopes'[i].attempts)
  <2>1. CASE i \in DOMAIN envelopes /\ envelopes'[i] = envelopes[i]
    BY <2>1, OldCounts
  <2>2. CASE envelopes'[i].attempts = 0 /\ i \in DOMAIN ledger
    BY <2>2 DEF OldCount, AttemptsEarned
  <2> QED
    BY <2>1, <2>2
<1> QED
  BY <1>1, <1>2, <1>3, EarnedFrame

LEMMA TakeEarned ==
    ASSUME TypeInv, TypeInv', AttemptsEarned, NEW a \in Worker \cup {App},
           NEW payload \in Payload, NEW later \in BOOLEAN, TakeId(a, payload, later),
           UNCHANGED <<store, failedJobs, pc, local, dropped>>
    PROVE  AttemptsEarned'
<1>a. TypeOK /\ UNCHANGED <<envelopes, element, envelope, pc>>
  BY DEF TypeInv, store, local
<1>0. PICK n : n = Len(ledger) + 1
  OBVIOUS
<1>1. /\ DOMAIN ledger' = DOMAIN ledger \cup {n} /\ n \notin DOMAIN ledger
      /\ \A i \in DOMAIN ledger : ledger'[i] = ledger[i]
      /\ ledger'[n] = Fresh(payload)
  BY <1>0, TakenId DEF TypeInv
<1>2. Earned(n, 0)'
  <2>1. n # 0
    BY <1>0, <1>a, LedgerDomain
  <2>2. Releasing(n)' = {}
    BY <1>1, <1>a, <2>1 DEF Releasing, TypeOK
  <2>3. Fresh(payload).failures = 0
    BY DEF Fresh
  <2> QED
    BY <1>1, <2>2, <2>3, FS_EmptySet DEF Earned
<1>3. \A i \in DOMAIN ledger' : i \in DOMAIN ledger \/ Earned(i, 0)'
  BY <1>1, <1>2
<1> QED
  BY <1>1, <1>3, <1>a, PushEarned

LEMMA SaveEarned ==
    ASSUME TypeInv, TypeInv', AttemptsEarned, NEW a \in Worker \cup {App}, SaveNew(a)
    PROVE  AttemptsEarned'
<1>1. PICK i \in DOMAIN ledger : i = pushing[a].id
  BY DEF TypeInv, Linked, PushLinked, SaveNew
<1>2. envelopes' = InsertRow(envelopes, i, [payload |-> ledger[i].payload, attempts |-> 0])
  BY <1>1 DEF SaveNew
<1>3. \A j \in DOMAIN envelopes' : \/ j \in DOMAIN envelopes /\ envelopes'[j] = envelopes[j]
                                   \/ envelopes'[j].attempts = 0 /\ j \in DOMAIN ledger
  BY <1>2 DEF InsertRow
<1>4. UNCHANGED <<ledger, pc, element, envelope>>
  BY DEF SaveNew, local
<1> QED
  BY <1>3, <1>4, PushEarned

LEMMA LinkEarned ==
    ASSUME TypeInv, TypeInv', AttemptsEarned, NEW a \in Worker \cup {App},
           pushing[a].at = "link", Link(a), UNCHANGED <<envelopes, local>>,
           \A w \in Worker : pc'[w] = pc[w] \/ (pc'[w] = "find" /\ pc[w] = "chain")
    PROVE  AttemptsEarned'
<1>1. PICK i : i = pushing[a].id
  OBVIOUS
<1>2. /\ DOMAIN ledger' = DOMAIN ledger
      /\ \A j \in DOMAIN ledger : j # i => ledger'[j] = ledger[j]
      /\ ledger'[i].failures = ledger[i].failures
  BY <1>1, PushMarks
<1>3. \A j \in DOMAIN ledger :
          j \in DOMAIN ledger' /\ ledger'[j].failures = ledger[j].failures
  BY <1>2
<1> QED
  BY <1>2, <1>3, PushEarned DEF local

LEMMA EarnedStep == TypeInv /\ TypeInv' /\ AttemptsEarned /\ [Next]_vars => AttemptsEarned'
<1> SUFFICES ASSUME TypeInv, TypeInv', AttemptsEarned, [Next]_vars PROVE AttemptsEarned'
  OBVIOUS
<1>a. TypeOK
  BY DEF TypeInv
<1>1. ASSUME NEW p \in Dispatches, NEW later \in BOOLEAN, Dispatch(p, later)
      PROVE  AttemptsEarned'
  <2>1. p \in Payload
    BY RedisQueueAssumption
  <2> QED
    BY <1>1, <2>1, TakeEarned DEF Dispatch
<1>2. CASE Dispatched
  BY <1>2, LinkEarned DEF Dispatched
<1>3. CASE DispatchFails \/ (\E i \in DOMAIN delayed : Elapse(i)) \/ UNCHANGED vars
  <2>1. UNCHANGED <<ledger, envelopes, element, envelope, pc>>
    BY <1>3 DEF DispatchFails, Elapse, vars, store, local
  <2> QED
    BY <2>1, PushEarned
<1>4. ASSUME NEW a \in Worker \cup {App}, SaveNew(a) PROVE AttemptsEarned'
  BY <1>4, SaveEarned
<1>5. ASSUME NEW w \in Worker, WorkerStep(w) \/ Fault(w), ~SaveNew(w) PROVE AttemptsEarned'
  <2>1. OnlyActs(w)
    BY <1>a, <1>5, WorkersActAlone
  <2>2. CASE PushNext(w)
    <3>1. Tail(envelope[w].payload) \in Payload
      BY <2>2, RestOfChain DEF PushNext
    <3> QED
      BY <2>2, <3>1, TakeEarned DEF PushNext
  <2>3. CASE PushedNext(w)
    <3>1. \A v \in Worker : pc'[v] = pc[v] \/ (pc'[v] = "find" /\ pc[v] = "chain")
      BY <1>a, <2>3 DEF PushedNext, Step, TypeOK
    <3> QED
      BY <2>3, <3>1, LinkEarned DEF PushedNext
  <2>4. PopStep(w) => \/ PopStep(w) /\ ~Load(w) /\ ~Reserve(w)
                      \/ Load(w) \/ Reserve(w)
    OBVIOUS
  <2> QED
    BY <1>5, <2>1, <2>2, <2>3, <2>4, QuietStepEarned, CopyStepEarned, RewriteEarned, RunEarned
       DEF WorkerStep, JobStep, Fault
<1> QED
  BY <1>1, <1>2, <1>3, <1>4, <1>5 DEF Next, Produce

\* No entry of the ledger is given up or loses a failure but by a failed run.
LEMMA VerdictFrame ==
    ASSUME TypeInv, [Next]_vars, NEW i \in DOMAIN ledger',
           ~ \E w \in Worker : Fail(w) \/ FinishFails(w)
    PROVE  \/ i \notin DOMAIN ledger /\ ~ledger'[i].givenUp
           \/ /\ i \in DOMAIN ledger /\ ledger'[i].failures = ledger[i].failures
              /\ ledger'[i].givenUp = ledger[i].givenUp
<1>1. ASSUME NEW a \in Worker \cup {App}, NEW payload \in Payload, NEW later \in BOOLEAN,
             TakeId(a, payload, later)
      PROVE  \/ i \notin DOMAIN ledger /\ ~ledger'[i].givenUp
             \/ i \in DOMAIN ledger /\ ledger'[i] = ledger[i]
  <2>0. PICK n : n = Len(ledger) + 1
    OBVIOUS
  <2>1. /\ DOMAIN ledger' = DOMAIN ledger \cup {n} /\ n \notin DOMAIN ledger
        /\ \A j \in DOMAIN ledger : ledger'[j] = ledger[j]
        /\ ledger'[n] = Fresh(payload)
    BY <1>1, <2>0, TakenId DEF TypeInv
  <2>2. Fresh(payload).givenUp = FALSE
    BY DEF Fresh
  <2> QED
    BY <2>1, <2>2
<1>2. ASSUME NEW a \in Worker \cup {App}, pushing[a].at = "link", Link(a)
      PROVE  /\ i \in DOMAIN ledger /\ ledger'[i].failures = ledger[i].failures
             /\ ledger'[i].givenUp = ledger[i].givenUp
  <2>1. PICK j : j = pushing[a].id
    OBVIOUS
  <2>2. /\ DOMAIN ledger' = DOMAIN ledger
        /\ \A k \in DOMAIN ledger : k # j => ledger'[k] = ledger[k]
        /\ ledger'[j].failures = ledger[j].failures /\ ledger'[j].givenUp = ledger[j].givenUp
    BY <1>2, <2>1, PushMarks
  <2> QED
    BY <2>2
<1>3. ASSUME NEW w \in Worker, Succeed(w)
      PROVE  /\ i \in DOMAIN ledger /\ ledger'[i].failures = ledger[i].failures
             /\ ledger'[i].givenUp = ledger[i].givenUp
  <2>1. PICK j : j = element[w]
    OBVIOUS
  <2>2. /\ DOMAIN ledger' = DOMAIN ledger
        /\ \A k \in DOMAIN ledger : k # j => ledger'[k] = ledger[k]
        /\ ledger'[j].failures = ledger[j].failures /\ ledger'[j].givenUp = ledger[j].givenUp
    BY <1>3, <2>1, RunMarks
  <2> QED
    BY <2>2
<1>4. CASE UNCHANGED ledger
  BY <1>4
<1>5. \/ UNCHANGED ledger
      \/ \E p \in Dispatches, later \in BOOLEAN : TakeId(App, p, later)
      \/ \E w \in Worker : pc[w] = "chain" /\ TakeId(w, Tail(envelope[w].payload), FALSE)
      \/ \E a \in Worker \cup {App} : pushing[a].at = "link" /\ Link(a)
      \/ \E w \in Worker : Succeed(w)
  <2>1. CASE Produce
    BY <2>1 DEF Produce, Dispatch, SaveNew, Dispatched, DispatchFails, Elapse
  <2>2. ASSUME NEW w \in Worker, PopStep(w) PROVE UNCHANGED ledger
    BY <2>2 DEF PopStep, Start, Exit, FindDue, Undelay, Promote, AllPromoted, Pop, PopNothing,
       LoadNothing, Load, Reserve, Index, Wake
  <2>3. ASSUME NEW w \in Worker, JobStep(w), ~Succeed(w), ~Fail(w)
        PROVE  \/ UNCHANGED ledger
               \/ pc[w] = "chain" /\ TakeId(w, Tail(envelope[w].payload), FALSE)
               \/ pushing[w].at = "link" /\ Link(w)
    BY <2>3 DEF JobStep, PushNext, SaveNew, PushedNext, FindForDelete, FindNothing, Delete, Clear,
       RecordFailed, FindForRelease, Rewrite, ReleaseDelayed
  <2>4. ASSUME NEW w \in Worker, Fault(w), ~FinishFails(w) PROVE UNCHANGED ledger
    BY <2>4 DEF Fault, Signal, CrashWorker, PopFails, CatchFails, Stop
  <2>5. UNCHANGED vars => UNCHANGED ledger
    BY DEF vars
  <2> QED
    BY <2>1, <2>2, <2>3, <2>4, <2>5 DEF Next, WorkerStep
<1>6. \A w \in Worker : pc[w] = "chain" => Tail(envelope[w].payload) \in Payload
  BY RestOfChain
<1> QED
  BY <1>1, <1>2, <1>3, <1>4, <1>5, <1>6, RedisQueueAssumption

\* A job is given up only after MaxAttempts runs of it failed, although two
\* workers may have promoted, popped and released it at once.
THEOREM RedisGivesUpLate == Spec => []GivenUpOnlyAfterMaxAttempts
<1> DEFINE IInv == TypeInv /\ AttemptsEarned
<1>1. Init => IInv /\ GivenUpOnlyAfterMaxAttempts
  <2>1. Init => AttemptsEarned /\ GivenUpOnlyAfterMaxAttempts
    BY DEF Init, AttemptsEarned, GivenUpOnlyAfterMaxAttempts, EmptyTable, Loaded, EmptyHanded,
       PcStates
  <2> QED
    BY <2>1, TypeInvInit
<1>2. IInv /\ [Next]_vars => IInv'
  BY TypesStep, LinkedStep, EarnedStep DEF TypeInv
<1>3. IInv /\ GivenUpOnlyAfterMaxAttempts /\ [Next]_vars => GivenUpOnlyAfterMaxAttempts'
  <2> SUFFICES ASSUME TypeInv, AttemptsEarned, GivenUpOnlyAfterMaxAttempts, [Next]_vars,
                      NEW i \in DOMAIN ledger', ledger'[i].givenUp
               PROVE  ledger'[i].failures >= MaxAttempts
    BY DEF GivenUpOnlyAfterMaxAttempts
  <2>1. CASE ~ \E w \in Worker : Fail(w) \/ FinishFails(w)
    BY <2>1, VerdictFrame DEF GivenUpOnlyAfterMaxAttempts
  <2>2. ASSUME NEW w \in Worker, Fail(w) \/ FinishFails(w)
        PROVE  ledger'[i].failures >= MaxAttempts
    <3>1. PICK j : j = element[w]
      OBVIOUS
    <3>2. pc[w] \in Loaded /\ pc[w] \in {"run", "chain", "find", "del", "clear"}
      BY <2>2 DEF Fail, FinishFails, Finishing, Loaded, EmptyHanded, PcStates
    <3>3. ~Succeed(w)
      <4>1. pc'[w] \in {"record", "release"}
        BY <2>2 DEF Fail, FinishFails, Caught, TypeInv, TypeOK
      <4> QED
        BY <4>1 DEF Succeed, Step, TypeInv, TypeOK
    <3>4. /\ j \in DOMAIN ledger /\ DOMAIN ledger' = DOMAIN ledger
          /\ \A k \in DOMAIN ledger : k # j => ledger'[k] = ledger[k]
          /\ ledger'[j].failures = ledger[j].failures + 1
          /\ ledger'[j].givenUp = (ledger[j].givenUp \/ GivesUp(w))
      BY <2>2, <3>1, <3>3, RunMarks
    <3>5. ledger[j].failures \in Nat
      BY <3>4, FailuresType DEF TypeInv
    <3>6. OldCount(j, envelope[w].attempts)
      BY <3>1, <3>2, OldCounts
    <3>7. GivesUp(w) => ledger[j].failures + 1 >= MaxAttempts
      BY <3>5, <3>6, ReleasingFinite, RedisQueueAssumption DEF OldCount, Earned, GivesUp
    <3>8. CASE i # j
      BY <3>4, <3>8 DEF GivenUpOnlyAfterMaxAttempts
    <3>9. CASE i = j
      <4>1. ledger[j].givenUp \/ GivesUp(w)
        BY <3>4, <3>9
      <4> QED
        BY <3>4, <3>5, <3>7, <3>9, <4>1, RedisQueueAssumption DEF GivenUpOnlyAfterMaxAttempts
    <3> QED
      BY <3>8, <3>9
  <2> QED
    BY <2>1, <2>2
<1> QED
  BY <1>1, <1>2, <1>3, PTL DEF Spec

\* Both at once: no job that was pushed gets lost while nobody holds it, and
\* none is given up early.
THEOREM RedisDelivers == Spec => []DeliveryInv
BY OnlyHeldJobsGetLost, RedisGivesUpLate, PTL DEF DeliveryInv
-----------------------------------------------------------------------------
(***************************************************************************)
(* Pushes that have not come to their end.                                 *)
(***************************************************************************)
LEMMA PushKeptFrame ==
    ASSUME TypeInv, EveryPushKept, KeepsEntries, KeepsPushed,
           \A a \in Worker \cup {App} :
               \/ pushing'[a].at = "idle"
               \/ /\ pushing'[a].id = pushing[a].id /\ pushing[a].at # "idle"
                  /\ pushing[a].id \notin dropped',
           \A i \in DOMAIN ledger' :
               ~ledger'[i].pushed => i \in DOMAIN ledger /\ ledger'[i] = ledger[i]
    PROVE  EveryPushKept'
<1>1. ASSUME NEW a \in Worker \cup {App}, pushing'[a].at # "idle" PROVE PushKept(a)'
  <2>1. PICK i : i = pushing[a].id
    OBVIOUS
  <2>2. i \in DOMAIN ledger /\ ~ledger[i].pushed
    BY <1>1, <2>1 DEF TypeInv, Linked, PushLinked
  <2>3. ledger'[i].payload = ledger[i].payload
    BY <2>2 DEF KeepsEntries
  <2>4. a = App => ledger[i].payload \in Dispatches
    BY <1>1, <2>1 DEF EveryPushKept, PushKept
  <2>5. pushing'[a].id = i /\ i \notin dropped'
    BY <1>1, <2>1
  <2> QED
    BY <2>3, <2>4, <2>5 DEF PushKept
<1>2. \A a \in Worker \cup {App} : PushKept(a)'
  BY <1>1 DEF PushKept
<1>3. \A i \in DOMAIN ledger' : ~ledger'[i].pushed => Untouched(ledger'[i])
  BY DEF EveryPushKept
<1> QED
  BY <1>2, <1>3 DEF EveryPushKept

LEMMA TakeKept ==
    ASSUME TypeInv, EveryPushKept, NEW a \in Worker \cup {App}, NEW payload \in Payload,
           NEW later \in BOOLEAN, TakeId(a, payload, later), UNCHANGED dropped,
           a = App => payload \in Dispatches
    PROVE  EveryPushKept'
<1>a. TypeOK
  BY DEF TypeInv
<1>0. PICK n : n = Len(ledger) + 1
  OBVIOUS
<1>1. /\ DOMAIN ledger' = DOMAIN ledger \cup {n} /\ n \notin DOMAIN ledger
      /\ \A i \in DOMAIN ledger : ledger'[i] = ledger[i]
      /\ ledger'[n] = Fresh(payload)
  BY <1>0, <1>a, TakenId
<1>2. /\ pushing'[a].id = n
      /\ \A b \in Worker \cup {App} : b # a => pushing'[b] = pushing[b]
  BY <1>0, <1>a DEF TakeId, TypeOK
<1>3. /\ Fresh(payload).payload = payload /\ Untouched(Fresh(payload))
  BY DEF Fresh, Untouched
<1>4. PushKept(a)'
  BY <1>a, <1>1, <1>2, <1>3 DEF PushKept, TypeOK
<1>5. ASSUME NEW b \in Worker \cup {App}, b # a PROVE PushKept(b)'
  <2>1. pushing'[b] = pushing[b] /\ PushKept(b)
    BY <1>2, <1>5 DEF EveryPushKept
  <2>2. pushing[b].at # "idle" => pushing[b].id \in DOMAIN ledger
    BY DEF TypeInv, Linked, PushLinked
  <2> QED
    BY <1>1, <2>1, <2>2 DEF PushKept
<1>6. \A i \in DOMAIN ledger' : ~ledger'[i].pushed => Untouched(ledger'[i])
  BY <1>1, <1>3 DEF EveryPushKept
<1> QED
  BY <1>4, <1>5, <1>6 DEF EveryPushKept

\* Whoever dies drops its own id, and the one it works on was pushed.
LEMMA DropKept ==
    ASSUME TypeInv, EveryPushKept, NEW w \in Worker, Drops(w), UNCHANGED ledger
    PROVE  EveryPushKept'
<1>a. TypeOK /\ Linked
  BY DEF TypeInv
<1>1. ASSUME NEW a \in Worker \cup {App}, a # w, pushing[a].at # "idle"
      PROVE  pushing[a].id \notin dropped'
  <2>1. PICK i : i = pushing[a].id
    OBVIOUS
  <2>2. i \in DOMAIN ledger /\ ~ledger[i].pushed /\ i \notin dropped
    BY <1>a, <1>1, <2>1 DEF Linked, PushLinked, EveryPushKept, PushKept
  <2>3. i # 0
    BY <1>a, <2>2, LedgerDomain
  <2>4. element[w] # i
    BY <1>a, <2>2, <2>3 DEF Linked, WorkerLinked
  <2>5. pushing[w].id # i
    <3>1. CASE pushing[w].at = "idle"
      BY <1>a, <2>3, <3>1 DEF Linked, PushLinked
    <3>2. CASE pushing[w].at # "idle"
      BY <1>a, <1>1, <2>1, <3>2 DEF Linked, PushLinked
    <3> QED
      BY <3>1, <3>2
  <2> QED
    BY <2>1, <2>2, <2>4, <2>5 DEF Drops
<1>2. /\ pushing'[w].at = "idle"
      /\ \A a \in Worker \cup {App} : a # w => pushing'[a] = pushing[a]
  BY <1>a DEF Drops, TypeOK, NotPushing
<1>3. KeepsEntries /\ KeepsPushed
  BY DEF KeepsEntries, KeepsPushed
<1>4. \A a \in Worker \cup {App} :
          \/ pushing'[a].at = "idle"
          \/ /\ pushing'[a].id = pushing[a].id /\ pushing[a].at # "idle"
             /\ pushing[a].id \notin dropped'
  BY <1>1, <1>2
<1> QED
  BY <1>3, <1>4, PushKeptFrame

LEMMA LinkKept ==
    ASSUME TypeInv, EveryPushKept, NEW a \in Worker \cup {App}, pushing[a].at = "link", Link(a),
           UNCHANGED dropped
    PROVE  EveryPushKept'
<1>a. TypeOK /\ Linked
  BY DEF TypeInv
<1>1. PICK i : i = pushing[a].id
  OBVIOUS
<1>2. /\ KeepsEntries /\ DOMAIN ledger' = DOMAIN ledger /\ ledger'[i].pushed
      /\ \A j \in DOMAIN ledger : j # i => ledger'[j] = ledger[j]
  BY <1>1, PushMarks
<1>3. /\ pushing'[a].at = "idle"
      /\ \A b \in Worker \cup {App} : b # a => pushing'[b] = pushing[b]
  BY <1>a DEF Link, TypeOK, NotPushing
<1>4. ASSUME NEW b \in Worker \cup {App} PROVE PushKept(b)'
  <2>1. CASE b = a \/ pushing[b].at = "idle"
    BY <1>3, <2>1 DEF PushKept
  <2>2. CASE b # a /\ pushing[b].at # "idle"
    <3>1. PICK j \in DOMAIN ledger : j = pushing[b].id
      BY <1>a, <2>2 DEF Linked, PushLinked
    <3>2. ledger'[j].payload = ledger[j].payload
      BY <1>2, <3>1 DEF KeepsEntries
    <3> QED
      BY <1>3, <2>2, <3>1, <3>2 DEF EveryPushKept, PushKept
  <2> QED
    BY <2>1, <2>2
<1>5. \A j \in DOMAIN ledger' : ~ledger'[j].pushed => Untouched(ledger'[j])
  BY <1>2 DEF EveryPushKept
<1> QED
  BY <1>4, <1>5 DEF EveryPushKept

LEMMA RunKept ==
    ASSUME TypeInv, EveryPushKept, NEW w \in Worker, Succeed(w) \/ Fail(w) \/ FinishFails(w)
    PROVE  EveryPushKept'
<1>a. TypeOK /\ Linked
  BY DEF TypeInv
<1>1. PICK i : i = element[w]
  OBVIOUS
<1>2. /\ KeepsEntries /\ KeepsPushed
      /\ i \in DOMAIN ledger /\ DOMAIN ledger' = DOMAIN ledger
      /\ \A j \in DOMAIN ledger : j # i => ledger'[j] = ledger[j]
  BY <1>1, RunMarks
<1>3. ledger[i].pushed /\ ledger'[i].pushed
  <2>1. i # 0
    BY <1>a, <1>2, LedgerDomain
  <2> QED
    BY <1>a, <1>1, <1>2, <2>1 DEF Linked, WorkerLinked, KeepsEntries
<1>4. /\ UNCHANGED dropped
      /\ \A a \in Worker \cup {App} : pushing'[a] = pushing[a] \/ pushing'[a].at = "idle"
  BY <1>a DEF Succeed, Fail, FinishFails, Caught, TypeOK, NotPushing
<1>5. \A a \in Worker \cup {App} :
          \/ pushing'[a].at = "idle"
          \/ /\ pushing'[a].id = pushing[a].id /\ pushing[a].at # "idle"
             /\ pushing[a].id \notin dropped'
  BY <1>4 DEF EveryPushKept, PushKept
<1>6. \A j \in DOMAIN ledger' :
          ~ledger'[j].pushed => j \in DOMAIN ledger /\ ledger'[j] = ledger[j]
  BY <1>2, <1>3
<1> QED
  BY <1>2, <1>5, <1>6, PushKeptFrame

LEMMA KeptStep == TypeInv /\ EveryPushKept /\ [Next]_vars => EveryPushKept'
<1> SUFFICES ASSUME TypeInv, EveryPushKept, [Next]_vars PROVE EveryPushKept'
  OBVIOUS
<1>a. TypeOK
  BY DEF TypeInv
<1>1. ASSUME NEW p \in Dispatches, NEW later \in BOOLEAN, Dispatch(p, later)
      PROVE  EveryPushKept'
  <2>1. p \in Payload
    BY RedisQueueAssumption
  <2> QED
    BY <1>1, <2>1, TakeKept DEF Dispatch
<1>2. ASSUME NEW w \in Worker, PushNext(w) PROVE EveryPushKept'
  <2>1. Tail(envelope[w].payload) \in Payload
    BY <1>2, RestOfChain DEF PushNext
  <2> QED
    BY <1>2, <2>1, TakeKept, RedisQueueAssumption DEF PushNext
<1>3. CASE Dispatched
  BY <1>3, LinkKept DEF Dispatched
<1>4. ASSUME NEW w \in Worker, PushedNext(w) PROVE EveryPushKept'
  BY <1>4, LinkKept DEF PushedNext
<1>5. ASSUME NEW w \in Worker, Succeed(w) \/ Fail(w) \/ FinishFails(w) PROVE EveryPushKept'
  BY <1>5, RunKept
<1>6. ASSUME NEW w \in Worker, CrashWorker(w) \/ PopFails(w) \/ CatchFails(w)
      PROVE  EveryPushKept'
  BY <1>6, DropKept DEF CrashWorker, PopFails, CatchFails, Stop
<1>7. ASSUME UNCHANGED <<ledger, dropped>>,
             \A a \in Worker \cup {App} :
                 \/ pushing'[a].at = "idle"
                 \/ pushing'[a].id = pushing[a].id /\ pushing[a].at # "idle"
      PROVE  EveryPushKept'
  <2>1. KeepsEntries /\ KeepsPushed
    BY <1>7 DEF KeepsEntries, KeepsPushed
  <2>2. \A a \in Worker \cup {App} :
            pushing[a].at # "idle" => pushing[a].id \notin dropped'
    BY <1>7 DEF EveryPushKept, PushKept
  <2> QED
    BY <1>7, <2>1, <2>2, PushKeptFrame
<1>8. ASSUME NEW a \in Worker \cup {App}, SaveNew(a) PROVE EveryPushKept'
  BY <1>7, <1>8, <1>a DEF SaveNew, TypeOK, Pushing
<1>9. CASE DispatchFails
  BY <1>7, <1>9, <1>a DEF DispatchFails, TypeOK, NotPushing
<1>10. ASSUME UNCHANGED <<ledger, dropped, pushing>> PROVE EveryPushKept'
  BY <1>7, <1>10
<1>11. CASE (\E i \in DOMAIN delayed : Elapse(i)) \/ UNCHANGED vars
  BY <1>10, <1>11 DEF Elapse, vars
<1>12. ASSUME NEW w \in Worker, PopStep(w) \/ Signal(w) PROVE EveryPushKept'
  BY <1>10, <1>12 DEF PopStep, Start, Exit, FindDue, Undelay, Promote, AllPromoted, Pop,
     PopNothing, LoadNothing, Load, Reserve, Index, Wake, Signal
<1>13. ASSUME NEW w \in Worker,
              \/ FindForDelete(w) \/ FindNothing(w) \/ Delete(w) \/ Clear(w)
              \/ RecordFailed(w) \/ FindForRelease(w) \/ Rewrite(w) \/ ReleaseDelayed(w)
       PROVE  EveryPushKept'
  BY <1>10, <1>13 DEF FindForDelete, FindNothing, Delete, Clear, RecordFailed,
     FindForRelease, Rewrite, ReleaseDelayed
<1> QED
  BY <1>1, <1>2, <1>3, <1>4, <1>5, <1>6, <1>8, <1>9, <1>11, <1>12, <1>13
     DEF Next, Produce, WorkerStep, JobStep, Fault
-----------------------------------------------------------------------------
(***************************************************************************)
(* The refinement of LossyQueue: every command is one of its steps or      *)
(* none.                                                                   *)
(***************************************************************************)
LossyStep == [Promised!LossyNext]_(Promised!lossyVars)

QueueInv == TypeInv /\ EveryJobSafe /\ AttemptsEarned /\ EveryPushKept

\* The entry of LossyQueue, and of JobQueue, behind an id.
LEMMA EntryOf ==
    /\ DOMAIN Entries = Pushed
    /\ \A i \in Pushed : /\ i \in DOMAIN ledger /\ ledger[i].pushed
                         /\ Entries[i] = Outcome(ledger[i])
                         /\ Entries[i].payload = ledger[i].payload
                         /\ Entries[i].failures = ledger[i].failures
                         /\ Entries[i].handled = ledger[i].handled
                         /\ Entries[i].givenUp = ledger[i].givenUp
BY DEF Entries, Pushed, Outcome

LEMMA SameEntriesStay ==
    ASSUME UNCHANGED ledger
    PROVE  UNCHANGED <<Entries, Pushed>>
BY DEF Entries, Pushed, Outcome

LEMMA FinishedEntry ==
    ASSUME NEW i \in Pushed, Completed(i) \/ ledger[i].givenUp
    PROVE  Promised!Finished(i)
<1>1. CASE ledger[i].givenUp
  BY <1>1, EntryOf DEF Promised!Finished
<1>2. CASE Completed(i)
  <2>1. ASSUME Len(Entries[i].payload) > 1
        PROVE  \E j \in DOMAIN Entries : Entries[j].payload = Tail(Entries[i].payload)
    <3>1. PICK j \in DOMAIN ledger :
              ledger[j].payload = Tail(ledger[i].payload) /\ ledger[j].pushed
      BY <1>2, <2>1, EntryOf DEF Completed
    <3>2. j \in Pushed
      BY <3>1 DEF Pushed
    <3> QED
      BY <3>1, <3>2, EntryOf
  <2>2. Entries[i].handled
    BY <1>2, EntryOf DEF Completed
  <2> QED
    BY <2>1, <2>2 DEF Promised!Finished, Promised!RestIsPushed
<1> QED
  BY <1>1, <1>2

\* A worker has nothing in hand, or what was pushed.
LEMMA HandsHoldEntries ==
    ASSUME TypeInv
    PROVE  \A w \in Worker : element[w] = 0 \/ element[w] \in Pushed
BY DEF TypeInv, TypeOK, Linked, WorkerLinked, Pushed

LEMMA OneHandMoves ==
    ASSUME TypeInv, TypeInv', NEW w \in Worker, OnlyActs(w), UNCHANGED ledger
    PROVE  Promised!HandsMove
<1>1. PICK e : e = element'[w]
  OBVIOUS
<1>2. e = 0 \/ e \in Pushed'
  BY <1>1, HandsHoldEntries DEF TypeInv, TypeOK, Linked, WorkerLinked, Pushed
<1>3. e \in DOMAIN Entries \cup {0}
  BY <1>2, SameEntriesStay, EntryOf
<1>4. element' = [element EXCEPT ![w] = e]
  BY <1>1 DEF TypeInv, TypeOK, OnlyActs
<1> QED
  BY <1>3, <1>4 DEF Promised!HandsMove

LEMMA HandStep ==
    ASSUME TypeInv, TypeInv', NEW w \in Worker, OnlyActs(w), UNCHANGED <<ledger, dropped, Waiting>>
    PROVE  LossyStep
<1>1. UNCHANGED <<Entries, Waiting, Lost>>
  BY SameEntriesStay DEF Lost
<1>2. Promised!QueueNext
  BY <1>1 DEF Promised!QueueNext, Promised!InternalStep, Promised!queueVars
<1>3. Promised!Serve
  BY <1>1, <1>2, OneHandMoves DEF Promised!Serve
<1> QED
  BY <1>3 DEF LossyStep, Promised!LossyNext

\* A command touches one id: it stays where it was, leaves the queue because
\* it is finished, or comes back into a worker's hands.
LEMMA OneIdMoves ==
    ASSUME QueueInv, TypeInv', NEW w \in Worker, OnlyActs(w), UNCHANGED <<ledger, dropped>>,
           NEW i \in Pushed,
           \A j \in Pushed \ {i} : j \in Waiting' <=> j \in Waiting,
           i \in Waiting /\ i \notin Waiting' => Completed(i) \/ ledger[i].givenUp,
           i \notin Waiting /\ i \in Waiting' => InHand(i)' # {}
    PROVE  LossyStep
<1>1. UNCHANGED <<Entries, Pushed, Lost>>
  BY SameEntriesStay DEF Lost
<1>2. Promised!HandsMove
  BY OneHandMoves DEF QueueInv
<1>3. Waiting \subseteq Pushed /\ Waiting' \subseteq Pushed
  BY <1>1 DEF Waiting
<1>4. CASE i \in Waiting <=> i \in Waiting'
  <2>1. Waiting' = Waiting
    BY <1>3, <1>4
  <2> QED
    BY <2>1, HandStep DEF QueueInv
<1>5. CASE i \in Waiting /\ i \notin Waiting'
  <2>1. Waiting' = Waiting \ {i}
    BY <1>3, <1>5
  <2>2. Promised!LeaveQueue(i)
    BY <1>1, <1>5, <2>1, FinishedEntry DEF Promised!LeaveQueue
  <2>3. Promised!QueueNext
    BY <2>2, EntryOf DEF Promised!QueueNext
  <2> QED
    BY <1>1, <1>2, <2>3 DEF LossyStep, Promised!LossyNext, Promised!Serve
<1>6. CASE i \notin Waiting /\ i \in Waiting'
  <2>1. Waiting' = Waiting \cup {i}
    BY <1>3, <1>6
  <2>2. Promised!Finished(i) \/ i \in Lost
    <3>1. Completed(i) \/ Recorded(i) \/ i \in dropped
      BY <1>6 DEF QueueInv, EveryJobSafe, Safe, Waiting, Pushed
    <3> QED
      BY <3>1, FinishedEntry DEF Recorded, Lost
  <2>3. \E v \in Worker : element'[v] = i
    BY <1>6 DEF InHand
  <2>4. Promised!Return(i)
    BY <1>1, <1>2, <1>6, <2>1, <2>2, <2>3 DEF Promised!Return
  <2> QED
    BY <2>4, EntryOf DEF LossyStep, Promised!LossyNext
<1> QED
  BY <1>4, <1>5, <1>6

LEMMA NothingMoves ==
    ASSUME TypeInv, UNCHANGED <<ready, delayed, element, dropped>>,
           Pushed' = Pushed, Entries' = Entries,
           \A i \in Pushed : i \in DOMAIN envelopes' <=> i \in DOMAIN envelopes
    PROVE  LossyStep
<1>1. Waiting' = Waiting /\ Lost' = Lost
  BY DEF Waiting, Queued, InHand, Lost
<1> QED
  BY <1>1 DEF LossyStep, Promised!lossyVars

\* What an id that a command does not touch has to do with the queue.
LEMMA OthersStay ==
    ASSUME TypeInv, NEW w \in Worker, OnlyActs(w), UNCHANGED ledger, NEW i, NEW j \in Pushed \ {i},
           j \in DOMAIN envelopes' <=> j \in DOMAIN envelopes,
           j \in DOMAIN delayed' <=> j \in DOMAIN delayed,
           Listed(j)' <=> Listed(j),
           element[w] \in {0, i}, element'[w] \in {0, i}
    PROVE  j \in Waiting' <=> j \in Waiting
<1>1. j # 0 /\ j # i /\ j \in Pushed'
  BY LedgerDomain, SameEntriesStay DEF TypeInv, Pushed
<1>2. Queued(j)' <=> Queued(j)
  BY DEF Queued, Listed
<1>3. InHand(j)' = InHand(j)
  BY <1>1 DEF InHand, OnlyActs
<1> QED
  BY <1>1, <1>2, <1>3 DEF Waiting

LEMMA InHandNow ==
    ASSUME NEW w \in Worker
    PROVE  \A i : /\ element[w] = i => InHand(i) # {}
                  /\ element'[w] = i => InHand(i)' # {}
BY DEF InHand

\* promoteDelayed() and pop() take an id out of one place and into another.
LEMMA UndelayRefines ==
    ASSUME QueueInv, TypeInv', NEW w \in Worker, OnlyActs(w), Undelay(w)
    PROVE  LossyStep
<1>a. TypeInv /\ TypeOK /\ WorkerLinked(w)
  BY DEF QueueInv, TypeInv, Linked
<1>1. PICK i \in todo[w] : /\ element' = [element EXCEPT ![w] = i]
                           /\ delayed' = DeleteRow(delayed, i)
  BY DEF Undelay
<1>2. /\ UNCHANGED <<ledger, dropped, envelopes, ready>>
      /\ element[w] = 0 /\ element'[w] = i /\ i \in Pushed
  BY <1>a, <1>1 DEF Undelay, Step, WorkerLinked, EmptyHanded, TypeOK, Pushed
<1>3. \A j \in Pushed \ {i} : j \in Waiting' <=> j \in Waiting
  BY <1>a, <1>1, <1>2, OthersStay DEF DeleteRow, Listed
<1>4. InHand(i)' # {}
  BY <1>2, InHandNow
<1>5. i \in Waiting => i \in Waiting'
  BY <1>2, <1>4, SameEntriesStay DEF Waiting
<1> QED
  BY <1>2, <1>3, <1>4, <1>5, OneIdMoves

LEMMA PromoteRefines ==
    ASSUME QueueInv, TypeInv', NEW w \in Worker, OnlyActs(w), Promote(w)
    PROVE  LossyStep
<1>a. TypeInv /\ TypeOK /\ WorkerLinked(w)
  BY DEF QueueInv, TypeInv, Linked
<1>1. PICK i : i = element[w]
  OBVIOUS
<1>2. /\ UNCHANGED <<ledger, dropped, envelopes, delayed>> /\ PushReady(i)
      /\ element'[w] = 0 /\ i \in DOMAIN ledger /\ i \in Pushed
  BY <1>a, <1>1 DEF Promote, Step, WorkerLinked, EmptyHanded, TypeOK, Pushed
<1>3. /\ DOMAIN ready' = DOMAIN ready \cup {Len(ready) + 1}
      /\ \A k \in DOMAIN ready : ready'[k] = ready[k]
      /\ ready'[Len(ready) + 1] = i
  BY <1>a, <1>2, PushReadyTypes DEF TypeOK
<1>4. Listed(i)' /\ \A j : j # i => (Listed(j)' <=> Listed(j))
  BY <1>3 DEF Listed
<1>5. \A j \in Pushed \ {i} : j \in Waiting' <=> j \in Waiting
  BY <1>a, <1>1, <1>2, <1>4, OthersStay
<1>6. InHand(i) # {} /\ Queued(i)'
  BY <1>1, <1>4, InHandNow DEF Queued, Listed
<1>7. i \in Waiting' <=> i \in Waiting
  BY <1>2, <1>6, SameEntriesStay DEF Waiting
<1> QED
  BY <1>2, <1>5, <1>7, OneIdMoves

LEMMA PopRefines ==
    ASSUME QueueInv, TypeInv', NEW w \in Worker, OnlyActs(w), Pop(w)
    PROVE  LossyStep
<1>a. TypeInv /\ TypeOK /\ WorkerLinked(w)
  BY DEF QueueInv, TypeInv, Linked
<1>1. ready \in Seq(DOMAIN ledger) /\ ready # <<>> /\ ready' = Tail(ready)
  BY <1>a DEF TypeOK, Pop
<1>2. PICK i : i = Head(ready)
  OBVIOUS
<1>3. /\ i = ready[1] /\ 1 \in DOMAIN ready /\ i \in DOMAIN ledger
      /\ \A k \in DOMAIN ready' : k + 1 \in DOMAIN ready /\ ready'[k] = ready[k + 1]
      /\ \A k \in DOMAIN ready : k = 1 \/ k - 1 \in DOMAIN ready'
  BY <1>1, <1>2, PopReadyTypes
<1>4. ledger[i].pushed
  BY <1>a, <1>3 DEF TypeInv, Linked
<1>5. /\ UNCHANGED <<ledger, dropped, envelopes, delayed>>
      /\ element[w] = 0 /\ element'[w] = i /\ i \in Pushed
  BY <1>a, <1>2, <1>3, <1>4 DEF Pop, Step, WorkerLinked, EmptyHanded, TypeOK, Pushed
<1>6. ASSUME NEW j, j # i PROVE Listed(j)' <=> Listed(j)
  <2>1. ASSUME NEW k \in DOMAIN ready, ready[k] = j PROVE Listed(j)'
    <3>1. k \in Nat /\ k # 1
      BY <1>1, <1>3, <1>6, <2>1, LenProperties
    <3>2. k - 1 \in DOMAIN ready' /\ ready'[k - 1] = ready[k]
      BY <1>3, <3>1
    <3> QED
      BY <2>1, <3>2 DEF Listed
  <2> QED
    BY <1>3, <2>1 DEF Listed
<1>7. \A j \in Pushed \ {i} : j \in Waiting' <=> j \in Waiting
  BY <1>a, <1>5, <1>6, OthersStay
<1>8. InHand(i)' # {} /\ Queued(i)
  BY <1>3, <1>5, InHandNow DEF Queued
<1>9. i \in Waiting' <=> i \in Waiting
  BY <1>5, <1>8, SameEntriesStay DEF Waiting
<1> QED
  BY <1>5, <1>7, <1>9, OneIdMoves

LEMMA ReleaseRefines ==
    ASSUME QueueInv, TypeInv', NEW w \in Worker, OnlyActs(w), ReleaseDelayed(w)
    PROVE  LossyStep
<1>a. TypeInv /\ TypeOK /\ WorkerLinked(w)
  BY DEF QueueInv, TypeInv, Linked
<1>1. PICK i : i = element[w]
  OBVIOUS
<1>2. /\ UNCHANGED <<ledger, dropped, envelopes, ready>> /\ DOMAIN delayed' = DOMAIN delayed \cup {i}
      /\ element'[w] = 0 /\ i \in Pushed
  BY <1>a, <1>1 DEF ReleaseDelayed, LetGo, Delay, InsertRow, Step, WorkerLinked, EmptyHanded,
     TypeOK, Pushed
<1>3. \A j \in Pushed \ {i} : j \in Waiting' <=> j \in Waiting
  BY <1>a, <1>1, <1>2, OthersStay DEF Listed
<1>4. InHand(i) # {} /\ Queued(i)'
  BY <1>1, <1>2, InHandNow DEF Queued
<1>5. i \in Waiting' <=> i \in Waiting
  BY <1>2, <1>4, SameEntriesStay DEF Waiting
<1> QED
  BY <1>2, <1>3, <1>5, OneIdMoves

\* The envelope is written back, whether or not it was deleted meanwhile.
LEMMA WriteBackRefines ==
    ASSUME QueueInv, TypeInv', NEW w \in Worker, OnlyActs(w), Reserve(w) \/ Rewrite(w)
    PROVE  LossyStep
<1>a. TypeInv /\ TypeOK /\ WorkerLinked(w)
  BY DEF QueueInv, TypeInv, Linked
<1>1. PICK i : i = element[w]
  OBVIOUS
<1>2. /\ UNCHANGED <<ledger, dropped, delayed, ready, element>>
      /\ DOMAIN envelopes' = DOMAIN envelopes \cup {i} /\ i \in Pushed
  BY <1>a, <1>1 DEF Reserve, Rewrite, InsertRow, Step, WorkerLinked, EmptyHanded, local,
     TypeOK, Pushed
<1>3. \A j \in Pushed \ {i} : j \in Waiting' <=> j \in Waiting
  BY <1>a, <1>1, <1>2, OthersStay DEF Listed
<1>4. InHand(i)' # {} /\ i \in Waiting'
  BY <1>1, <1>2, InHandNow, SameEntriesStay DEF Waiting
<1> QED
  BY <1>2, <1>3, <1>4, OneIdMoves

\* What a worker deletes is finished; what it lets go is finished or has no
\* envelope.
LEMMA LetGoRefines ==
    ASSUME QueueInv, TypeInv', NEW w \in Worker, OnlyActs(w),
           LoadNothing(w) \/ FindNothing(w) \/ Delete(w) \/ Clear(w)
    PROVE  LossyStep
<1>a. TypeInv /\ TypeOK /\ WorkerLinked(w) /\ Noted(w)
  BY DEF QueueInv, TypeInv, Linked, EveryJobSafe
<1>1. PICK i : i = element[w]
  OBVIOUS
<1>2. pc[w] \notin EmptyHanded
  BY DEF LoadNothing, FindNothing, Delete, Clear, Step, EmptyHanded
<1>3. i \in Pushed /\ i # 0
  BY <1>a, <1>1, <1>2 DEF WorkerLinked, TypeOK, Pushed
<1>4. /\ UNCHANGED <<ledger, dropped, ready>> /\ element'[w] \in {0, i}
      /\ DOMAIN envelopes \ {i} \subseteq DOMAIN envelopes' /\ DOMAIN envelopes' \subseteq DOMAIN envelopes
      /\ DOMAIN delayed \ {i} \subseteq DOMAIN delayed' /\ DOMAIN delayed' \subseteq DOMAIN delayed
      /\ Clear(w) => UNCHANGED envelopes
  BY <1>a, <1>1 DEF LoadNothing, FindNothing, Delete, Clear, LetGo, DeleteRow, store, local, TypeOK
<1>5. \A j \in Pushed \ {i} : j \in Waiting' <=> j \in Waiting
  BY <1>a, <1>1, <1>4, OthersStay DEF Listed
<1>6. i \in Waiting => Completed(i) \/ ledger[i].givenUp
  <2>1. CASE LoadNothing(w) \/ FindNothing(w)
    BY <1>1, <2>1 DEF LoadNothing, FindNothing, Waiting
  <2>2. CASE Delete(w) \/ Clear(w)
    BY <1>a, <1>1, <2>2 DEF Delete, Clear, Step, Noted, Recorded
  <2> QED
    BY <2>1, <2>2
<1>7. i \in Waiting' => i \in Waiting
  <2>1. InHand(i) # {}
    BY <1>1, InHandNow
  <2> QED
    BY <1>3, <1>4, <2>1 DEF Waiting
<1> QED
  BY <1>3, <1>4, <1>5, <1>6, <1>7, OneIdMoves

\* Whoever stops, or starts over after a failed pop(), loses what it held.
LEMMA DropsRefine ==
    ASSUME QueueInv, NEW w \in Worker, OnlyActs(w), Drops(w), UNCHANGED <<store, ledger>>,
           element' = [element EXCEPT ![w] = 0]
    PROVE  LossyStep
<1>a. TypeInv /\ TypeOK /\ Linked
  BY DEF QueueInv, TypeInv
<1>1. PICK i : i = element[w]
  OBVIOUS
<1>2. i = 0 \/ i \in Pushed
  BY <1>a, <1>1, HandsHoldEntries
<1>3. pushing[w].id \notin Pushed
  <2>1. CASE pushing[w].at = "idle"
    BY <1>a, <2>1, LedgerDomain DEF Linked, PushLinked, Pushed
  <2>2. CASE pushing[w].at # "idle"
    BY <1>a, <2>2 DEF Linked, PushLinked, Pushed
  <2> QED
    BY <2>1, <2>2
<1>4. UNCHANGED <<Entries, Pushed>> /\ 0 \notin Pushed
  BY <1>a, SameEntriesStay, LedgerDomain DEF Pushed
<1>5. Lost' = Lost \cup ({i} \ {0})
  BY <1>1, <1>2, <1>3, <1>4 DEF Lost, Drops
<1>6. CASE i = 0
  <2>1. element' = element
    BY <1>a, <1>1, <1>6 DEF TypeOK
  <2>2. Waiting' = Waiting
    BY <1>4, <2>1 DEF Waiting, Queued, InHand, store
  <2> QED
    BY <1>4, <1>5, <1>6, <2>1, <2>2 DEF LossyStep, Promised!lossyVars
<1>7. CASE i # 0
  <2>1. \A j \in Pushed \ {i} : InHand(j)' = InHand(j)
    BY <1>a, <1>1, <1>4 DEF InHand, TypeOK
  <2>2. InHand(i)' \subseteq InHand(i)
    BY <1>a, <1>7 DEF InHand, TypeOK
  <2>3. \A j \in Pushed \ {i} : j \in Waiting' <=> j \in Waiting
    BY <1>4, <2>1 DEF Waiting, Queued, store
  <2>4. i \in Waiting' => i \in Waiting
    BY <1>4, <2>2 DEF Waiting, Queued, store
  <2>5. Waiting' \in {Waiting, Waiting \ {i}}
    <3>1. Waiting \subseteq Pushed /\ Waiting' \subseteq Pushed
      BY <1>4 DEF Waiting
    <3> QED
      BY <2>3, <2>4, <3>1
  <2>6. Promised!Lose(w)
    BY <1>1, <1>4, <1>5, <1>7, <2>5 DEF Promised!Lose
  <2> QED
    BY <2>6 DEF LossyStep, Promised!LossyNext
<1> QED
  BY <1>6, <1>7

\* The LPUSH or ZADD that ends a push puts a fresh entry into the queue.
LEMMA LinkRefines ==
    ASSUME QueueInv, NEW a \in Worker \cup {App}, pushing[a].at = "link", Link(a),
           UNCHANGED <<envelopes, element, dropped>>,
           NEW i, i = pushing[a].id, Promised!MayBePushed(ledger[i].payload)
    PROVE  LossyStep
<1>a. TypeInv /\ TypeOK
  BY DEF QueueInv, TypeInv
<1>1. /\ i \in DOMAIN ledger /\ i \in DOMAIN envelopes /\ ~ledger[i].pushed
      /\ DOMAIN ledger' = DOMAIN ledger
      /\ \A j \in DOMAIN ledger : j # i => ledger'[j] = ledger[j]
      /\ ledger'[i].payload = ledger[i].payload /\ ledger'[i].pushed
      /\ ledger'[i].handled = ledger[i].handled
      /\ ledger'[i].failures = ledger[i].failures /\ ledger'[i].givenUp = ledger[i].givenUp
  BY <1>a, PushMarks
<1>2. Pushed' = Pushed \cup {i} /\ i \notin Pushed
  BY <1>1 DEF Pushed
<1>3. Outcome(ledger'[i]) = Promised!Fresh(ledger[i].payload)
  <2>1. /\ ledger[i].failures = 0 /\ ledger[i].handled = FALSE /\ ledger[i].givenUp = FALSE
    <3>1. Untouched(ledger[i]) /\ ledger[i] \in Entry
      BY <1>a, <1>1, LedgerDomain DEF QueueInv, EveryPushKept
    <3> QED
      BY <3>1 DEF Untouched, Entry
  <2> QED
    BY <1>1, <2>1 DEF Outcome, Promised!Fresh
<1>4. Entries' = [j \in Pushed \cup {i} |->
                     IF j = i THEN Promised!Fresh(ledger[i].payload) ELSE Entries[j]]
  <2>1. Entries' = [j \in Pushed' |-> Outcome(ledger'[j])]
    BY DEF Entries
  <2>2. \A j \in Pushed : Outcome(ledger'[j]) = Entries[j]
    BY <1>1, <1>2, EntryOf DEF Pushed
  <2> QED
    BY <1>2, <1>3, <2>1, <2>2
<1>5. Lost' = Lost
  <2>1. i \notin dropped
    BY DEF QueueInv, EveryPushKept, PushKept
  <2> QED
    BY <1>2, <2>1 DEF Lost
<1>6. Queued(i)' /\ \A j \in Pushed : Queued(j)' <=> Queued(j)
  <2>1. CASE pushing[a].later
    BY <1>2, <2>1 DEF Link, Delay, InsertRow, Queued
  <2>2. CASE ~pushing[a].later
    <3>1. PushReady(i) /\ UNCHANGED delayed /\ ready \in Seq(DOMAIN ledger)
      BY <1>a, <2>2 DEF Link, TypeOK
    <3>2. /\ DOMAIN ready' = DOMAIN ready \cup {Len(ready) + 1}
          /\ \A k \in DOMAIN ready : ready'[k] = ready[k]
          /\ ready'[Len(ready) + 1] = i
      BY <1>1, <3>1, PushReadyTypes
    <3> QED
      BY <1>2, <3>1, <3>2 DEF Queued
  <2> QED
    BY <2>1, <2>2
<1>7. \A j \in Pushed \cup {i} : InHand(j)' = InHand(j)
  BY DEF InHand
<1>8. Waiting' = Waiting \cup {i}
  BY <1>1, <1>2, <1>6, <1>7 DEF Waiting
<1>9. Promised!PushEntry(i, ledger[i].payload)
  BY <1>2, <1>4, <1>8, EntryOf DEF Promised!PushEntry, Promised!InsertRow
<1>10. Promised!QueueNext
  <2>1. i \in DOMAIN Entries' /\ Entries'[i].payload = ledger[i].payload
    BY <1>4 DEF Promised!Fresh
  <2> QED
    BY <1>9, <2>1 DEF Promised!QueueNext
<1>11. Promised!HandsMove
  BY DEF Promised!HandsMove
<1> QED
  BY <1>5, <1>10, <1>11 DEF LossyStep, Promised!LossyNext, Promised!Serve

\* A run that ends changes the outcome of its entry and nothing else.
LEMMA OutcomeChanges ==
    ASSUME NEW i \in Pushed, DOMAIN ledger' = DOMAIN ledger, KeepsPushed,
           \A j \in DOMAIN ledger : j # i => ledger'[j] = ledger[j],
           UNCHANGED <<store, element, dropped>>
    PROVE  /\ Entries' = [Entries EXCEPT ![i] = Outcome(ledger'[i])]
           /\ Waiting' = Waiting /\ Lost' = Lost
           /\ Promised!QueueNext => LossyStep
<1>1. Pushed' = Pushed
  BY DEF Pushed, KeepsPushed
<1>2. Waiting' = Waiting /\ Lost' = Lost
  BY <1>1 DEF Waiting, Queued, InHand, Lost, store
<1>3. Entries' = [Entries EXCEPT ![i] = Outcome(ledger'[i])]
  BY <1>1 DEF Entries, Pushed
<1>4. Promised!HandsMove
  BY DEF Promised!HandsMove
<1> QED
  BY <1>2, <1>3, <1>4 DEF LossyStep, Promised!LossyNext, Promised!Serve

LEMMA RunRefines ==
    ASSUME QueueInv, NEW w \in Worker, Succeed(w) \/ Fail(w) \/ FinishFails(w)
    PROVE  LossyStep
<1>a. TypeInv /\ TypeOK /\ WorkerLinked(w)
  BY DEF QueueInv, TypeInv, Linked
<1>1. PICK i : i = element[w]
  OBVIOUS
<1>2. /\ KeepsPushed /\ i \in DOMAIN ledger /\ DOMAIN ledger' = DOMAIN ledger
      /\ \A j \in DOMAIN ledger : j # i => ledger'[j] = ledger[j]
  BY <1>a, <1>1, RunMarks
<1>3. /\ pc[w] \in Loaded /\ pc[w] \in {"run", "chain", "find", "del", "clear"}
      /\ UNCHANGED <<store, element, dropped>>
  BY DEF Succeed, Fail, FinishFails, Finishing, Caught, Step, Loaded, EmptyHanded, PcStates,
     local
<1>4. i \in Pushed
  BY <1>a, <1>1, <1>2, <1>3 DEF WorkerLinked, EmptyHanded, Pushed
<1>5. PICK old \in Entry : old = ledger[i]
  BY <1>a, <1>2, LedgerDomain
<1>6. /\ Entries' = [Entries EXCEPT ![i] = Outcome(ledger'[i])]
      /\ Waiting' = Waiting
      /\ Promised!QueueNext => LossyStep
  BY <1>2, <1>3, <1>4, OutcomeChanges
<1>7. Entries[i] = Outcome(old)
  BY <1>4, <1>5, EntryOf
<1>8. CASE Succeed(w)
  <2>1. ledger'[i] = [old EXCEPT !.handled = TRUE]
    <3>1. ledger' = [ledger EXCEPT ![i].handled = TRUE]
      BY <1>1, <1>8 DEF Succeed
    <3>2. ledger'[i] = [ledger[i] EXCEPT !.handled = TRUE]
      BY <1>a, <1>2, <3>1, SuccessMarks
    <3> QED
      BY <1>5, <3>2
  <2>2. Outcome(ledger'[i]) = [Entries[i] EXCEPT !.handled = TRUE]
    <3>1. /\ ledger'[i].payload = old.payload /\ ledger'[i].failures = old.failures
          /\ ledger'[i].givenUp = old.givenUp /\ ledger'[i].handled = TRUE
      BY <2>1 DEF Entry
    <3>2. Outcome(ledger'[i]) = [Outcome(old) EXCEPT !.handled = TRUE]
      <4>1. PICK t \in BOOLEAN : t = TRUE
        OBVIOUS
      <4>2. Outcome(ledger'[i]) = [payload |-> old.payload, failures |-> old.failures,
                                  handled |-> t, givenUp |-> old.givenUp]
        BY <3>1, <4>1, Zenon DEF Outcome
      <4>3. [Outcome(old) EXCEPT !.handled = t]
              = [payload |-> old.payload, failures |-> old.failures,
                 handled |-> t, givenUp |-> old.givenUp]
        BY DEF Outcome
      <4>4. Outcome(ledger'[i]) = [Outcome(old) EXCEPT !.handled = t]
        BY <4>2, <4>3
      <4> QED
        BY <4>1, <4>4, Zenon
    <3> QED
      BY <1>7, <3>2
  <2>3. Promised!RunSucceeds(i)
    BY <1>6, <2>2 DEF Promised!RunSucceeds
  <2> QED
    BY <1>4, <1>6, <2>3, EntryOf DEF Promised!QueueNext
<1>9. CASE ~Succeed(w)
  <2>1. PICK g \in BOOLEAN : g <=> GivesUp(w)
    BY Zenon
  <2>2. g = GivesUp(w)
    <3>1. GivesUp(w) \in BOOLEAN
      BY DEF GivesUp
    <3> QED
      BY <2>1, <3>1
  <2>3. ledger' = [ledger EXCEPT ![i] = FailedEntry(@, g)]
    BY <1>1, <1>9, <2>2 DEF Fail, FinishFails, Caught
  <2>4. ledger'[i] = FailedEntry(old, g)
    BY <1>a, <1>2, <1>5, <2>3, FailureMarks
  <2>5. Outcome(FailedEntry(old, g)) = Promised!FailedRun(Outcome(old), FALSE, g)
    <3>1. PICK h \in BOOLEAN : h = (old.handled \/ FALSE)
      BY Zenon
    <3>2. PICK u \in BOOLEAN : u = (old.givenUp \/ g)
      BY Zenon
    <3>3. h = old.handled
      BY <3>1 DEF Entry
    <3>4. Promised!FailedRun(Outcome(old), FALSE, g)
            = [Outcome(old) EXCEPT !.failures = @ + 1, !.handled = h, !.givenUp = u]
      <4>1. Outcome(old).handled = old.handled /\ Outcome(old).givenUp = old.givenUp
        BY DEF Outcome
      <4> QED
        BY <3>1, <3>2, <4>1, Zenon DEF Promised!FailedRun
    <3>5. /\ FailedEntry(old, g).payload = old.payload
          /\ FailedEntry(old, g).handled = old.handled
          /\ FailedEntry(old, g).failures = old.failures + 1
          /\ FailedEntry(old, g).givenUp = (old.givenUp \/ g)
      BY FailedEntryTypes
    <3>6. FailedEntry(old, g).givenUp = u
      BY <3>2, <3>5, Zenon
    <3> QED
      BY <3>3, <3>4, <3>5, <3>6 DEF Outcome
  <2>6. Entries' = [Entries EXCEPT ![i] = Promised!FailedRun(Entries[i], FALSE, g)]
    BY <1>6, <1>7, <2>4, <2>5, Zenon
  <2>7. g => Entries[i].failures + 1 >= MaxAttempts
    <3>1. OldCount(i, envelope[w].attempts) /\ old.failures \in Nat
      BY <1>1, <1>3, OldCounts DEF QueueInv, Entry
    <3>2. GivesUp(w) => old.failures + 1 >= MaxAttempts
      BY <1>5, <3>1, ReleasingFinite, RedisQueueAssumption DEF OldCount, Earned, GivesUp
    <3> QED
      BY <1>4, <1>5, <2>2, <3>2, EntryOf
  <2>8. Promised!RunFails(i, FALSE, g)
    BY <1>6, <2>6, <2>7, Zenon DEF Promised!RunFails
  <2>9. Promised!QueueNext
    <3>1. i \in DOMAIN Entries
      BY <1>4, EntryOf
    <3> QED
      BY <2>8, <3>1, Zenon DEF Promised!QueueNext
  <2> QED
    BY <1>6, <2>9
<1> QED
  BY <1>8, <1>9

LEMMA LossyRefined == QueueInv /\ TypeInv' /\ [Next]_vars => LossyStep
<1> SUFFICES ASSUME QueueInv, TypeInv', [Next]_vars PROVE LossyStep
  OBVIOUS
<1>a. TypeInv /\ TypeOK /\ Linked
  BY DEF QueueInv, TypeInv
<1>1. ASSUME UNCHANGED <<ledger, ready, delayed, element, dropped>>,
             \A i \in Pushed : i \in DOMAIN envelopes' <=> i \in DOMAIN envelopes
      PROVE  LossyStep
  BY <1>1, <1>a, NothingMoves, SameEntriesStay
<1>2. ASSUME NEW a \in Worker \cup {App}, NEW payload \in Payload, NEW later \in BOOLEAN,
             TakeId(a, payload, later), UNCHANGED <<store, element, dropped>>
      PROVE  LossyStep
  <2>1. PICK n : n = Len(ledger) + 1
    OBVIOUS
  <2>2. /\ DOMAIN ledger' = DOMAIN ledger \cup {n} /\ n \notin DOMAIN ledger
        /\ \A i \in DOMAIN ledger : ledger'[i] = ledger[i]
        /\ ledger'[n] = Fresh(payload)
    BY <1>2, <1>a, <2>1, TakenId
  <2>3. Pushed' = Pushed
    BY <2>2 DEF Pushed, Fresh
  <2>4. Entries' = Entries
    BY <2>2, <2>3 DEF Entries, Pushed
  <2> QED
    BY <1>2, <1>a, <2>3, <2>4, NothingMoves DEF store
<1>3. ASSUME NEW p \in Dispatches, NEW later \in BOOLEAN, Dispatch(p, later) PROVE LossyStep
  <2>1. p \in Payload
    BY RedisQueueAssumption
  <2> QED
    BY <1>2, <1>3, <2>1 DEF Dispatch, local
<1>4. ASSUME NEW w \in Worker, PushNext(w) PROVE LossyStep
  <2>1. Tail(envelope[w].payload) \in Payload
    BY <1>4, <1>a, RestOfChain DEF PushNext
  <2> QED
    BY <1>2, <1>4, <2>1 DEF PushNext, local
<1>5. CASE Dispatched
  <2>1. PICK i : i = pushing[App].id
    OBVIOUS
  <2>2. Promised!MayBePushed(ledger[i].payload)
    BY <1>5, <2>1 DEF Dispatched, QueueInv, EveryPushKept, PushKept, Promised!MayBePushed
  <2> QED
    BY <1>5, <2>1, <2>2, LinkRefines DEF Dispatched, local
<1>6. ASSUME NEW w \in Worker, PushedNext(w) PROVE LossyStep
  <2>1. PICK i : i = pushing[w].id
    OBVIOUS
  <2>2. PICK e : e = element[w]
    OBVIOUS
  <2>3. pushing[w].at = "link" /\ pc[w] = "chain" /\ WorkerLinked(w) /\ Noted(w)
    BY <1>6, <1>a DEF PushedNext, Step, Linked, QueueInv, EveryJobSafe
  <2>4. /\ e \in Pushed /\ envelope[w].payload = ledger[e].payload
        /\ Len(ledger[e].payload) > 1 /\ ledger[e].handled
        /\ ledger[i].payload = Tail(ledger[e].payload)
    BY <1>a, <2>1, <2>2, <2>3 DEF WorkerLinked, ChainLinked, Chained, Noted, Loaded, EmptyHanded,
       PcStates, TypeOK, Pushed
  <2>5. Promised!MayBePushed(ledger[i].payload)
    BY <2>4, EntryOf DEF Promised!MayBePushed
  <2> QED
    BY <1>6, <2>1, <2>3, <2>5, LinkRefines DEF PushedNext, local
<1>7. ASSUME NEW a \in Worker \cup {App}, SaveNew(a) PROVE LossyStep
  <2>1. pushing[a].id \notin Pushed
    BY <1>7, <1>a DEF SaveNew, Linked, PushLinked, Pushed
  <2> QED
    BY <1>1, <1>7, <2>1 DEF SaveNew, InsertRow, local
<1>8. CASE (\E i \in DOMAIN delayed : Elapse(i))
  <2>1. /\ DOMAIN delayed' = DOMAIN delayed
        /\ UNCHANGED <<envelopes, ready, ledger, element, dropped>>
    BY <1>8 DEF Elapse, local
  <2>2. Waiting' = Waiting
    BY <2>1, SameEntriesStay DEF Waiting, Queued, InHand
  <2> QED
    BY <2>1, <2>2, SameEntriesStay DEF Lost, LossyStep, Promised!lossyVars
<1>9. CASE DispatchFails \/ UNCHANGED vars
  BY <1>1, <1>9 DEF DispatchFails, vars, store, local
<1>10. ASSUME NEW w \in Worker,
              \/ Start(w) \/ Exit(w) \/ FindDue(w) \/ AllPromoted(w) \/ PopNothing(w)
              \/ Wake(w) \/ Load(w) \/ Index(w) \/ FindForDelete(w) \/ RecordFailed(w)
              \/ FindForRelease(w) \/ Signal(w)
       PROVE  LossyStep
  BY <1>1, <1>10 DEF Start, Exit, FindDue, AllPromoted, PopNothing, Wake, Load, Index,
     FindForDelete, RecordFailed, FindForRelease, Signal, store, local
<1>11. ASSUME NEW w \in Worker, WorkerStep(w) \/ Fault(w) PROVE OnlyActs(w)
  BY <1>11, <1>a, WorkersActAlone
<1>12. ASSUME NEW w \in Worker, OnlyActs(w),
              \/ Undelay(w) \/ Promote(w) \/ Pop(w) \/ ReleaseDelayed(w)
              \/ Reserve(w) \/ Rewrite(w)
              \/ LoadNothing(w) \/ FindNothing(w) \/ Delete(w) \/ Clear(w)
       PROVE  LossyStep
  BY <1>12, UndelayRefines, PromoteRefines, PopRefines, ReleaseRefines, WriteBackRefines,
     LetGoRefines
<1>13. ASSUME NEW w \in Worker, OnlyActs(w), CrashWorker(w) \/ PopFails(w) \/ CatchFails(w)
       PROVE  LossyStep
  BY <1>13, DropsRefine DEF CrashWorker, PopFails, CatchFails, Stop, LetGo
<1>14. ASSUME NEW w \in Worker, Succeed(w) \/ Fail(w) \/ FinishFails(w) PROVE LossyStep
  BY <1>14, RunRefines
<1> QED
  BY <1>3, <1>4, <1>5, <1>6, <1>7, <1>8, <1>9, <1>10, <1>11, <1>12, <1>13, <1>14
     DEF Next, Produce, WorkerStep, PopStep, JobStep, Fault

LEMMA QueueInvInit == Init => QueueInv
<1>1. Init => EveryJobSafe
  BY DEF Init, EveryJobSafe, Noted
<1>2. Init => AttemptsEarned
  BY DEF Init, AttemptsEarned, EmptyTable, Loaded, EmptyHanded, PcStates
<1>3. Init => EveryPushKept
  BY DEF Init, EveryPushKept, PushKept, NotPushing
<1> QED
  BY <1>1, <1>2, <1>3, TypeInvInit DEF QueueInv

LEMMA QueueInvStep == QueueInv /\ [Next]_vars => QueueInv' /\ TypeInv'
<1>1. TypeInv /\ [Next]_vars => TypeInv'
  BY TypesStep, LinkedStep DEF TypeInv
<1> QED
  BY <1>1, SafeStep, EarnedStep, KeptStep DEF QueueInv

LEMMA LossyStarts == Init => Promised!LossyInit
<1> SUFFICES ASSUME Init PROVE Promised!LossyInit
  OBVIOUS
<1>1. Pushed = {}
  BY DEF Init, Pushed
<1>2. Entries = Promised!EmptyTable
  BY <1>1 DEF Entries, Promised!EmptyTable
<1>3. Waiting = {} /\ Lost = {}
  BY <1>1 DEF Waiting, Lost
<1> QED
  BY <1>2, <1>3 DEF Init, Promised!LossyInit, Promised!QueueInit

\* What redis keeps is the queue of LossyQueue, whatever workers do at once and
\* whatever fails or dies: an entry leaves it finished, or with a process that
\* had it in hand; it comes back only if it was finished or lost, into a
\* worker's hands; and it is given up only by a run that used its last attempt.
THEOREM RedisIsALossyQueue == Spec => ImplementsLossyQueue
<1>1. QueueInv /\ [Next]_vars => [Promised!LossyNext]_(Promised!lossyVars)
  BY LossyRefined, QueueInvStep DEF LossyStep
<1> QED
  BY <1>1, QueueInvInit, QueueInvStep, LossyStarts, PTL
     DEF Spec, ImplementsLossyQueue, Promised!LossySpec
-----------------------------------------------------------------------------
(***************************************************************************)
(* Workers one at a time (part "alone" of MCRedis): what a worker has in   *)
(* hand is nowhere else, and it never runs what it ran.                    *)
(***************************************************************************)
\* A run of the id would not be one run too many.
Rerunnable(i) == ~ledger[i].handled \/ ledger[i].failures > 0

\* The list names an id once, and none that is delayed.
ReadyOnce ==
    /\ \A j, k \in DOMAIN ready : ready[j] = ready[k] => j = k
    /\ \A k \in DOMAIN ready : ready[k] \notin DOMAIN delayed

QueuedMayRun ==
    \A i \in DOMAIN ledger : /\ Queued(i) => Rerunnable(i)
                             /\ ledger[i].handled => ledger[i].pushed

\* Where a worker has in hand an id that it may run, or give back.
Requeueing == {"promoted", "load", "reserve", "index", "run", "release", "rewrite", "delay"}

\* The id in hand is nowhere else, and what was found due is delayed still.
HoldsId(w) ==
    /\ element[w] # 0 => ~Queued(element[w])
    /\ todo[w] \subseteq DOMAIN delayed
    /\ pc[w] \notin {"promote", "promoted"} => todo[w] = {}
    /\ pc[w] \in Requeueing => Rerunnable(element[w])

OneRuns == \A v, w \in Worker : v # w => pc[v] = "stopped" \/ pc[w] = "stopped"

AloneSafe == OneRuns /\ ReadyOnce /\ QueuedMayRun /\ \A w \in Worker : HoldsId(w)

\* The step is that of a worker while the others are stopped.
ActsAlone(w) == OnlyActs(w) /\ \A v \in Worker \ {w} : pc[v] = "stopped"

LEMMA AloneStarts == Init => AloneSafe
<1> SUFFICES ASSUME Init PROVE AloneSafe
  OBVIOUS
<1>1. DOMAIN ready = {} /\ DOMAIN ledger = {} /\ DOMAIN delayed = {}
  BY DEF Init, EmptyTable
<1> QED
  BY <1>1 DEF Init, AloneSafe, OneRuns, ReadyOnce, QueuedMayRun, HoldsId, Requeueing

LEMMA AloneFrame ==
    ASSUME TypeInv, AloneSafe, NEW w \in Worker, ActsAlone(w),
           ReadyOnce', QueuedMayRun', HoldsId(w)'
    PROVE  AloneSafe'
<1>1. ASSUME NEW v \in Worker \ {w} PROVE HoldsId(v)' /\ pc'[v] = "stopped"
  <2>1. pc'[v] = "stopped" /\ element'[v] = element[v] /\ todo'[v] = todo[v]
    BY DEF ActsAlone, OnlyActs
  <2>2. element[v] = 0 /\ todo[v] = {}
    BY DEF ActsAlone, TypeInv, Linked, WorkerLinked, EmptyHanded, AloneSafe, HoldsId
  <2> QED
    BY <2>1, <2>2 DEF HoldsId, Requeueing
<1>2. OneRuns'
  BY <1>1 DEF OneRuns
<1> QED
  BY <1>1, <1>2 DEF AloneSafe

\* Nothing becomes ready or delayed but what was pushed just now, nothing
\* delayed leaves, and nothing runs.
IdsKept ==
    /\ DOMAIN delayed \subseteq DOMAIN delayed'
    /\ \A i \in DOMAIN ledger : /\ ledger[i].pushed /\ ~Queued(i) => ~Queued(i)'
                                /\ Rerunnable(i) => Rerunnable(i)'

LEMMA SameIds ==
    ASSUME AloneSafe, UNCHANGED <<ready, ledger>>, DOMAIN delayed' = DOMAIN delayed
    PROVE  IdsKept /\ ReadyOnce' /\ QueuedMayRun'
BY DEF AloneSafe, IdsKept, ReadyOnce, QueuedMayRun, Queued, Rerunnable

LEMMA HoldsFrame ==
    ASSUME TypeInv, AloneSafe, NEW w \in Worker, IdsKept,
           element'[w] = element[w], todo'[w] = todo[w],
           pc'[w] \in Requeueing => pc[w] \in Requeueing,
           \/ pc'[w] \in {"promote", "promoted"}
           \/ pc[w] \notin {"promote", "promoted"} \/ todo[w] = {}
    PROVE  HoldsId(w)'
<1>1. HoldsId(w) /\ (element[w] # 0 => element[w] \in DOMAIN ledger /\ ledger[element[w]].pushed)
  BY DEF AloneSafe, TypeInv, TypeOK, Linked, WorkerLinked
<1>2. pc[w] \in Requeueing => element[w] # 0
  BY DEF TypeInv, Linked, WorkerLinked, Requeueing, EmptyHanded
<1>3. PICK i : i = element[w]
  OBVIOUS
<1>4. i # 0 => ~Queued(i)'
  BY <1>1, <1>3 DEF HoldsId, IdsKept
<1>5. pc[w] \in Requeueing => Rerunnable(i)'
  BY <1>1, <1>2, <1>3 DEF HoldsId, IdsKept
<1>6. element'[w] = i
  BY <1>3
<1>7. todo'[w] \subseteq DOMAIN delayed'
  BY <1>1 DEF HoldsId, IdsKept
<1>8. pc'[w] \notin {"promote", "promoted"} => todo'[w] = {}
  BY <1>1 DEF HoldsId
<1> QED
  BY <1>4, <1>5, <1>6, <1>7, <1>8 DEF HoldsId
-----------------------------------------------------------------------------
(***************************************************************************)
(* The steps of a worker that leave the lists and the ledger alone.        *)
(***************************************************************************)
LEMMA StayStepAlone ==
    ASSUME TypeInv, AloneSafe, NEW w \in Worker, ActsAlone(w),
           \/ Start(w) \/ Exit(w) \/ AllPromoted(w) \/ PopNothing(w) \/ Load(w) \/ Reserve(w)
           \/ Index(w) \/ Wake(w) \/ SaveNew(w) \/ FindForDelete(w) \/ Delete(w)
           \/ RecordFailed(w) \/ FindForRelease(w) \/ Rewrite(w) \/ Signal(w)
    PROVE  AloneSafe'
<1>1. UNCHANGED <<ready, delayed, ledger, element, todo>>
  BY DEF Start, Exit, AllPromoted, PopNothing, Load, Reserve, Index, Wake, SaveNew,
     FindForDelete, Delete, RecordFailed, FindForRelease, Rewrite, Signal, store, local
<1>2. IdsKept /\ ReadyOnce' /\ QueuedMayRun'
  BY <1>1, SameIds
<1>3. /\ pc'[w] \in Requeueing => pc[w] \in Requeueing
      /\ \/ pc'[w] \in {"promote", "promoted"}
         \/ pc[w] \notin {"promote", "promoted"} \/ todo[w] = {}
  BY DEF Start, Exit, AllPromoted, PopNothing, Load, Reserve, Index, Wake, SaveNew,
     FindForDelete, Delete, RecordFailed, FindForRelease, Rewrite, Signal, Step, TypeInv,
     TypeOK, Requeueing
<1>4. HoldsId(w)'
  BY <1>1, <1>2, <1>3, HoldsFrame
<1> QED
  BY <1>2, <1>4, AloneFrame

LEMMA LetGoStepAlone ==
    ASSUME TypeInv, AloneSafe, NEW w \in Worker, ActsAlone(w),
           \/ LoadNothing(w) \/ FindNothing(w) \/ PopFails(w) \/ CrashWorker(w)
           \/ CatchFails(w) \/ FindDue(w)
    PROVE  AloneSafe'
<1>1. UNCHANGED <<ready, delayed, ledger>>
  BY DEF LoadNothing, FindNothing, PopFails, CrashWorker, CatchFails, Stop, FindDue, store
<1>2. ReadyOnce' /\ QueuedMayRun'
  BY <1>1, SameIds
<1>3. HoldsId(w)'
  <2>1. CASE FindDue(w)
    <3>1. pc[w] = "loop" /\ pc'[w] = "promote" /\ todo'[w] = Due /\ element' = element
      BY <2>1 DEF FindDue, Step, TypeInv, TypeOK
    <3>2. element[w] = 0
      BY <3>1 DEF TypeInv, Linked, WorkerLinked, EmptyHanded
    <3> QED
      BY <1>1, <3>1, <3>2 DEF HoldsId, Due, Requeueing
  <2>2. CASE ~FindDue(w)
    <3>1. element'[w] = 0 /\ todo'[w] = {} /\ pc'[w] \in {"loop", "asleep", "stopped"}
      BY <2>2 DEF LoadNothing, FindNothing, PopFails, CrashWorker, CatchFails, Stop, LetGo, Step,
         TypeInv, TypeOK
    <3> QED
      BY <3>1 DEF HoldsId, Requeueing
  <2> QED
    BY <2>1, <2>2
<1> QED
  BY <1>2, <1>3, AloneFrame
-----------------------------------------------------------------------------
(***************************************************************************)
(* An id moves between the list, the delayed ones and the worker's hands.  *)
(***************************************************************************)
\* What has the same entry may run as before.
LEMMA SameEntries ==
    ASSUME AloneSafe, UNCHANGED ledger,
           \A i \in DOMAIN ledger : Queued(i)' => Queued(i) \/ Rerunnable(i)
    PROVE  QueuedMayRun'
BY DEF AloneSafe, QueuedMayRun, Rerunnable

LEMMA UndelayAlone ==
    ASSUME TypeInv, AloneSafe, NEW w \in Worker, ActsAlone(w), Undelay(w)
    PROVE  AloneSafe'
<1>a. /\ ReadyOnce /\ QueuedMayRun /\ HoldsId(w) /\ TypeOK
  BY DEF AloneSafe, TypeInv
<1>1. PICK i \in todo[w] : /\ element' = [element EXCEPT ![w] = i]
                           /\ todo' = [todo EXCEPT ![w] = @ \ {i}]
                           /\ delayed' = DeleteRow(delayed, i)
  BY DEF Undelay
<1>2. /\ element'[w] = i /\ todo'[w] = todo[w] \ {i} /\ pc'[w] = "promoted"
      /\ DOMAIN delayed' = DOMAIN delayed \ {i} /\ UNCHANGED <<ready, ledger>>
  BY <1>a, <1>1 DEF Undelay, Step, TypeOK, DeleteRow
<1>3. i \in DOMAIN delayed /\ i \in DOMAIN ledger /\ todo[w] \subseteq DOMAIN delayed
  BY <1>a DEF HoldsId, TypeOK
<1>4. ReadyOnce' /\ ~Queued(i)'
  BY <1>a, <1>2, <1>3 DEF ReadyOnce, Queued
<1>5. \A j \in DOMAIN ledger : Queued(j)' => Queued(j)
  BY <1>2 DEF Queued
<1>6. QueuedMayRun'
  BY <1>2, <1>5, SameEntries
<1>7. Rerunnable(i)'
  BY <1>a, <1>2, <1>3 DEF QueuedMayRun, Queued, Rerunnable
<1>8. HoldsId(w)'
  BY <1>2, <1>3, <1>4, <1>7 DEF HoldsId
<1> QED
  BY <1>4, <1>6, <1>8, AloneFrame

LEMMA PromoteAlone ==
    ASSUME TypeInv, AloneSafe, NEW w \in Worker, ActsAlone(w), Promote(w)
    PROVE  AloneSafe'
<1>a. /\ ReadyOnce /\ QueuedMayRun /\ HoldsId(w) /\ TypeOK
  BY DEF AloneSafe, TypeInv
<1>1. PICK i \in DOMAIN ledger : i = element[w]
  BY DEF Promote, Step, TypeInv, TypeOK, Linked, WorkerLinked, EmptyHanded
<1>2. /\ element'[w] = 0 /\ pc'[w] = "promote" /\ UNCHANGED <<delayed, ledger, todo>>
      /\ pc[w] = "promoted" /\ i # 0
  BY <1>a, <1>1, LedgerDomain DEF Promote, Step, TypeOK
<1>3. Rerunnable(i) /\ ~Queued(i)
  BY <1>a, <1>1, <1>2 DEF HoldsId, Requeueing
<1>4. /\ DOMAIN ready' = DOMAIN ready \cup {Len(ready) + 1}
      /\ \A k \in DOMAIN ready : ready'[k] = ready[k]
      /\ ready'[Len(ready) + 1] = i
  <2>1. ready \in Seq(DOMAIN ledger) /\ PushReady(i)
    BY <1>a, <1>1 DEF TypeOK, Promote
  <2> QED
    BY <2>1, PushReadyTypes
<1>5. ReadyOnce'
  BY <1>a, <1>2, <1>3, <1>4 DEF ReadyOnce, Queued
<1>6. \A j \in DOMAIN ledger : Queued(j)' => Queued(j) \/ Rerunnable(j)
  BY <1>2, <1>3, <1>4 DEF Queued
<1>7. QueuedMayRun'
  BY <1>2, <1>6, SameEntries
<1>8. HoldsId(w)'
  BY <1>a, <1>2 DEF HoldsId, Requeueing
<1> QED
  BY <1>5, <1>7, <1>8, AloneFrame

LEMMA PopAlone ==
    ASSUME TypeInv, AloneSafe, NEW w \in Worker, ActsAlone(w), Pop(w)
    PROVE  AloneSafe'
<1>a. /\ ReadyOnce /\ QueuedMayRun /\ HoldsId(w) /\ TypeOK
  BY DEF AloneSafe, TypeInv
<1>1. /\ pc[w] = "pop" /\ pc'[w] = "load" /\ element'[w] = Head(ready)
      /\ UNCHANGED <<delayed, ledger, todo>>
  BY <1>a DEF Pop, Step, TypeOK
<1>2. /\ Head(ready) = ready[1] /\ 1 \in DOMAIN ready /\ ready[1] \in DOMAIN ledger
      /\ \A k \in DOMAIN ready' : k + 1 \in DOMAIN ready /\ ready'[k] = ready[k + 1]
  <2>1. ready \in Seq(DOMAIN ledger) /\ ready # <<>> /\ ready' = Tail(ready)
    BY <1>a DEF TypeOK, Pop
  <2> QED
    BY <2>1, PopReadyTypes
<1>3. DOMAIN ready' \subseteq Nat \ {0}
  <2>1. ready' \in Seq(DOMAIN ledger)
    BY <1>a, PopReadyTypes DEF TypeOK, Pop
  <2> QED
    BY <2>1, LenProperties
<1>4. PICK i : i = ready[1]
  OBVIOUS
<1>5. ReadyOnce' /\ ~Queued(i)'
  BY <1>a, <1>1, <1>2, <1>3, <1>4 DEF ReadyOnce, Queued
<1>6. \A j \in DOMAIN ledger : Queued(j)' => Queued(j)
  BY <1>1, <1>2 DEF Queued
<1>7. QueuedMayRun'
  BY <1>1, <1>6, SameEntries
<1>8. Rerunnable(i)'
  BY <1>a, <1>1, <1>2, <1>4 DEF QueuedMayRun, Queued, Rerunnable
<1>9. HoldsId(w)'
  BY <1>a, <1>1, <1>2, <1>4, <1>5, <1>8 DEF HoldsId, Requeueing
<1> QED
  BY <1>5, <1>7, <1>9, AloneFrame

LEMMA ClearAlone ==
    ASSUME TypeInv, AloneSafe, NEW w \in Worker, ActsAlone(w), Clear(w) \/ ReleaseDelayed(w)
    PROVE  AloneSafe'
<1>a. /\ ReadyOnce /\ QueuedMayRun /\ HoldsId(w) /\ TypeOK
  BY DEF AloneSafe, TypeInv
<1>1. PICK i \in DOMAIN ledger : i = element[w]
  BY DEF Clear, ReleaseDelayed, Step, TypeInv, TypeOK, Linked, WorkerLinked, EmptyHanded
<1>2. /\ element'[w] = 0 /\ todo'[w] = {} /\ pc'[w] = "loop" /\ UNCHANGED <<ready, ledger>>
  BY <1>a DEF Clear, ReleaseDelayed, Step, LetGo, TypeOK
<1>3. /\ ~Queued(i)
      /\ ReleaseDelayed(w) => Rerunnable(i)
  BY <1>a, <1>1, LedgerDomain DEF HoldsId, Requeueing, ReleaseDelayed, Step
<1>4. \/ DOMAIN delayed' = DOMAIN delayed \ {i}
      \/ DOMAIN delayed' = DOMAIN delayed \cup {i} /\ Rerunnable(i)
  BY <1>1, <1>3 DEF Clear, ReleaseDelayed, Delay, DeleteRow, InsertRow
<1>5. ReadyOnce'
  BY <1>a, <1>2, <1>3, <1>4 DEF ReadyOnce, Queued
<1>6. \A j \in DOMAIN ledger : Queued(j)' => Queued(j) \/ Rerunnable(j)
  BY <1>2, <1>4 DEF Queued
<1>7. QueuedMayRun'
  BY <1>2, <1>6, SameEntries
<1>8. HoldsId(w)'
  BY <1>2 DEF HoldsId, Requeueing
<1> QED
  BY <1>5, <1>7, <1>8, AloneFrame
-----------------------------------------------------------------------------
(***************************************************************************)
(* A run ends.                                                             *)
(***************************************************************************)
LEMMA RunStepAlone ==
    ASSUME TypeInv, AloneSafe, NEW w \in Worker, ActsAlone(w),
           Succeed(w) \/ Fail(w) \/ FinishFails(w)
    PROVE  AloneSafe'
<1>a. /\ ReadyOnce /\ QueuedMayRun /\ HoldsId(w) /\ TypeOK
  BY DEF AloneSafe, TypeInv
<1>1. PICK i : i = element[w]
  OBVIOUS
<1>2. /\ KeepsEntries
      /\ i \in DOMAIN ledger /\ DOMAIN ledger' = DOMAIN ledger
      /\ \A j \in DOMAIN ledger : j # i => ledger'[j] = ledger[j]
      /\ ~Succeed(w) => ledger'[i].failures = ledger[i].failures + 1
  BY <1>1, RunMarks
<1>3. /\ UNCHANGED <<ready, delayed, element, todo>>
      /\ pc[w] \in {"run", "chain", "find", "del", "clear"}
      /\ IF Succeed(w) THEN pc'[w] \in {"chain", "find"} ELSE pc'[w] \in {"record", "release"}
  BY <1>a DEF Succeed, Fail, FinishFails, Finishing, Caught, Step, store, local, TypeOK
<1>4. i # 0 /\ ledger[i] \in Entry /\ ledger[i].pushed /\ ~Queued(i)
  BY <1>a, <1>1, <1>2, LedgerDomain DEF HoldsId, TypeInv, Linked, WorkerLinked
<1>5. ReadyOnce' /\ \A j \in DOMAIN ledger : Queued(j)' <=> Queued(j)
  BY <1>a, <1>3 DEF ReadyOnce, Queued
<1>6. QueuedMayRun'
  BY <1>a, <1>2, <1>4, <1>5 DEF QueuedMayRun, Rerunnable, KeepsEntries
<1>7. ~Succeed(w) => Rerunnable(i)'
  BY <1>2, <1>4 DEF Rerunnable, Entry
<1>8. HoldsId(w)'
  BY <1>a, <1>1, <1>3, <1>4, <1>5, <1>2, <1>7 DEF HoldsId, Requeueing
<1> QED
  BY <1>5, <1>6, <1>8, AloneFrame
-----------------------------------------------------------------------------
(***************************************************************************)
(* The pushes, of the application and of a worker for its chain.           *)
(***************************************************************************)
\* An id was given out, and nothing names it yet.
LEMMA TakeAlone ==
    ASSUME TypeInv, AloneSafe, NEW p \in Worker \cup {App}, NEW payload \in Payload,
           NEW later \in BOOLEAN, TakeId(p, payload, later), UNCHANGED <<ready, delayed>>
    PROVE  IdsKept /\ ReadyOnce' /\ QueuedMayRun'
<1>a. /\ ReadyOnce /\ QueuedMayRun /\ TypeOK
  BY DEF AloneSafe, TypeInv
<1>1. PICK n : n = Len(ledger) + 1
  OBVIOUS
<1>2. /\ DOMAIN ledger' = DOMAIN ledger \cup {n} /\ n \notin DOMAIN ledger
      /\ \A i \in DOMAIN ledger : ledger'[i] = ledger[i]
      /\ ledger'[n] = Fresh(payload)
  BY <1>a, <1>1, TakenId
<1>3. ~Queued(n)
  <2>1. \A k \in DOMAIN ready : ready[k] \in DOMAIN ledger
    BY <1>a, ElementOfSeq, LenProperties DEF TypeOK
  <2> QED
    BY <1>a, <1>2, <2>1 DEF Queued, TypeOK
<1>4. \A i : Queued(i)' <=> Queued(i)
  BY DEF Queued
<1>5. ~ledger'[n].handled
  BY <1>2 DEF Fresh
<1>6. IdsKept
  BY <1>2, <1>4 DEF IdsKept, Rerunnable
<1>7. ReadyOnce'
  BY <1>a DEF ReadyOnce
<1>8. QueuedMayRun'
  BY <1>a, <1>2, <1>3, <1>4, <1>5 DEF QueuedMayRun, Rerunnable
<1> QED
  BY <1>6, <1>7, <1>8

\* An id becomes ready or delayed that nothing named until now.
LEMMA LinkAlone ==
    ASSUME TypeInv, AloneSafe, NEW p \in Worker \cup {App}, pushing[p].at = "link", Link(p)
    PROVE  IdsKept /\ ReadyOnce' /\ QueuedMayRun'
<1>a. /\ ReadyOnce /\ QueuedMayRun /\ TypeOK /\ Linked
  BY DEF AloneSafe, TypeInv
<1>1. PICK n : n = pushing[p].id
  OBVIOUS
<1>2. /\ n \in DOMAIN ledger /\ ~ledger[n].pushed
      /\ DOMAIN ledger' = DOMAIN ledger
      /\ \A j \in DOMAIN ledger : j # n => ledger'[j] = ledger[j]
      /\ ledger'[n].pushed /\ ledger'[n].handled = ledger[n].handled
      /\ ledger'[n].failures = ledger[n].failures
  BY <1>1, PushMarks
<1>3. ~Queued(n) /\ ~ledger[n].handled
  BY <1>a, <1>2 DEF Queued, Linked, QueuedMayRun
<1>4. /\ \/ /\ DOMAIN ready' = DOMAIN ready \cup {Len(ready) + 1}
            /\ \A k \in DOMAIN ready : ready'[k] = ready[k]
            /\ ready'[Len(ready) + 1] = n
            /\ delayed' = delayed
         \/ ready' = ready /\ DOMAIN delayed' = DOMAIN delayed \cup {n}
  <2>1. ready \in Seq(DOMAIN ledger)
    BY <1>a DEF TypeOK
  <2>2. \/ PushReady(n) /\ delayed' = delayed
        \/ ready' = ready /\ DOMAIN delayed' = DOMAIN delayed \cup {n}
    BY <1>1 DEF Link, Delay, InsertRow
  <2> QED
    BY <1>2, <2>1, <2>2, PushReadyTypes
<1>5. ReadyOnce'
  BY <1>a, <1>3, <1>4 DEF ReadyOnce, Queued
<1>6. \A i : Queued(i)' => Queued(i) \/ i = n
  BY <1>4 DEF Queued
<1>7. \A i \in DOMAIN ledger : Rerunnable(i)' <=> Rerunnable(i)
  BY <1>2 DEF Rerunnable
<1>8. Rerunnable(n)
  BY <1>3 DEF Rerunnable
<1>9. QueuedMayRun'
  BY <1>a, <1>2, <1>6, <1>7, <1>8 DEF QueuedMayRun
<1>10. DOMAIN delayed \subseteq DOMAIN delayed'
  BY <1>4
<1>11. IdsKept
  BY <1>2, <1>6, <1>7, <1>10 DEF IdsKept
<1> QED
  BY <1>5, <1>9, <1>11

LEMMA PushNextAlone ==
    ASSUME TypeInv, AloneSafe, NEW w \in Worker, ActsAlone(w), PushNext(w) \/ PushedNext(w)
    PROVE  AloneSafe'
<1>1. IdsKept /\ ReadyOnce' /\ QueuedMayRun'
  <2>1. CASE PushNext(w)
    <3>1. Tail(envelope[w].payload) \in Payload
      BY <2>1, RestOfChain DEF PushNext
    <3> QED
      BY <2>1, <3>1, TakeAlone DEF PushNext, store
  <2>2. CASE PushedNext(w)
    BY <2>2, LinkAlone DEF PushedNext
  <2> QED
    BY <2>1, <2>2
<1>2. /\ element' = element /\ todo' = todo
      /\ pc[w] = "chain" /\ pc'[w] \in {"chain", "find"}
  BY DEF PushNext, PushedNext, Step, local, TypeInv, TypeOK
<1>3. HoldsId(w)'
  BY <1>1, <1>2, HoldsFrame DEF Requeueing
<1> QED
  BY <1>1, <1>3, AloneFrame

LEMMA PushesAlone ==
    ASSUME TypeInv, AloneSafe, Pushes(2)
    PROVE  AloneSafe'
<1>1. IdsKept /\ ReadyOnce' /\ QueuedMayRun'
  <2>1. ASSUME NEW p \in Dispatches, NEW later \in BOOLEAN, Dispatch(p, later)
        PROVE  IdsKept /\ ReadyOnce' /\ QueuedMayRun'
    <3>1. p \in Payload
      BY RedisQueueAssumption
    <3> QED
      BY <2>1, <3>1, TakeAlone DEF Dispatch, store
  <2>2. CASE Dispatched
    BY <2>2, LinkAlone DEF Dispatched
  <2>3. CASE SaveNew(App) \/ DispatchFails
    BY <2>3, SameIds DEF SaveNew, DispatchFails, store
  <2>4. ASSUME NEW i \in DOMAIN delayed, Elapse(i)
        PROVE  IdsKept /\ ReadyOnce' /\ QueuedMayRun'
    BY <2>4, SameIds DEF Elapse, TypeInv, TypeOK
  <2> QED
    BY <2>1, <2>2, <2>3, <2>4 DEF Pushes
<1>2. UNCHANGED <<pc, element, todo>>
  BY DEF Pushes, Dispatch, SaveNew, Dispatched, DispatchFails, Elapse, local
<1>3. \A w \in Worker : HoldsId(w)'
  BY <1>1, <1>2, HoldsFrame
<1> QED
  BY <1>1, <1>2, <1>3 DEF AloneSafe, OneRuns
-----------------------------------------------------------------------------
(***************************************************************************)
(* Every step, and what follows.                                           *)
(***************************************************************************)
LEMMA AloneStep == TypeInv /\ AloneSafe /\ (Alone \/ UNCHANGED vars) => AloneSafe'
<1> SUFFICES ASSUME TypeInv, AloneSafe, Alone \/ UNCHANGED vars PROVE AloneSafe'
  OBVIOUS
<1>1. ASSUME NEW w \in Worker, \A v \in Worker \ {w} : pc[v] = "stopped",
             WorkerStep(w) \/ Fault(w)
      PROVE  AloneSafe'
  <2>1. ActsAlone(w)
    BY <1>1, WorkersActAlone DEF ActsAlone, TypeInv
  <2> QED
    BY <1>1, <2>1, StayStepAlone, LetGoStepAlone, UndelayAlone, PromoteAlone, PopAlone,
       ClearAlone, RunStepAlone, PushNextAlone DEF WorkerStep, PopStep, JobStep, Fault
<1>2. CASE UNCHANGED vars
  BY <1>2 DEF vars, local, AloneSafe, OneRuns, ReadyOnce, QueuedMayRun, HoldsId, Queued,
     Rerunnable
<1> QED
  BY <1>1, <1>2, PushesAlone DEF Alone

\* The steps of MCRedis that concern the queue are RedisQueue's.
LEMMA QueueSteps ==
    ASSUME [KeptNext]_keptVars
    PROVE  /\ part' = part /\ [Next]_vars
           /\ part = "alone" => Alone \/ UNCHANGED vars
<1>1. CASE KeptNext
  <2>1. part' = part /\ (Crowd \/ Alone \/ UNCHANGED vars)
        /\ (part = "alone" => Alone \/ UNCHANGED vars)
    BY <1>1 DEF KeptNext
  <2>2. Crowd => Next
    BY DEF Crowd, Pushes, Next, Produce, Fault
  <2>3. Alone => Next
    BY DEF Alone, Pushes, Next, Produce
  <2> QED
    BY <2>1, <2>2, <2>3
<1>2. CASE UNCHANGED keptVars
  BY <1>2 DEF keptVars
<1> QED
  BY <1>1, <1>2

QueueSafe == TypeInv /\ (part = "alone" => AloneSafe)

LEMMA QueueStaysSafe == KeptSpec => []QueueSafe
<1>1. KeptSpec => KeptInit /\ [][KeptNext]_keptVars
  BY PTL DEF KeptSpec
<1>2. KeptInit => QueueSafe
  BY TypeInvInit, AloneStarts DEF KeptInit, QueueSafe
<1>3. QueueSafe /\ [KeptNext]_keptVars => QueueSafe'
  <2> SUFFICES ASSUME QueueSafe, [KeptNext]_keptVars PROVE QueueSafe'
    OBVIOUS
  <2>1. TypeInv'
    BY QueueSteps, TypesStep, LinkedStep DEF TypeInv, QueueSafe
  <2>2. ASSUME part = "alone" PROVE AloneSafe'
    BY <2>2, QueueSteps, AloneStep DEF QueueSafe
  <2> QED
    BY <2>1, <2>2, QueueSteps DEF QueueSafe
<1> QED
  BY <1>1, <1>2, <1>3, PTL

LEMMA AtMostOne ==
    ASSUME NEW S, \A x, y \in S : x = y
    PROVE  /\ Cardinality(S) \in {0, 1}
           /\ S = {} => Cardinality(S) = 0
<1>1. CASE S = {}
  BY <1>1, FS_EmptySet
<1>2. CASE S # {}
  <2>1. PICK x \in S : S = {x}
    BY <1>2
  <2>2. Cardinality({x}) = 1
    BY FS_Singleton
  <2> QED
    BY <1>2, <2>1, <2>2
<1> QED
  BY <1>1, <1>2

LEMMA OnePlaceEach == TypeInv /\ AloneSafe => InOnePlace
<1> SUFFICES ASSUME TypeInv, AloneSafe, NEW i \in DOMAIN ledger
             PROVE  Cardinality({k \in DOMAIN ready : ready[k] = i})
                      + Cardinality({i} \cap DOMAIN delayed)
                      + Cardinality(InHand(i)) <= 1
  BY DEF InOnePlace
<1>1. PICK R : R = {k \in DOMAIN ready : ready[k] = i}
  OBVIOUS
<1>2. PICK D : D = {i} \cap DOMAIN delayed
  OBVIOUS
<1>3. PICK H : H = InHand(i)
  OBVIOUS
<1>4. i # 0
  BY LedgerDomain DEF TypeInv
<1>5. \A x, y \in R : x = y
  BY <1>1 DEF AloneSafe, ReadyOnce
<1>6. \A x, y \in D : x = y
  BY <1>2
<1>7. \A x, y \in H : x = y
  <2>1. \A w \in Worker : pc[w] = "stopped" => element[w] = 0
    BY DEF TypeInv, Linked, WorkerLinked, EmptyHanded
  <2> QED
    BY <1>3, <1>4, <2>1 DEF InHand, AloneSafe, OneRuns
<1>8. /\ R = {} \/ D = {}
      /\ H # {} => R = {} /\ D = {}
  BY <1>1, <1>2, <1>3, <1>4 DEF AloneSafe, ReadyOnce, HoldsId, Queued, InHand
<1>9. /\ Cardinality(R) \in {0, 1} /\ Cardinality(D) \in {0, 1} /\ Cardinality(H) \in {0, 1}
      /\ R = {} => Cardinality(R) = 0
      /\ D = {} => Cardinality(D) = 0
      /\ H = {} => Cardinality(H) = 0
  BY <1>5, <1>6, <1>7, AtMostOne
<1>10. Cardinality(R) + Cardinality(D) + Cardinality(H) <= 1
  BY <1>8, <1>9
<1> QED
  BY <1>1, <1>2, <1>3, <1>10

\* While one worker runs at a time, an id is in one place at a time: ready,
\* delayed or in the worker's hands; with any number of them the values keep
\* their types.
THEOREM IdsAreInOnePlace == KeptSpec => []PlacesInv
<1>1. QueueSafe => PlacesInv
  BY OnePlaceEach DEF QueueSafe, PlacesInv, TypeInv
<1> QED
  BY <1>1, QueueStaysSafe, PTL

\* While one worker runs at a time, a job that ran successfully is not run
\* again, unless a command failed after its run.
THEOREM OneWorkerRunsOnceInRedis == KeptSpec => HandledJobsDoNotRunAgain
<1>1. KeptSpec => KeptInit /\ [][KeptNext]_keptVars
  BY PTL DEF KeptSpec
<1>2. QueueSafe => (part = "alone" => RerunsOnlyAfterFailures)
  BY DEF QueueSafe, AloneSafe, HoldsId, Requeueing, Rerunnable, RerunsOnlyAfterFailures
<1> QED
  BY <1>1, <1>2, QueueStaysSafe, PTL DEF HandledJobsDoNotRunAgain
=============================================================================
