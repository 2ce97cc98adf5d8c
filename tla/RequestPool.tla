---------------------------- MODULE RequestPool ----------------------------
(***************************************************************************)
(* Router.dispatchRoute and PondoknusaRequestPool (packages/http): request *)
(* objects go back to a pool when their dispatch ends.  A handler that     *)
(* goes on after its response, such as a stream, keeps the object it has.  *)
(***************************************************************************)
EXTENDS SequencesExt

CONSTANTS
    Run,            \* dispatches, each made once
    Object,         \* request objects
    maxSize,        \* of the pool
    NoRun

ASSUME PoolAssumption == maxSize \in Nat \ {0} /\ NoRun \notin Run

VARIABLES
    pool,           \* the objects to be used again
    object,         \* the object each dispatch has
    progress,       \* new, running, lingering (behind its response) or over
    raw,            \* the dispatch whose request an object wraps
    user,           \* the dispatch that set its user, session and the rest
    wroteLate       \* history: dispatches that did so behind their response

poolVars == <<pool, object, progress, raw, user, wroteLate>>

PoolTypeOK ==
    /\ pool \in Seq(Object) /\ Len(pool) <= maxSize
    /\ object \in [Run -> Object \cup {NoRun}]
    /\ progress \in [Run -> {"new", "running", "lingering", "over"}]
    /\ raw \in [Object -> Run \cup {NoRun}] /\ user \in [Object -> Run \cup {NoRun}]
    /\ wroteLate \subseteq Run

PoolInit ==
    /\ pool = <<>>
    /\ object = [d \in Run |-> NoRun]
    /\ progress = [d \in Run |-> "new"]
    /\ raw = [o \in Object |-> NoRun] /\ user = [o \in Object |-> NoRun]
    /\ wroteLate = {}
-----------------------------------------------------------------------------
\* Mutant: an object keeps what was set on it.
ResetNothing(o) == user[o]

\* resetMutableState(): what the user of an object becomes.
ResetMutableState(o) == NoRun

\* The pool's last object, or a new one.
Acquire(d) ==
    /\ progress[d] = "new"
    /\ \E o \in Object :
          /\ IF pool # <<>>
             THEN o = Last(pool) /\ pool' = Front(pool)
             ELSE raw[o] = NoRun /\ UNCHANGED pool
          /\ user' = [user EXCEPT ![o] = ResetMutableState(o)]
          /\ raw' = [raw EXCEPT ![o] = d]
          /\ object' = [object EXCEPT ![d] = o]
    /\ progress' = [progress EXCEPT ![d] = "running"]
    /\ UNCHANGED wroteLate

\* Middleware or handler set the session or the user.
SetUser(d) ==
    /\ progress[d] \in {"running", "lingering"}
    /\ user' = [user EXCEPT ![object[d]] = d]
    /\ wroteLate' = IF progress[d] = "lingering" THEN wroteLate \cup {d} ELSE wroteLate
    /\ UNCHANGED <<pool, object, progress, raw>>

\* The finally of the dispatch; an object the pool has no room for is left
\* to whoever still has it.
Release(d) ==
    /\ progress[d] = "running"
    /\ user' = [user EXCEPT ![object[d]] = ResetMutableState(object[d])]
    /\ pool' = IF Len(pool) < maxSize THEN Append(pool, object[d]) ELSE pool
    /\ \E rest \in {"lingering", "over"} : progress' = [progress EXCEPT ![d] = rest]
    /\ UNCHANGED <<object, raw, wroteLate>>

EndOfStream(d) ==
    /\ progress[d] = "lingering"
    /\ progress' = [progress EXCEPT ![d] = "over"]
    /\ UNCHANGED <<pool, object, raw, user, wroteLate>>

PoolNext == \E d \in Run : Acquire(d) \/ SetUser(d) \/ Release(d) \/ EndOfStream(d)

PoolSpec == PoolInit /\ [][PoolNext]_poolVars
-----------------------------------------------------------------------------
\* A dispatch sees its own request and nothing another one set on it, unless
\* that other one had the same object before and did so after its response.
RequestsAreTheirOwn ==
    \A d \in Run : progress[d] = "running" =>
        /\ raw[object[d]] = d
        /\ ~Contains(pool, object[d])
        /\ user[object[d]] \in {d, NoRun} \cup {e \in wroteLate : object[e] = object[d]}

\* What a dispatch finds on the object it was given.
PoolInv == PoolTypeOK /\ RequestsAreTheirOwn
=============================================================================
