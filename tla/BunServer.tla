----------------------------- MODULE BunServer -----------------------------
(***************************************************************************)
(* serve() on Bun (packages/core/src/server.ts): requests in flight,       *)
(* calls of close(), which wait for them for five seconds, and the signal  *)
(* handler.  Bun's server.stop() takes no further connections and lets     *)
(* requests under way finish.                                              *)
(***************************************************************************)
EXTENDS Naturals, FiniteSets

CONSTANTS
    Visit,          \* requests, each made once
    Closer,         \* calls of close()
    NoCloser

ASSUME BunAssumption == NoCloser \notin Closer

VARIABLES
    visit,          \* new, handling, served or cut
    inflight,
    closer,         \* where each close() is: new, waiting or returned
    drainResolve,   \* the close() the last request in flight would wake
    listening,      \* the signal handler is installed
    bun,            \* serving, stopped or exited
    overlapped      \* history: the calls of close() another one overlapped

bunVars == <<visit, inflight, closer, drainResolve, listening, bun, overlapped>>

BunTypeOK ==
    /\ visit \in [Visit -> {"new", "handling", "served", "cut"}]
    /\ inflight = Cardinality({v \in Visit : visit[v] = "handling"})
    /\ closer \in [Closer -> {"new", "waiting", "returned"}]
    /\ drainResolve \in Closer \cup {NoCloser}
    /\ listening \in BOOLEAN
    /\ bun \in {"serving", "stopped", "exited"}
    /\ overlapped \subseteq Closer

BunInit ==
    /\ visit = [v \in Visit |-> "new"]
    /\ inflight = 0
    /\ closer = [c \in Closer |-> "new"]
    /\ drainResolve = NoCloser
    /\ listening = TRUE
    /\ bun = "serving"
    /\ overlapped = {}

WaitingClosers == {c \in Closer : closer[c] = "waiting"}
-----------------------------------------------------------------------------
Fetch(v) ==
    /\ bun = "serving" /\ visit[v] = "new"
    /\ visit' = [visit EXCEPT ![v] = "handling"]
    /\ inflight' = inflight + 1
    /\ UNCHANGED <<closer, drainResolve, listening, bun, overlapped>>

\* A close() that awaited the drain, or its timer, goes on.
Resume(c) ==
    /\ closer' = [closer EXCEPT ![c] = "returned"]
    /\ drainResolve' = NoCloser
    /\ bun' = "stopped"

\* Mutant: the drain is looked for before the request is counted out.
SettleLate(v) ==
    /\ bun # "exited" /\ visit[v] = "handling"
    /\ visit' = [visit EXCEPT ![v] = "served"]
    /\ inflight' = inflight - 1
    /\ IF inflight = 0 /\ drainResolve # NoCloser
       THEN Resume(drainResolve) ELSE UNCHANGED <<closer, drainResolve, bun>>
    /\ UNCHANGED <<listening, overlapped>>

\* The finally of a request, and with the last one the close() that waits.
RequestSettled(v) ==
    /\ bun # "exited" /\ visit[v] = "handling"
    /\ visit' = [visit EXCEPT ![v] = "served"]
    /\ inflight' = inflight - 1
    /\ IF inflight = 1 /\ drainResolve # NoCloser
       THEN Resume(drainResolve) ELSE UNCHANGED <<closer, drainResolve, bun>>
    /\ UNCHANGED <<listening, overlapped>>

\* close(): the signal handler is taken off; with nothing in flight the
\* server stops at once.
CloseBun(c) ==
    /\ bun # "exited" /\ closer[c] = "new"
    /\ listening' = FALSE
    /\ IF inflight > 0
       THEN /\ closer' = [closer EXCEPT ![c] = "waiting"]
            /\ drainResolve' = c
            /\ UNCHANGED bun
       ELSE /\ closer' = [closer EXCEPT ![c] = "returned"]
            /\ bun' = "stopped"
            /\ UNCHANGED drainResolve
    /\ overlapped' = overlapped \cup
           (IF inflight > 0 /\ WaitingClosers # {} THEN WaitingClosers \cup {c} ELSE {})
    /\ UNCHANGED <<visit, inflight>>

\* The five seconds of a close() are over.
GiveUpWaiting(c) ==
    /\ bun # "exited" /\ c \in WaitingClosers
    /\ Resume(c)
    /\ UNCHANGED <<visit, inflight, listening, overlapped>>

\* SIGTERM or SIGINT: server.stop() and process.exit(0).
SignalBun ==
    /\ listening /\ bun # "exited"
    /\ bun' = "exited"
    /\ visit' = [v \in Visit |-> IF visit[v] = "handling" THEN "cut" ELSE visit[v]]
    /\ inflight' = 0
    /\ UNCHANGED <<closer, drainResolve, listening, overlapped>>

BunNext ==
    \/ \E v \in Visit : Fetch(v) \/ RequestSettled(v)
    \/ \E c \in Closer : CloseBun(c) \/ GiveUpWaiting(c)
    \/ SignalBun

BunSpec == BunInit /\ [][BunNext]_bunVars
-----------------------------------------------------------------------------
\* A close() waits as long as a request is in flight and no longer: only one
\* that another close() overlapped sits out its five seconds after the last
\* request, for there is one drainResolve, and it is woken by the last of
\* the requests that came while it waited.
ClosersAreWoken ==
    \A c \in WaitingClosers \ overlapped : inflight > 0 /\ drainResolve = c

\* docs/cookbook/observability.md:82: in-flight requests drain before the
\* process exits.  On Bun they are cut off.
SignalsDrain == \A v \in Visit : visit[v] # "cut"

\* Which closers a shutdown keeps waiting.
BunInv == BunTypeOK /\ ClosersAreWoken
=============================================================================
