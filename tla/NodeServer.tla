----------------------------- MODULE NodeServer -----------------------------
(***************************************************************************)
(* packages/core/src/adapters/node-server.ts and the signal handler of     *)
(* server.ts: plain HTTP/1.1 connections with keep-alive and pipelining,   *)
(* the requests on them, and close().  Requests of one connection are      *)
(* handled at once, but Node writes their responses in the order they came *)
(* in, and none after one that says Connection: close.                     *)
(***************************************************************************)
EXTENDS FiniteSets

CONSTANTS
    Peer,           \* connections clients make
    Exchange,       \* requests, each sent once
    NoPeer

ASSUME ServerAssumption == NoPeer \notin Peer

VARIABLES
    down,           \* isShuttingDown
    peer,           \* new, open, ended (the server writes no more) or gone
    exchange,       \* new, body, kernel, keep or close (a response to be written,
                    \* which says Connection: close or does not), turned (a 503
                    \* to be), answered, final (with close), refused or cut
    via,            \* the connection a request came over
    ahead,          \* the requests that came over it before
    guillotine,     \* the timer of close(): off, set or fired
    process,        \* running, exited (with 0) or aborted (with 1)
    excused,        \* history: requests that are owed no answer
    latecomers      \* history: requests that came after close()

serverVars == <<down, peer, exchange, via, ahead, guillotine, process, excused, latecomers>>

Writable == {"keep", "close", "turned"}
Underway == {"body", "kernel"} \cup Writable

ServerTypeOK ==
    /\ down \in BOOLEAN
    /\ peer \in [Peer -> {"new", "open", "ended", "gone"}]
    /\ exchange \in [Exchange -> Underway \cup {"new", "answered", "final", "refused", "cut"}]
    /\ via \in [Exchange -> Peer \cup {NoPeer}]
    /\ ahead \in [Exchange -> SUBSET Exchange]
    /\ guillotine \in {"off", "set", "fired"}
    /\ process \in {"running", "exited", "aborted"}
    /\ excused \subseteq Exchange /\ latecomers \subseteq Exchange

ServerInit ==
    /\ down = FALSE
    /\ peer = [s \in Peer |-> "new"]
    /\ exchange = [r \in Exchange |-> "new"]
    /\ via = [r \in Exchange |-> NoPeer]
    /\ ahead = [r \in Exchange |-> {}]
    /\ guillotine = "off"
    /\ process = "running"
    /\ excused = {} /\ latecomers = {}

\* _activeRequests of a connection.
ActiveOn(s) == {r \in Exchange : via[r] = s /\ exchange[r] \in Underway}

Goes(r, from, to) ==
    process = "running" /\ exchange[r] = from /\ exchange' = [exchange EXCEPT ![r] = to]

\* Connections end under the requests they carry.
CutOff(gone) ==
    LET lost == UNION {ActiveOn(s) : s \in gone} IN
        /\ exchange' = [r \in Exchange |-> IF r \in lost THEN "cut" ELSE exchange[r]]
        /\ excused' = excused \cup lost
        /\ peer' = [s \in Peer |-> IF s \in gone THEN "gone" ELSE peer[s]]
-----------------------------------------------------------------------------
Accept(s) ==
    /\ process = "running" /\ ~down /\ peer[s] = "new"
    /\ peer' = [peer EXCEPT ![s] = "open"]
    /\ UNCHANGED <<down, exchange, via, ahead, guillotine, process, excused, latecomers>>

Comes(r, s) ==
    /\ via' = [via EXCEPT ![r] = s]
    /\ ahead' = [ahead EXCEPT ![r] = {q \in Exchange : via[q] = s}]

\* A request comes in before close().
Arrive(r, s) ==
    /\ ~down /\ peer[s] = "open"
    /\ Goes(r, "new", "body")
    /\ Comes(r, s)
    /\ UNCHANGED <<down, peer, guillotine, process, excused, latecomers>>

\* One that comes after it is turned away with a 503 that ends the connection,
\* once the responses before it are written.
ArriveLate(r, s) ==
    /\ down /\ peer[s] \in {"open", "ended"}
    /\ Goes(r, "new", IF peer[s] = "open" THEN "turned" ELSE "cut")
    /\ Comes(r, s)
    /\ excused' = excused \cup {r}
    /\ latecomers' = latecomers \cup {r}
    /\ UNCHANGED <<down, peer, guillotine, process>>

ReadBody(r) ==
    /\ Goes(r, "body", "kernel")
    /\ UNCHANGED <<down, peer, via, ahead, guillotine, process, excused, latecomers>>

\* A body that is too long: 500, or the connection is destroyed.
RejectBody(r) ==
    /\ process = "running" /\ exchange[r] = "body"
    /\ \/ Goes(r, "body", "keep") /\ UNCHANGED <<peer, excused>>
       \/ CutOff({via[r]})
    /\ UNCHANGED <<down, via, ahead, guillotine, process, latecomers>>

\* The kernel's response is there, be it an error page.
Respond(r) ==
    /\ Goes(r, "kernel", IF down THEN "close" ELSE "keep")
    /\ UNCHANGED <<down, peer, via, ahead, guillotine, process, excused, latecomers>>

IsNextOut(r) == exchange[r] \in Writable /\ \A q \in ahead[r] : exchange[q] \notin Underway

Outcome(r) ==
    IF peer[via[r]] # "open" THEN "cut"
    ELSE CASE exchange[r] = "keep" -> "answered" [] exchange[r] = "close" -> "final"
           [] OTHER -> "refused"

\* The response is written, or the 500 in its place.  One that says close
\* ends the connection, and with it the requests behind; after close() the
\* last response there is ends it, too.
Finish(r) ==
    LET behind == ActiveOn(via[r]) \ {r}
        last   == exchange[r] # "keep" IN
        /\ process = "running" /\ IsNextOut(r)
        /\ exchange' = [q \in Exchange |-> IF q = r THEN Outcome(r)
                                          ELSE IF last /\ q \in behind THEN "cut" ELSE exchange[q]]
        /\ peer' = [peer EXCEPT ![via[r]] =
                        IF last \/ (down /\ behind = {}) THEN "ended" ELSE @]
        /\ UNCHANGED <<down, via, ahead, guillotine, process, excused, latecomers>>

\* The body of the response cannot be read to its end: outgoing.destroy(), and
\* the connection with it.
BreakOff(r) ==
    /\ process = "running" /\ IsNextOut(r) /\ exchange[r] # "turned"
    /\ CutOff({via[r]})
    /\ UNCHANGED <<down, via, ahead, guillotine, process, latecomers>>

\* The client closes or loses the connection; or it was idle for too long.
PeerLeaves(s) ==
    /\ process = "running" /\ peer[s] \in {"open", "ended"}
    /\ CutOff({s})
    /\ UNCHANGED <<down, via, ahead, guillotine, process, latecomers>>
-----------------------------------------------------------------------------
Connected == {s \in Peer : peer[s] \in {"open", "ended"}}

\* Mutant: connections are ended whatever is under way on them.
CloseAll ==
    /\ process = "running" /\ ~down
    /\ down' = TRUE
    /\ peer' = [s \in Peer |-> IF peer[s] = "open" THEN "ended" ELSE peer[s]]
    /\ guillotine' = IF Connected = {} THEN "off" ELSE "set"
    /\ UNCHANGED <<exchange, via, ahead, process, excused, latecomers>>

\* Mutant: no timer, whoever keeps a connection open.
CloseUntimed ==
    /\ process = "running" /\ ~down
    /\ down' = TRUE
    /\ peer' = [s \in Peer |->
           IF peer[s] = "open" /\ ActiveOn(s) = {} THEN "ended" ELSE peer[s]]
    /\ UNCHANGED <<exchange, via, ahead, guillotine, process, excused, latecomers>>

\* SIGTERM: close() ends idle connections and sets the timer.
CloseServer ==
    /\ process = "running" /\ ~down
    /\ down' = TRUE
    /\ peer' = [s \in Peer |->
           IF peer[s] = "open" /\ ActiveOn(s) = {} THEN "ended" ELSE peer[s]]
    /\ guillotine' = IF Connected = {} THEN "off" ELSE "set"
    /\ UNCHANGED <<exchange, via, ahead, process, excused, latecomers>>

TimerFires ==
    /\ process = "running" /\ guillotine = "set"
    /\ guillotine' = "fired"
    /\ CutOff(Connected)
    /\ UNCHANGED <<down, via, ahead, process, latecomers>>

\* The last connection is gone: close() resolves and the process ends.
Closes ==
    /\ process = "running" /\ down /\ Connected = {}
    /\ process' = "exited"
    /\ UNCHANGED <<down, peer, exchange, via, ahead, guillotine, excused, latecomers>>

\* A second signal: the server is closed already, close() rejects.
SecondSignal ==
    /\ process = "running" /\ down
    /\ process' = "aborted"
    /\ CutOff(Connected)
    /\ UNCHANGED <<down, via, ahead, guillotine, latecomers>>

ServerNext ==
    \/ \E s \in Peer : \/ Accept(s) \/ PeerLeaves(s)
                       \/ \E r \in Exchange : Arrive(r, s) \/ ArriveLate(r, s)
    \/ \E r \in Exchange :
          ReadBody(r) \/ RejectBody(r) \/ Respond(r) \/ Finish(r) \/ BreakOff(r)
    \/ CloseServer \/ TimerFires \/ Closes \/ SecondSignal

\* Timers fire, and the callback of close() is called.
ServerSpec == ServerInit /\ [][ServerNext]_serverVars
              /\ WF_serverVars(TimerFires) /\ WF_serverVars(Closes)
-----------------------------------------------------------------------------
\* Whatever was under way when SIGTERM came is answered, but for a request
\* pipelined behind one that is answered first, and with Connection: close.
\* Otherwise only the client, the timer, a second signal, or a body that is
\* too long or breaks off on the same connection, cuts one off.
RequestsDrain ==
    /\ \A r \in Exchange : exchange[r] = "cut" =>
           r \in excused \/ \E q \in ahead[r] : exchange[q] = "final"
    /\ process = "exited" => \A r \in Exchange : exchange[r] \notin Underway

\* From then on nothing new reaches the kernel.
NothingNewIsServed == \A r \in latecomers : exchange[r] \in {"turned", "refused", "cut"}

\* And the process ends, whoever keeps a connection open.
ShutdownEnds == down ~> process # "running"

\* Which requests a shutdown answers.
ServerInv == ServerTypeOK /\ RequestsDrain /\ NothingNewIsServed
=============================================================================
