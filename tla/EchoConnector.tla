---------------------------- MODULE EchoConnector ----------------------------
(***************************************************************************)
(* The client side of broadcasting, packages/echo: WebSocketConnector with *)
(* the channels of an Echo on top of it, and what the hub makes of the     *)
(* messages it is sent.  A task is an async call; it runs on, before any   *)
(* event of a socket or a timer, until it awaits an authorization.         *)
(***************************************************************************)
EXTENDS Naturals, FiniteSets

CONSTANTS
    Link,           \* bound: the sockets connect() may make
    OpenChannel,    \* public channels
    SignedChannel,  \* private and presence channels, to be authorized
    NoLink

ASSUME EchoAssumption ==
    /\ IsFiniteSet(Link) /\ NoLink \notin Link
    /\ OpenChannel \cap SignedChannel = {} /\ NoLink \notin OpenChannel \cup SignedChannel

VARIABLES
    link,           \* unused, connecting, open, ready (the hub has sent its
                    \* socket id), closing or closed
    current,        \* this.socket
    socketId,       \* _socketId: the socket it was received on
    intended,       \* intentionalClose
    timer,          \* reconnectTimer is set
    subscribed, pending,    \* the connector's sets of channels
    bound,          \* how often each channel's listener is in bindings; 2 is twice
                    \* or more
    channels,       \* the channels of the Echo, each with one listener
    joined,         \* channels whose own flag says they are subscribed
    task,           \* the async calls under way
    atHub,          \* the hub's subscriptions of each socket
    marred          \* history: channels that were not authorized, or for another
                    \* socket for good, or were left before they were subscribed

echoVars == <<link, current, socketId, intended, timer, subscribed, pending,
              bound, channels, joined, task, atHub, marred>>
wires == <<link, socketId, timer>>

EchoChannel == OpenChannel \cup SignedChannel

\* The subscribe() of a listen(), and for each socket the loops
\* flushPendingSubscriptions(), resubscribeAll() and resubscribeChannels().
Task == ({"listen"} \X EchoChannel) \cup ({"flush", "all", "channels"} \X Link)

NoCall == [at |-> "none", todo |-> {}, channel |-> NoLink, id |-> NoLink]
Loop(todo) == [NoCall EXCEPT !.at = "next", !.todo = todo]

EchoInit ==
    /\ link = [s \in Link |-> "unused"]
    /\ current = NoLink /\ socketId = NoLink
    /\ intended = FALSE /\ timer = FALSE
    /\ subscribed = {} /\ pending = {}
    /\ bound = [ch \in EchoChannel |-> 0]
    /\ channels = {} /\ joined = {}
    /\ task = [t \in Task |-> NoCall]
    /\ atHub = [s \in Link |-> {}]
    /\ marred = {}

Up(s) == s # NoLink /\ link[s] \in {"open", "ready"}
Waiting == {t \in Task : task[t].at \in {"next", "ask"}}
About(t, ch) == task[t].at # "none" /\ (ch \in task[t].todo \/ ch = task[t].channel)
AskedFor(ch) ==
    \E t \in Task : task[t].at = "auth" /\ task[t].channel = ch /\ task[t].id = current
Settled == \A t \in Task : task[t] = NoCall

\* The loops of resubscribeChannels() walk the map of channels itself: one that
\* is added is still come to, one that is deleted no more.
Revisit(now) ==
    [t \in Task |->
        IF t[1] = "channels" /\ task[t].at # "none"
        THEN [task[t] EXCEPT !.todo = (@ \cap now) \cup (now \ channels)]
        ELSE task[t]]
-----------------------------------------------------------------------------
\* connect(): a socket that is still connecting does not count, and stays.
Connect ==
    IF Up(current) THEN UNCHANGED <<link, current, intended>>
    ELSE \E s \in Link :
            /\ link[s] = "unused"
            /\ link' = [link EXCEPT ![s] = "connecting"]
            /\ current' = s
            /\ intended' = FALSE

\* send() drops the message unless the socket is open, and the hub refuses
\* a token that was signed for another socket.
SendSubscribe(ch, id) ==
    /\ subscribed' = subscribed \cup {ch}
    /\ atHub' = IF Up(current) /\ (ch \in OpenChannel \/ id = current)
                THEN [atHub EXCEPT ![current] = @ \cup {ch}] ELSE atHub

\* Mutant: the channel stays in the set of those subscribed.
UnsubscribesHalf(ch) ==
    IF ch \in subscribed
    THEN /\ bound' = [bound EXCEPT ![ch] = 0]
         /\ atHub' = IF Up(current) THEN [atHub EXCEPT ![current] = @ \ {ch}] ELSE atHub
         /\ UNCHANGED subscribed
    ELSE UNCHANGED <<subscribed, bound, atHub>>

\* unsubscribe(), of a channel that is subscribed.
Unsubscribes(ch) ==
    IF ch \in subscribed
    THEN /\ subscribed' = subscribed \ {ch}
         /\ bound' = [bound EXCEPT ![ch] = 0]
         /\ atHub' = IF Up(current) THEN [atHub EXCEPT ![current] = @ \ {ch}] ELSE atHub
    ELSE UNCHANGED <<subscribed, bound, atHub>>

Bind(ch, n) == [bound EXCEPT ![ch] = IF @ + n > 2 THEN 2 ELSE @ + n]

\* A subscribe() returns: a channel's rebinds the listener, and a listen()
\* then binds it once more.
Returns(t, ch) ==
    /\ joined' = IF t[1] \in {"listen", "channels"} THEN joined \cup {ch} ELSE joined
    /\ bound' = CASE t[1] = "listen" -> Bind(ch, 2)
                  [] t[1] = "channels" -> Bind(ch, 1)
                  [] OTHER -> bound
    /\ task' = [task EXCEPT ![t] = IF t[1] = "listen" THEN NoCall ELSE Loop(@.todo)]

\* A loop goes on to one of the channels it has left.
NextChannel(t) ==
    /\ task[t].at = "next"
    /\ IF task[t].todo = {}
       THEN /\ task' = [task EXCEPT ![t] = NoCall]
            /\ UNCHANGED <<subscribed, bound, atHub, joined>>
       ELSE \E ch \in task[t].todo :
            /\ task' = [task EXCEPT ![t].at = "ask", ![t].channel = ch,
                                    ![t].todo = @ \ {ch}]
            /\ IF t[1] = "channels" /\ ch \in joined
               THEN Unsubscribes(ch) /\ joined' = joined \ {ch}
               ELSE UNCHANGED <<subscribed, bound, atHub, joined>>
    /\ UNCHANGED <<link, current, socketId, intended, timer, pending, channels,
                   marred>>

\* subscribe() of a channel that has joined by now.
AskNot(t) ==
    LET ch == task[t].channel IN
    /\ task[t].at = "ask" /\ t[1] \in {"listen", "channels"} /\ ch \in joined
    /\ task' = [task EXCEPT ![t] = IF t[1] = "listen" THEN NoCall ELSE Loop(@.todo)]
    /\ bound' = IF t[1] = "listen" THEN Bind(ch, 1) ELSE bound
    /\ UNCHANGED <<wires, current, intended, subscribed, pending, channels, joined,
                   atHub, marred>>

\* subscribe() of the connector.
Ask(t) ==
    LET ch == task[t].channel IN
    /\ task[t].at = "ask" /\ ~(t[1] \in {"listen", "channels"} /\ ch \in joined)
    /\ Connect
    /\ IF socketId # NoLink /\ ch \notin subscribed /\ ch \in SignedChannel
       THEN /\ task' = [task EXCEPT ![t].at = "auth", ![t].id = socketId]
            /\ UNCHANGED <<subscribed, pending, bound, joined, atHub>>
       ELSE /\ Returns(t, ch)
            /\ pending' = IF socketId = NoLink THEN pending \cup {ch} ELSE pending
            /\ IF socketId # NoLink /\ ch \notin subscribed
               THEN SendSubscribe(ch, socketId)
               ELSE UNCHANGED <<subscribed, atHub>>
    /\ UNCHANGED <<socketId, timer, channels, marred>>

\* What still subscribes a channel whose authorization came for another socket
\* than the one in use: the greeting of that one, a loop that comes to it, or
\* the channel's own authorization.
MadeGood(ch) ==
    /\ current # NoLink
    /\ \/ ch \in joined' /\ socketId # current
       \/ ch \in joined' /\ \E o \in Task : o[1] = "channels" /\ ch \in task[o].todo
       \/ AskedFor(ch)
       \/ ch \in atHub[current]

Authorized(t) ==
    LET ch == task[t].channel IN
    /\ Waiting = {} /\ task[t].at = "auth"
    /\ SendSubscribe(ch, task[t].id)
    /\ Returns(t, ch)
    /\ marred' = IF task[t].id = current \/ MadeGood(ch) THEN marred ELSE marred \cup {ch}
    /\ UNCHANGED <<wires, current, intended, pending, channels>>

\* The authorization is refused: the call throws, and a loop ends.
Unauthorized(t) ==
    /\ Waiting = {} /\ task[t].at = "auth"
    /\ task' = [task EXCEPT ![t] = NoCall]
    /\ marred' = marred \cup {task[t].channel} \cup task[t].todo
    /\ UNCHANGED <<wires, current, intended, subscribed, pending, bound, channels,
                   joined, atHub>>
-----------------------------------------------------------------------------
Opened(s) ==
    /\ Waiting = {} /\ link[s] = "connecting"
    /\ link' = [link EXCEPT ![s] = "open"]
    /\ UNCHANGED <<current, socketId, intended, timer, subscribed, pending, bound,
                   channels, joined, task, atHub, marred>>

\* The hub's first message.  The two loops begin at once.
Greeted(s) ==
    /\ Waiting = {} /\ link[s] = "open"
    /\ link' = [link EXCEPT ![s] = "ready"]
    /\ socketId' = s
    /\ pending' = {}
    /\ task' = [task EXCEPT ![<<"flush", s>>] = Loop(pending),
                            ![<<"channels", s>>] = Loop(channels)]
    /\ UNCHANGED <<current, intended, timer, subscribed, bound, channels, joined,
                   atHub, marred>>

\* The close event of a socket, current or not.
Closed(s) ==
    /\ Waiting = {} /\ link[s] \in {"connecting", "open", "ready", "closing"}
    /\ link' = [link EXCEPT ![s] = "closed"]
    /\ socketId' = NoLink
    /\ timer' = (timer \/ ~intended)
    /\ atHub' = [atHub EXCEPT ![s] = {}]
    /\ UNCHANGED <<current, intended, subscribed, pending, bound, channels, joined,
                   task, marred>>

\* The reconnect timer: connect() and then resubscribeAll().
Reconnect ==
    /\ Waiting = {} /\ timer
    /\ timer' = FALSE
    /\ Connect
    /\ task[<<"all", current'>>] = NoCall
    /\ task' = [task EXCEPT ![<<"all", current'>>] = Loop(subscribed)]
    /\ subscribed' = {}
    /\ UNCHANGED <<socketId, pending, bound, channels, joined, atHub, marred>>

\* The first listen() on a channel.  Bound: not while a channel object of the
\* same name that was left takes itself for subscribed.
Listen(ch) ==
    /\ Waiting = {} /\ ch \notin channels /\ task[<<"listen", ch>>] = NoCall
    /\ ch \notin joined
    /\ channels' = channels \cup {ch}
    /\ task' = [Revisit(channels') EXCEPT ![<<"listen", ch>>] =
                    [NoCall EXCEPT !.at = "ask", !.channel = ch]]
    /\ UNCHANGED <<wires, current, intended, subscribed, pending, bound, joined,
                   atHub, marred>>

\* Echo.leave().
LeaveChannel(ch) ==
    /\ Waiting = {} /\ ch \in channels
    /\ channels' = channels \ {ch}
    /\ joined' = joined \ {ch}
    /\ IF ch \in joined THEN Unsubscribes(ch) ELSE UNCHANGED <<subscribed, bound, atHub>>
    /\ marred' = IF ch \in pending \/ \E t \in Task : About(t, ch)
                 THEN marred \cup {ch} ELSE marred
    /\ task' = Revisit(channels')
    /\ UNCHANGED <<wires, current, intended, pending>>

\* Echo.disconnect(): every channel is left, the socket is closed.
Disconnect ==
    /\ Waiting = {} /\ current # NoLink
    /\ intended' = TRUE /\ timer' = FALSE
    /\ link' = IF link[current] = "closed" THEN link ELSE [link EXCEPT ![current] = "closing"]
    /\ current' = NoLink /\ socketId' = NoLink
    /\ subscribed' = {} /\ pending' = {} /\ channels' = {} /\ joined' = {}
    /\ bound' = [ch \in EchoChannel |->
           IF ch \in joined \cap channels \cap subscribed THEN 0 ELSE bound[ch]]
    /\ atHub' = [s \in Link |-> IF s = current THEN {} ELSE atHub[s]]
    /\ marred' = marred \cup {ch \in EchoChannel : \E t \in Task : About(t, ch)}
    /\ task' = Revisit({})

EchoNext ==
    \/ \E t \in Task : NextChannel(t) \/ AskNot(t) \/ Ask(t)
                       \/ Authorized(t) \/ Unauthorized(t)
    \/ \E s \in Link : Opened(s) \/ Greeted(s) \/ Closed(s)
    \/ Reconnect \/ Disconnect
    \/ \E ch \in EchoChannel : Listen(ch) \/ LeaveChannel(ch)

EchoSpec == EchoInit /\ [][EchoNext]_echoVars
-----------------------------------------------------------------------------
\* After any disconnects and reconnects, and whatever sockets connect() made
\* beside one that was connecting: when the last greeting was that of the socket
\* in use, no call is under way and no reconnect is due, the hub and the
\* connector both know of every channel of the Echo, unless an authorization was
\* refused or came for another socket for good, or the channel was left while it
\* was subscribing.
ChannelsSurvive ==
    Settled /\ ~timer /\ current # NoLink /\ socketId = current =>
        channels \ marred \subseteq subscribed \cap atHub[current]

\* One event is sent to the client once, whatever sockets it has made: the
\* hub has subscriptions of one of them only.
OneSocketSubscribes ==
    \A s, o \in Link : atHub[s] # {} /\ atHub[o] # {} => s = o

\* A listener is called once for an event.
ListenersCalledOnce == \A ch \in EchoChannel : bound[ch] <= 1

\* What the listeners of an Echo may rely on across reconnects.
EchoInv == ChannelsSurvive /\ OneSocketSubscribes
=============================================================================
