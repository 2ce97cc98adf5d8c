--------------------------- MODULE RedisSubscriber ---------------------------
(***************************************************************************)
(* subscribe() and quit() of one redis client (packages/redis-node/src/    *)
(* client-factory.ts), which subscribes on a connection of its own, and    *)
(* the start of the hub's fan-out (packages/broadcasting-websocket/src/    *)
(* register.ts), one of the callers.  A step runs up to the next await.    *)
(***************************************************************************)
EXTENDS Naturals, FiniteSets

CONSTANTS
    HubStart,       \* calls of startRedisSubscriber(): the driver was made again
    Listener,       \* other calls of subscribe()
    Topic,          \* redis channels
    Broadcasts      \* the one the hub listens to

ASSUME SubscriberAssumption ==
    HubStart \cap Listener = {} /\ Broadcasts \in Topic

VARIABLES
    started,        \* redisSubscriberStarted
    asks,           \* where each call is
    listeners,      \* channelListeners: the calls whose listener is in each set
    fresh,          \* calls that found no listener (isNewChannel)
    duplicate,      \* subscriberReady: none, connecting, up or failed
    subscriber,     \* its connection: unset, open or quitting
    heard,          \* topics the subscriber connection is subscribed to
    spoiled         \* history: topics a call failed to subscribe to, or quit()

subscriberVars == <<started, asks, listeners, fresh, duplicate, subscriber, heard,
                    spoiled>>

Asker == HubStart \cup Listener

\* What a call subscribes to is settled when it is made.
Wanted(c) == {t \in Topic : c \in listeners[t]}

SubscriberTypeOK ==
    /\ started \in BOOLEAN
    /\ asks \in [Asker -> {"idle", "client", "waits", "sends", "done", "failed"}]
    /\ listeners \in [Topic -> SUBSET Asker]
    /\ fresh \subseteq Asker
    /\ duplicate \in {"none", "connecting", "up", "failed"}
    /\ subscriber \in {"unset", "open", "quitting"}
    /\ heard \subseteq Topic /\ spoiled \subseteq Topic

SubscriberInit ==
    /\ started = FALSE
    /\ asks = [c \in Asker |-> "idle"]
    /\ listeners = [t \in Topic |-> {}]
    /\ fresh = {} /\ heard = {} /\ spoiled = {}
    /\ duplicate = "none"
    /\ subscriber = "unset"

Asks(c, from, to) == asks[c] = from /\ asks' = [asks EXCEPT ![c] = to]
connection == <<duplicate, subscriber, heard>>
-----------------------------------------------------------------------------
\* startRedisSubscriber(): the flag is set, and the client awaited.  Other
\* calls of it await what the first began.
StartHub(c) ==
    /\ ~started
    /\ started' = TRUE
    /\ Asks(c, "idle", "client")
    /\ UNCHANGED <<listeners, fresh, connection, spoiled>>

\* redisManager.connection() throws; the flag stays set.
NoClient(c) ==
    /\ Asks(c, "client", "failed")
    /\ spoiled' = spoiled \cup {Broadcasts}
    /\ UNCHANGED <<started, listeners, fresh, connection>>

\* Mutant: whether the channel is new is decided with the listener in it.
EnlistFirst(c, t) ==
    /\ fresh' = fresh
    /\ listeners' = [listeners EXCEPT ![t] = @ \cup {c}]
    /\ duplicate' = IF duplicate = "none" THEN "connecting" ELSE duplicate

\* subscribe() up to the await of ensureSubscriber().
Enlist(c, t) ==
    /\ fresh' = IF listeners[t] = {} THEN fresh \cup {c} ELSE fresh
    /\ listeners' = [listeners EXCEPT ![t] = @ \cup {c}]
    /\ duplicate' = IF duplicate = "none" THEN "connecting" ELSE duplicate

HubSubscribes(c) ==
    /\ Asks(c, "client", "waits")
    /\ Enlist(c, Broadcasts)
    /\ UNCHANGED <<started, subscriber, heard, spoiled>>

Subscribes(c, t) ==
    /\ Asks(c, "idle", "waits")
    /\ Enlist(c, t)
    /\ UNCHANGED <<started, subscriber, heard, spoiled>>

\* The duplicate is connected, or will never be: the promise stays either way.
DuplicateUp ==
    /\ duplicate = "connecting"
    /\ duplicate' = "up"
    /\ subscriber' = "open"
    /\ UNCHANGED <<started, asks, listeners, fresh, heard, spoiled>>

DuplicateFails ==
    /\ duplicate = "connecting"
    /\ duplicate' = "failed"
    /\ UNCHANGED <<started, asks, listeners, fresh, subscriber, heard, spoiled>>

\* Only who found the channel new sends SUBSCRIBE; the others are done.
Awaited(c) ==
    /\ duplicate = "up"
    /\ Asks(c, "waits", IF c \notin fresh THEN "done"
                        ELSE IF subscriber = "unset" THEN "failed" ELSE "sends")
    /\ spoiled' = IF c \in fresh /\ subscriber = "unset"
                  THEN spoiled \cup Wanted(c) ELSE spoiled
    /\ UNCHANGED <<started, listeners, fresh, connection>>

\* The connect failed, or SUBSCRIBE does: the listener stays in the set.
SubscribeFails(c) ==
    /\ \/ duplicate = "failed" /\ Asks(c, "waits", "failed")
       \/ Asks(c, "sends", "failed")
    /\ spoiled' = spoiled \cup Wanted(c)
    /\ UNCHANGED <<started, listeners, fresh, connection>>

Subscribed(c) ==
    /\ subscriber = "open"
    /\ Asks(c, "sends", "done")
    /\ heard' = heard \cup Wanted(c)
    /\ UNCHANGED <<started, listeners, fresh, duplicate, subscriber, spoiled>>

\* quit(): the subscriber there is, and after its answer the client.
StartQuit ==
    /\ subscriber # "quitting"
    /\ subscriber' = IF subscriber = "open" THEN "quitting" ELSE subscriber
    /\ heard' = {}
    /\ spoiled' = Topic
    /\ UNCHANGED <<started, asks, listeners, fresh, duplicate>>

EndQuit ==
    /\ subscriber = "quitting"
    /\ subscriber' = "unset"
    /\ UNCHANGED <<started, asks, listeners, fresh, duplicate, heard, spoiled>>

SubscriberNext ==
    \/ \E c \in HubStart : StartHub(c) \/ NoClient(c) \/ HubSubscribes(c)
    \/ \E c \in Listener, t \in Topic : Subscribes(c, t)
    \/ \E c \in Asker : Awaited(c) \/ SubscribeFails(c) \/ Subscribed(c)
    \/ DuplicateUp \/ DuplicateFails \/ StartQuit \/ EndQuit

SubscriberSpec == SubscriberInit /\ [][SubscriberNext]_subscriberVars
-----------------------------------------------------------------------------
\* Whoever was told that it is subscribed is called, now or when the call
\* that found the channel new is through, unless a call for that channel
\* failed or the client was quit.
SubscribedAreHeard ==
    \A c \in Asker : asks[c] = "done" =>
        \A t \in Wanted(c) \ spoiled :
            t \in heard \/ \E d \in listeners[t] : asks[d] \in {"waits", "sends"}

\* However often the driver is made, the hub has one listener at most, and a
\* broadcast reaches its sockets once.
HubHearsOnce ==
    /\ Cardinality(listeners[Broadcasts] \cap HubStart) <= 1
    /\ Cardinality({c \in HubStart : asks[c] # "idle"}) <= 1

\* What the hub and other listeners hear.
SubscriberInv == SubscriberTypeOK /\ SubscribedAreHeard /\ HubHearsOnce
=============================================================================
