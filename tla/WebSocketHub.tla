---------------------------- MODULE WebSocketHub ----------------------------
(***************************************************************************)
(* The hub of packages/broadcasting-websocket: the sockets one process     *)
(* holds, the channels they subscribe to and the members of its presence   *)
(* channels.  One step is one callback of a socket.  A subscription that   *)
(* is refused (no valid token, limit reached) changes nothing but sends an *)
(* error, and is left out.                                                 *)
(***************************************************************************)
EXTENDS Integers, FiniteSets

CONSTANTS
    Socket,             \* sockets that may ask for an upgrade
    PlainChannel,       \* public and private channels
    PresenceChannel,
    Person,             \* what a member's channel data says of it
    Nobody,
    MaxConnections,
    MaxSubscriptions

ASSUME HubAssumption ==
    /\ IsFiniteSet(Socket) /\ IsFiniteSet(PlainChannel \cup PresenceChannel)
    /\ PlainChannel \cap PresenceChannel = {}
    /\ Nobody \notin Person
    /\ MaxConnections \in Nat /\ MaxSubscriptions \in Nat

VARIABLES
    wire,       \* the TCP socket: new, open, failed (an error event), closed
    clients,    \* the keys of the hub's clients map
    subscriptions,  \* the channels of each client
    presence,   \* the keys of each client's presence map
    members,    \* presenceMembers: who each socket is in each channel
    counted,    \* history: how often each person is present in a channel, for
                \* a client that adds up all it was sent
    heads,      \* history: how many members, for one that only counts them
    renamed     \* history: channels where a member subscribed again as another

hubVars == <<wire, clients, subscriptions, presence, members, counted, heads, renamed>>

Channel == PlainChannel \cup PresenceChannel

HubTypeOK ==
    /\ wire \in [Socket -> {"new", "open", "failed", "closed"}]
    /\ clients \subseteq Socket
    /\ subscriptions \in [Socket -> SUBSET Channel]
    /\ presence \in [Socket -> SUBSET PresenceChannel]
    /\ members \in [PresenceChannel -> [Socket -> Person \cup {Nobody}]]
    /\ counted \in [Socket -> [PresenceChannel -> [Person -> Int]]]
    /\ heads \in [Socket -> [PresenceChannel -> Int]]
    /\ renamed \subseteq PresenceChannel

HubInit ==
    /\ wire = [s \in Socket |-> "new"]
    /\ clients = {}
    /\ subscriptions = [s \in Socket |-> {}]
    /\ presence = [s \in Socket |-> {}]
    /\ members = [ch \in PresenceChannel |-> [s \in Socket |-> Nobody]]
    /\ counted = [s \in Socket |-> [ch \in PresenceChannel |-> [p \in Person |-> 0]]]
    /\ heads = [s \in Socket |-> [ch \in PresenceChannel |-> 0]]
    /\ renamed = {}
-----------------------------------------------------------------------------
IsMember(s, ch) == members[ch][s] # Nobody

\* broadcastToChannel(): whom a message about s reaches.  send() drops what a
\* connection that is closed is sent.
Reaches(s, t, ch) ==
    t # s /\ t \in clients /\ ch \in subscriptions[t] /\ wire[t] = "open"

Census(roster) == [p \in Person |-> Cardinality({s \in Socket : roster[s] = p})]
Heads(roster) == Cardinality({s \in Socket : roster[s] # Nobody})

\* Mutant: whoever subscribes again is announced again.
JoinAgain(s, ch, p) ==
    /\ members' = [members EXCEPT ![ch][s] = p]
    /\ presence' = [presence EXCEPT ![s] = @ \cup {ch}]
    /\ counted' = [t \in Socket |->
           IF t = s THEN [counted[t] EXCEPT ![ch] = Census(members'[ch])]
           ELSE IF Reaches(s, t, ch) THEN [counted[t] EXCEPT ![ch][p] = @ + 1]
                ELSE counted[t]]
    /\ heads' = [t \in Socket |->
           IF t = s THEN [heads[t] EXCEPT ![ch] = Heads(members'[ch])]
           ELSE IF Reaches(s, t, ch) THEN [heads[t] EXCEPT ![ch] = @ + 1]
                ELSE heads[t]]
    /\ renamed' = IF IsMember(s, ch) /\ members[ch][s] # p
                  THEN renamed \cup {ch} ELSE renamed

\* joinPresence(): the newcomer is sent the list, the others are told of it.
Join(s, ch, p) ==
    /\ members' = [members EXCEPT ![ch][s] = p]
    /\ presence' = [presence EXCEPT ![s] = @ \cup {ch}]
    /\ counted' = [t \in Socket |->
           IF t = s THEN [counted[t] EXCEPT ![ch] = Census(members'[ch])]
           ELSE IF ~IsMember(s, ch) /\ Reaches(s, t, ch)
                THEN [counted[t] EXCEPT ![ch][p] = @ + 1]
                ELSE counted[t]]
    /\ heads' = [t \in Socket |->
           IF t = s THEN [heads[t] EXCEPT ![ch] = Heads(members'[ch])]
           ELSE IF ~IsMember(s, ch) /\ Reaches(s, t, ch)
                THEN [heads[t] EXCEPT ![ch] = @ + 1]
                ELSE heads[t]]
    /\ renamed' = IF IsMember(s, ch) /\ members[ch][s] # p
                  THEN renamed \cup {ch} ELSE renamed

\* leavePresence(), for one or all channels of a client.
Leave(s, left) ==
    /\ members' = [ch \in PresenceChannel |->
           IF ch \in left THEN [members[ch] EXCEPT ![s] = Nobody] ELSE members[ch]]
    /\ presence' = [presence EXCEPT ![s] = @ \ left]
    /\ counted' = [t \in Socket |-> [ch \in PresenceChannel |->
           IF ch \in left /\ t = s THEN [p \in Person |-> 0]
           ELSE IF ch \in left /\ IsMember(s, ch) /\ Reaches(s, t, ch)
                THEN [counted[t][ch] EXCEPT ![members[ch][s]] = @ - 1]
                ELSE counted[t][ch]]]
    /\ heads' = [t \in Socket |-> [ch \in PresenceChannel |->
           IF ch \in left /\ t = s THEN 0
           ELSE IF ch \in left /\ IsMember(s, ch) /\ Reaches(s, t, ch)
                THEN heads[t][ch] - 1
                ELSE heads[t][ch]]]
-----------------------------------------------------------------------------
\* handleUpgrade(): another path, no key, or no room.
Refuse(s) ==
    /\ wire[s] = "new"
    /\ wire' = [wire EXCEPT ![s] = "closed"]
    /\ UNCHANGED <<clients, subscriptions, presence, members, counted, heads, renamed>>

Upgrade(s) ==
    /\ wire[s] = "new"
    /\ Cardinality(clients) < MaxConnections
    /\ wire' = [wire EXCEPT ![s] = "open"]
    /\ clients' = clients \cup {s}
    /\ UNCHANGED <<subscriptions, presence, members, counted, heads, renamed>>

Hears(s) == s \in clients /\ wire[s] = "open"

\* Bound: one member of a channel subscribes again as another, once.
Subscribe(s, ch, p) ==
    /\ Hears(s)
    /\ ch \in renamed => members[ch][s] \in {Nobody, p}
    /\ Cardinality(subscriptions[s]) < MaxSubscriptions
    /\ subscriptions' = [subscriptions EXCEPT ![s] = @ \cup {ch}]
    /\ IF ch \in PresenceChannel
       THEN Join(s, ch, p)
       ELSE UNCHANGED <<presence, members, counted, heads, renamed>>
    /\ UNCHANGED <<wire, clients>>

Unsubscribe(s, ch) ==
    /\ Hears(s) /\ ch \in subscriptions[s]
    /\ subscriptions' = [subscriptions EXCEPT ![s] = @ \ {ch}]
    /\ Leave(s, {ch} \cap PresenceChannel)
    /\ UNCHANGED <<wire, clients, renamed>>

\* The socket's close event: removeClient().
Close(s) ==
    /\ wire[s] = "open"
    /\ wire' = [wire EXCEPT ![s] = "closed"]
    /\ Leave(s, presence[s])
    /\ clients' = clients \ {s}
    /\ subscriptions' = [subscriptions EXCEPT ![s] = {}]
    /\ UNCHANGED renamed

\* The socket's error event marks the connection closed, so the close event
\* that follows runs no handler: the client stays in the hub.
Fail(s) ==
    /\ wire[s] = "open"
    /\ wire' = [wire EXCEPT ![s] = "failed"]
    /\ UNCHANGED <<clients, subscriptions, presence, members, counted, heads, renamed>>

HubNext ==
    \E s \in Socket :
        \/ Refuse(s) \/ Upgrade(s) \/ Close(s) \/ Fail(s)
        \/ \E ch \in Channel :
              \/ Unsubscribe(s, ch)
              \/ \E p \in Person : Subscribe(s, ch, p)

HubSpec == HubInit /\ [][HubNext]_hubVars
-----------------------------------------------------------------------------
\* The two sides of presence never part, whatever is joined, left or cut off:
\* a channel's members are the clients that have it in their presence map,
\* and each of them is subscribed to it.
RostersAgree ==
    /\ \A s \in Socket, ch \in PresenceChannel :
          IsMember(s, ch) <=> ch \in presence[s]
    /\ \A s \in Socket : presence[s] \subseteq subscriptions[s]
    /\ \A s \in Socket \ clients : subscriptions[s] = {}

\* The list a member was sent and the joining and leaving it was told of since
\* add up to the members the channel has: their number always, and who they
\* are unless one of them subscribed again with other channel data.
ViewsAddUp ==
    \A s \in Socket, ch \in PresenceChannel :
        Hears(s) /\ ch \in presence[s] =>
            /\ heads[s][ch] = Heads(members[ch])
            /\ ch \notin renamed => counted[s][ch] = Census(members[ch])

\* Only an error event leaves a client behind whose socket is gone, and
\* those it leaves behind count: no more than MaxConnections, ever.
OnlyErrorsLeaveGhosts ==
    /\ \A s \in clients : wire[s] \in {"open", "failed"}
    /\ Cardinality(clients) <= MaxConnections

\* The hub's maps agree with each other, with what its clients were told and
\* with the sockets there are.
HubInv == HubTypeOK /\ RostersAgree /\ ViewsAddUp /\ OnlyErrorsLeaveGhosts
=============================================================================
