CONSTANTS
    Socket = {s1, s2, s3}
    PlainChannel = {news}
    PresenceChannel = {room}
    Person = {ann, bob}
    Nobody = Nobody
    MaxConnections = 2
    MaxSubscriptions = 2
    Link = {l1, l2, l3}
    OpenChannel = {}
    SignedChannel = {mail}
    NoLink = NoLink
    Attempt = {a1, a2, a3}
    Caller = {c1, c2}
    NoAttempt = NoAttempt
    HubStart = {h1, h2}
    Listener = {n1, n2}
    Topic = {t1, t2}
    Broadcasts = t1
    Peer = {p1, p2}
    Exchange = {e1, e2, e3}
    NoPeer = NoPeer
    Visit = {v1, v2, v3}
    Closer = {k1, k2}
    NoCloser = NoCloser
    Providers = 2
    LazyProviders = 2
    Starter = {b1, b2}
    LazyCall = {y1, y2}
    Run = {d1, d2, d3}
    Object = {o1, o2, o3}
    maxSize = 1
    NoRun = NoRun
    Methods = {GET, POST}
    SafeMethods = {GET}
    Word = {users, posts, file}
    Patterns <- PatternChoice
    Paths <- PathChoice
    Capture = Capture
    Suffixed = {file}
    Session = Session
    Auth = Auth
    Throttling = Throttling
    Middleware = {Session, Auth, Throttling}
    Labelled = {Auth, Throttling}
    Stateful = {Session}
    FullStack = {Auth}
    Scopes <- ScopeChoice
    jsonFastPathEnabled = TRUE
    MaxRoutes = 3
    Unresolved = Unresolved
    users = users
    posts = posts
    file = file
    RouteModule = {m1, m2}
    ReloadTask = {r1, r2}
    MaxEdits = 2
    Missing = Missing
    Broken = Broken
    Load = {v1, v2}
    Warmer = {w1}
    MaxChanges = 1
    NoEntry = NoEntry
    Torn = Torn
    Dialects = {{"unless", "if"}, {"unless", "forelse"}, {"if", "switch"},
                {"component", "slot"}, {"component", "if"}}
    MaxLines = 6
    MaxTokens = 5
    PollLoop = {q1, q2}
    MaxUpdates = 3
    BatchLimit = 2
    MaxStarts = 2
    MaxCrashes = 1
    retryTimes = 2
    NoResponse = NoResponse
SPECIFICATION ServicesSpec
INVARIANTS
    BroadcastInv EchoInv ServersInv DispatchInv RoutingInv CompilerInv ClientsInv
PROPERTIES ConnectionsAreKept ShutdownEnds SendEnds
CHECK_DEADLOCK FALSE
