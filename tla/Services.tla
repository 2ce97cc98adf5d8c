------------------------------ MODULE Services ------------------------------
(***************************************************************************)
(* What the parts that serve requests and events promise, as far as it can *)
(* be proved of them: the hub of the websockets, the client that connects  *)
(* to it, the connections to redis, the servers with the application       *)
(* behind them, its table of routes and their reload, its request objects, *)
(* its caches of views, the templates with their linter and the folding of *)
(* conditions, the polling of a bot and the client for HTTP.               *)
(* They share nothing; MCServices adds the compiler of templates, which is *)
(* checked only, and runs all of them.                                     *)
(***************************************************************************)
EXTENDS WebSocketHub, EchoConnector, RedisManager, RedisSubscriber, NodeServer,
        BunServer, Providers, RequestPool, RouteTable, HotReload, ViewCache, Template, StaticFold,
        TelegramPolling, HttpClient

\* Members of a channel are told of each other, and what redis publishes
\* reaches every listener whose subscribe() succeeded.
BroadcastInv == HubInv /\ SubscriberInv

\* Requests in flight are answered before a server closes, on Node and Bun, but
\* for those behind a response that ends the connection on Node.
ServersInv == ServerInv /\ BunInv

\* A request is handled with its lazy provider booted, by an object that is no
\* other request's, and with views that are compiled from their files, that the
\* linter passes if they have all their ends, and whose conditions come out the
\* same whether they are folded or not unless they are known to be misread.
DispatchInv == ProvidersInv /\ PoolInv /\ ViewInv /\ TemplateInv /\ FoldsOnlyWhatIsKnown

\* The route that answers is the one the order of routes gives, with the
\* middleware it was given but for what the JSON fast path goes without, and
\* reloads of the route modules do not mix.
RoutingInv == RouteInv /\ ReloadInv

\* A bot skips no update, and a call of the HTTP client gives the last answer.
ClientsInv == PollingInv /\ ClientInv
=============================================================================
