----------------------------- MODULE MCServices -----------------------------
(***************************************************************************)
(* What serves requests and events: the hub of the websockets, the client  *)
(* that connects to it, the connections to redis, the servers with the     *)
(* application behind them, its routes and their reload, its request       *)
(* objects, its views with their compiler, the polling of a bot and the    *)
(* client for HTTP.  They share nothing: a behaviour is one of a single    *)
(* part, and all others stay as they began.                                *)
(***************************************************************************)
EXTENDS Services, MCRouteTable, ViewCompiler

VARIABLE part

servicesVars == <<hubVars, echoVars, redisVars, subscriberVars, serverVars, bunVars,
                  providerVars, poolVars, routeVars, reloadVars, viewVars, compilerVars,
                  foldVars, pollVars, clientVars, part>>

Parts == {"hub", "echo", "redis", "subscriber", "node", "bun", "providers", "pool",
          "routes", "reload", "views", "compiler", "folding", "polling", "client"}

ServicesInit ==
    /\ HubInit /\ EchoInit /\ RedisInit /\ SubscriberInit /\ ServerInit /\ BunInit
    /\ ProvidersInit /\ PoolInit /\ RouteInit /\ ReloadInit /\ ViewInit
    /\ CompilerInit /\ FoldInit /\ PollInit /\ ClientInit
    /\ part \in Parts
    /\ part # "views" => ~engine.onDisk
    /\ part # "client" => timed
    /\ style.indented <=> "component" \in style.dialect
    /\ part # "compiler" => style.dialect = CHOOSE d \in Dialects : TRUE
    /\ part # "folding" => directive = "if" /\ environment = "production"

\* Bound: a behaviour of the client of the websockets ends once a channel is
\* marred; its channels are what is looked at.
ServicesNext ==
    /\ UNCHANGED part
    /\ IF part = "hub" THEN HubNext ELSE UNCHANGED hubVars
    /\ IF part = "echo" THEN EchoNext /\ marred = {} ELSE UNCHANGED echoVars
    /\ IF part = "redis" THEN RedisNext ELSE UNCHANGED redisVars
    /\ IF part = "subscriber" THEN SubscriberNext ELSE UNCHANGED subscriberVars
    /\ IF part = "node" THEN ServerNext ELSE UNCHANGED serverVars
    /\ IF part = "bun" THEN BunNext ELSE UNCHANGED bunVars
    /\ IF part = "providers" THEN ProvidersNext ELSE UNCHANGED providerVars
    /\ IF part = "pool" THEN PoolNext ELSE UNCHANGED poolVars
    /\ IF part = "routes" THEN RouteNext ELSE UNCHANGED routeVars
    /\ IF part = "reload" THEN ReloadNext ELSE UNCHANGED reloadVars
    /\ IF part = "views" THEN ViewNext ELSE UNCHANGED viewVars
    /\ IF part = "compiler" THEN CompilerNext ELSE UNCHANGED compilerVars
    /\ IF part = "folding" THEN FoldNext ELSE UNCHANGED foldVars
    /\ IF part = "polling" THEN PollNext ELSE UNCHANGED pollVars
    /\ IF part = "client" THEN ClientNext ELSE UNCHANGED clientVars

\* Timers fire, the callback of the server's close() is called, and a call of
\* the client goes on after its delay.
ServicesSpec ==
    /\ ServicesInit /\ [][ServicesNext]_servicesVars
    /\ WF_serverVars(part = "node" /\ TimerFires)
    /\ WF_serverVars(part = "node" /\ Closes)
    /\ WF_clientVars(part = "client" /\ BeginTry)
    /\ \A a \in Try : WF_clientVars(part = "client" /\ TimerAborts(a))
=============================================================================
