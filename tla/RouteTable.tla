----------------------------- MODULE RouteTable -----------------------------
(***************************************************************************)
(* packages/http/src/router.ts, json-fast-path.ts, route-prefix-trie.ts:   *)
(* routes are added and throttled, the table is compiled by the first      *)
(* request after that, and a request is answered from a map of static      *)
(* paths, then from a trie of dynamic patterns, then by their regular      *)
(* expressions.                                                            *)
(*                                                                         *)
(* A path is a sequence of words; a pattern is a sequence of segments: a   *)
(* literal, a parameter (:name) or a mixed one (:name.json).  The names of *)
(* parameters are left out.  Middleware is a set: what runs of it runs in  *)
(* the order it was given.                                                 *)
(***************************************************************************)
EXTENDS SequencesExt

CONSTANTS
    Methods,
    SafeMethods,    \* those of GET, HEAD, OPTIONS and DELETE
    Word,           \* what stands between two slashes of a path
    Patterns,       \* the patterns routes are added with
    Paths,          \* the paths of requests
    Capture,        \* a word of a capture group's text, in no request's path
    Suffixed,       \* the words the expression of a mixed segment matches
    Middleware,
    Labelled,       \* the middleware that is given by its name
    Stateful,       \* that tagged as of the session, csrf, the locale or views
    FullStack,      \* csrf, guest, auth and auth:..., but for auth:api
    Throttling,     \* what throttle() adds
    Scopes,         \* the middleware a route of a pattern may be given
    jsonFastPathEnabled,
    MaxRoutes,
    Unresolved      \* no middlewareInputs, no compiled table

VARIABLES
    routes,         \* routes in the order they were added
    compiledCache,  \* the compiled table, or Unresolved
    belated         \* history: routes throttled after they were compiled

routeVars == <<routes, compiledCache, belated>>

Literal(word) == [kind |-> "literal", word |-> word]
Param == [kind |-> "param", word |-> Capture]
Mixed == [kind |-> "mixed", word |-> Capture]

Segment == {Literal(word) : word \in Word} \cup {Param, Mixed}

ASSUME RouteAssumption ==
    /\ \A pattern \in Patterns : pattern \in Seq(Segment)
    /\ \A path \in Paths : path \in Seq(Word)
    /\ Capture \notin Word
    /\ SafeMethods \subseteq Methods
    /\ FullStack \subseteq Labelled /\ Labelled \subseteq Middleware
    /\ Throttling \in Labelled \ Stateful
    /\ \A pattern \in Patterns : Scopes[pattern] \subseteq SUBSET Middleware
    /\ jsonFastPathEnabled \in BOOLEAN
    /\ \A stack \in SUBSET Middleware : stack # Unresolved
    /\ MaxRoutes \in Nat

\* All a route was given (history), the names in it, what of it is to be
\* resolved yet, and what is resolved.
Route == [method : Methods, pattern : Patterns, given : SUBSET Middleware,
          labels : SUBSET Labelled, inputs : {Unresolved} \cup SUBSET Middleware,
          middleware : SUBSET Middleware]

RouteTypeOK ==
    /\ routes \in Seq(Route)
    /\ Len(routes) <= MaxRoutes
    /\ compiledCache # Unresolved => Len(compiledCache) = Len(routes)
    /\ belated \subseteq DOMAIN routes

RouteInit == routes = <<>> /\ compiledCache = Unresolved /\ belated = {}
-----------------------------------------------------------------------------
(***************************************************************************)
(* Matching.  Routes are named by their places in the table.               *)
(***************************************************************************)
IsStatic(pattern) == \A i \in DOMAIN pattern : pattern[i].kind = "literal"

\* The regular expression of one segment.
SegmentMatches(segment, word) ==
    \/ segment.kind = "literal" /\ word = segment.word
    \/ segment.kind = "param"
    \/ segment.kind = "mixed" /\ word \in Suffixed

Matches(pattern, path) ==
    /\ Len(pattern) = Len(path)
    /\ \A i \in DOMAIN path : SegmentMatches(pattern[i], path[i])

Dynamic(table, method) ==
    {i \in DOMAIN table : table[i].method = method /\ ~IsStatic(table[i].pattern)}

\* parseRouteSegments, of a pattern whose parameters compile() has turned into
\* ([^/]+) already: a slash in the text of each makes two words of it, and
\* literals of both.
Captures(pattern) == {i \in DOMAIN pattern : pattern[i].kind # "literal"}

Place(pattern, i) == i + Cardinality({j \in Captures(pattern) : j < i})

TrieSegments(pattern, path) ==
    /\ Len(path) = Len(pattern) + Cardinality(Captures(pattern))
    /\ \A i \in DOMAIN pattern :
          IF pattern[i].kind = "literal" THEN path[Place(pattern, i)] = pattern[i].word
          ELSE path[Place(pattern, i)] = Capture /\ path[Place(pattern, i) + 1] = Capture

\* RoutePrefixTrie: all its nodes are literal, and the routes at the end of a
\* walk are those of the same words.
TrieMatches(table, method, path) ==
    {i \in Dynamic(table, method) : TrieSegments(table[i].pattern, path)}

\* Mutant: what the trie does not find is not looked for in the patterns.
TrieOnly(table, method, path) == TrieMatches(table, method, path)

\* matchDynamicRoute: the trie, then the regular expressions in order.
DynamicMatches(table, method, path) ==
    LET found == TrieMatches(table, method, path)
    IN  IF found # {} THEN found
        ELSE {i \in Dynamic(table, method) : Matches(table[i].pattern, path)}

StaticMatches(table, method, path) ==
    {i \in DOMAIN table : /\ table[i].method = method /\ IsStatic(table[i].pattern)
                          /\ Matches(table[i].pattern, path)}

Allowed(table, method, path) ==
    {table[i].method : i \in {j \in DOMAIN table : /\ table[j].method # method
                                                   /\ Matches(table[j].pattern, path)}}

\* dispatch(): of static routes the last one added, of dynamic ones the first
\* found; otherwise 405 where another method has the path, or 404.
Answer(table, method, path) ==
    LET static == StaticMatches(table, method, path)
        dynamic == DynamicMatches(table, method, path)
    IN  IF static # {} THEN Max(static)
        ELSE IF dynamic # {} THEN Min(dynamic)
        ELSE IF Allowed(table, method, path) # {} THEN -405 ELSE -404
-----------------------------------------------------------------------------
\* Router.add, with the middleware of its groups.
AddRoute(method, pattern, given) ==
    /\ Len(routes) < MaxRoutes
    /\ routes' = Append(routes, [method |-> method, pattern |-> pattern, given |-> given,
                                 labels |-> given \cap Labelled, inputs |-> given,
                                 middleware |-> {}])
    /\ compiledCache' = Unresolved
    /\ UNCHANGED belated

\* Routable.throttle, for the route added last (bound: once).
ThrottleRoute ==
    /\ routes # <<>> /\ Throttling \notin Last(routes).labels
    /\ LET n == Len(routes) IN
        /\ routes' = [routes EXCEPT
               ![n].given = @ \cup {Throttling},
               ![n].labels = @ \cup {Throttling},
               ![n].inputs = {Throttling} \cup (IF @ = Unresolved THEN {} ELSE @)]
        /\ belated' = IF routes[n].inputs = Unresolved THEN belated \cup {n} ELSE belated
    /\ compiledCache' = Unresolved

\* resolveRouteMiddleware deletes what it resolves.
Resolved(route) ==
    IF route.inputs = Unresolved THEN route
    ELSE [route EXCEPT !.middleware = route.inputs, !.inputs = Unresolved]

\* qualifiesForJsonFastPathResolved.
Qualifies(route) ==
    /\ route.labels \cap FullStack = {}
    /\ route.method \in SafeMethods \/ route.middleware \cap Stateful = {}

\* buildPipelineMiddleware, of a route that is resolved: the JSON fast path
\* goes without the middleware that keeps state.
Pipeline(route) ==
    IF jsonFastPathEnabled /\ Qualifies(route) THEN route.middleware \ Stateful
    ELSE route.middleware

\* compile(), by a request or warmRouteCache().
Compile ==
    /\ compiledCache = Unresolved
    /\ routes' = [i \in DOMAIN routes |-> Resolved(routes[i])]
    /\ compiledCache' = [i \in DOMAIN routes |->
           [method |-> routes[i].method, pattern |-> routes[i].pattern,
            pipeline |-> Pipeline(routes'[i])]]
    /\ UNCHANGED belated

ResetRoutes ==
    /\ routes' = <<>> /\ compiledCache' = Unresolved /\ belated' = {}

RouteNext ==
    \/ \E m \in Methods, p \in Patterns : \E given \in Scopes[p] : AddRoute(m, p, given)
    \/ ThrottleRoute \/ Compile \/ ResetRoutes

RouteSpec == RouteInit /\ [][RouteNext]_routeVars
-----------------------------------------------------------------------------
\* A request runs the middleware its route was given, by the table as it is
\* now.  Only what keeps state may be left out, and nothing for the methods that
\* write or of a route that is given csrf, guest or auth by name; a route throttled
\* once the table was compiled has lost all it had before.
GivenMiddlewareRuns ==
    compiledCache # Unresolved => \A i \in DOMAIN routes :
        LET run == compiledCache[i].pipeline
            given == routes[i].given
        IN  IF i \in belated THEN run = {Throttling}
            ELSE /\ run \subseteq given /\ given \ run \subseteq Stateful
                 /\ routes[i].method \notin SafeMethods \/ given \cap FullStack # {}
                       => run = given

\* The order of registration decides among dynamic routes, backwards among
\* static ones, which go before; a method's own routes all count before those
\* of others do, and nothing that matches is answered 404.
RegistrationDecides ==
    compiledCache # Unresolved => \A m \in Methods, path \in Paths :
        LET answer == Answer(compiledCache, m, path)
            hits(method) == {i \in DOMAIN routes : /\ routes[i].method = method
                                                   /\ Matches(routes[i].pattern, path)}
        IN  IF hits(m) = {}
            THEN answer = IF \A other \in Methods : hits(other) = {} THEN -404 ELSE -405
            ELSE /\ answer \in hits(m)
                 /\ \A i \in hits(m) \ {answer} :
                        IF IsStatic(routes[answer].pattern)
                        THEN IsStatic(routes[i].pattern) => i < answer
                        ELSE ~IsStatic(routes[i].pattern) /\ answer < i

\* Which route answers a request, and through which middleware.
RouteInv == RouteTypeOK /\ GivenMiddlewareRuns /\ RegistrationDecides
=============================================================================
