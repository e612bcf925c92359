-------------------------------- MODULE App --------------------------------
(***************************************************************************)
(* Setting up the net/http application and the way of a request through it *)
(* (api/app.go, api/controller.go): options, Init, global middlewares and  *)
(* controllers in any order, Start; the chi routers per version; automatic *)
(* binding of the inputs of a HandlerV2; the OpenAPI description.          *)
(* What happens between a handler and its answer is in RequestHandler.     *)
(*                                                                         *)
(* A path is a sequence of segments [name, type]: type is "literal", or    *)
(* the annotated type of a parameter, without its size, and "string" when  *)
(* it has none.                                                            *)
(***************************************************************************)
EXTENDS Naturals, FiniteSets, SequencesExt, TLC

CONSTANTS
  Options,      \* what NewApp may be given, and whether there is an
                \* AddGlobalMiddlewareMeta: [globals, sse, pprof, openapi, wrappers, metas]
  Controllers,  \* ControllerConfigs: [path, mws, routes], and the keys of UseMiddleware
  Scope,        \* [mws, routes]: the routes of a controller or a group, with the
                \* middlewares declared for it and around it
  Global,       \* middlewares for AddGlobalMiddleware
  Documented,   \* keys of the middlewares registered with a security scheme
  Ask,          \* requests: [method, path, query, body, content, token, preflight]
  Nil

VARIABLES
  options,   \* the Options of NewApp
  phase,     \* "new", "init", "started" or "panicked"
  globals,   \* App.globalMiddlewares
  todo,      \* controllers still to be added
  frames,    \* the calls of registerRoutes under way, innermost first
  root,      \* middlewares of the root router
  pending,   \* App.pendingMiddlewares
  routers,   \* App.apiRouters: the middlewares of each version's
  table,     \* the routes of all routers, by operation
  registry,  \* App.routeRegistry
  profiler,  \* /debug is mounted
  spec,      \* the OpenAPI description: [name, errors] by operation
  log,       \* history: the global middlewares added, and how many there were at
             \* Init and at the first route of each version
  served     \* a request and how it was served

routing == <<root, pending, routers, table, registry, profiler>>
vars == <<options, phase, globals, todo, frames, routing, spec, log, served>>

-----------------------------------------------------------------------------
(* Routes *)

Types == {"literal", "string", "int", "uint", "float", "bool"}
Segment == [name : STRING, type : Types]
IsParam(segment) == segment.type # "literal"
Literals(names) == [i \in DOMAIN names |-> [name |-> names[i], type |-> "literal"]]

\* stripPathParamTypes, for chi, to which the name of a parameter is no matter.
Strip(path) ==
  [i \in DOMAIN path |-> IF IsParam(path[i]) THEN [name |-> "", type |-> "string"]
                                             ELSE path[i]]

\* The place of a segment among the parameters of a path.
Nth(path, i) == Cardinality({j \in 1 .. i : IsParam(path[j])})
ParamsIn(path) == {i \in DOMAIN path : IsParam(path[i])}

\* Middlewares may be nil.  mergeMiddlewares copies: outer ones first.
List(mws) == IF mws = Nil THEN <<>> ELSE mws
Merge(a, b) == List(a) \o List(b)

Builtins == {"ping", "events", "docs"}

\* What a route of a scope may be: a leaf, or a group, which is a scope.
\* GetVersionedPath makes versions from numbers, so they are no built-in routes.
IsRoute(t, mws) ==
  /\ t.mws \in Seq(STRING) \cup {Nil}
  /\ t.path \in Seq(Segment)
  /\ t.subs = Nil => /\ t.version \in STRING \ Builtins
                     /\ t.handler \in {"v1", "v2"}
                     /\ {t.query, t.request, t.doc} \subseteq BOOLEAN
  /\ t.subs \notin {Nil, <<>>} =>
       [mws |-> mws \o List(t.mws), routes |-> t.subs] \in Scope

\* What the properties ask of the constants.
Configured ==
  /\ Nil \notin Seq(STRING) /\ Global \subseteq STRING
  /\ \A q \in Ask : q.path \in Seq(STRING)
  /\ \A o \in Options :
       /\ o.globals \in Seq(STRING) /\ o.wrappers \in Seq(STRING)
       /\ {o.sse, o.pprof, o.openapi, o.metas} \subseteq BOOLEAN
  /\ \A c \in Controllers :
       /\ c.path \in Seq(Segment) /\ c.mws \in Seq(STRING) \cup {Nil}
       /\ c.keys \subseteq STRING
       /\ [mws |-> List(c.mws), routes |-> c.routes] \in Scope
  /\ \A s \in Scope :
       /\ s.mws \in Seq(STRING) /\ s.routes \in Seq(Range(s.routes))
       /\ \A t \in Range(s.routes) : IsRoute(t, s.mws)

\* Whether a route has a RouteDoc: of its own, because the controller uses
\* registered middlewares, or for the meta data of global ones.
HasDoc(r, keys) == r.doc \/ keys # {} \/ options.metas

\* What registerRoutes registers for a leaf.  A HandlerV2 is given its meta data
\* when there is a RouteDoc; the security scheme of any middleware is given to it.
Leaf(r, prefix, mws, keys) ==
  LET path == Literals(<<r.version>>) \o prefix \o r.path
  IN [method |-> r.method, path |-> Strip(path), declared |-> path,
      name |-> r.name, chain |-> Merge(mws, r.mws),
      handler |-> IF r.handler = "v2" /\ HasDoc(r, keys) THEN "meta" ELSE r.handler,
      query |-> r.query, request |-> r.request, own |-> r.path,
      security |-> HasDoc(r, keys) /\ Documented # {}]

-----------------------------------------------------------------------------
(* Registration *)

Builtin(name, names) ==
  LET path == Literals(names)
  IN [method |-> "GET", path |-> path, declared |-> path, name |-> name,
      chain |-> <<>>, handler |-> "v1", query |-> FALSE, request |-> FALSE,
      own |-> <<>>, security |-> FALSE]
Ping == Builtin("ping", <<"ping">>)
Events == Builtin("events", <<"events">>)
MissedMsg == Builtin("missed", <<"events", "missed-msg">>)
SpecRoute == Builtin("spec", <<"docs", "openapi.json">>)
Docs == Builtin("docs", <<"docs">>)

Operation(e) == <<e.method, e.path>>

\* A map after an assignment, and a table after a route was added.
With(f, k, v) == [x \in DOMAIN f \cup {k} |-> IF x = k THEN v ELSE f[x]]
Add(t, e) == With(t, Operation(e), e)

\* initRoutes and initDefaultHandlers.
InitRoutes(t) ==
  IF options.sse THEN Add(Add(Add(t, Ping), Events), MissedMsg) ELSE Add(t, Ping)

\* flushPendingMiddlewares: chi panics when /debug is mounted again.
FlushPanics == pending /\ options.pprof /\ profiler
Flushed == IF pending THEN InitRoutes(table) ELSE table
FlushPendingMiddlewares ==
  /\ pending' = FALSE
  /\ profiler' = (profiler \/ (pending /\ options.pprof))

AddGlobalMiddleware(m) ==
  /\ phase \in {"new", "init"} /\ frames = <<>>
  /\ m \notin Range(log.added)
  /\ globals' = Append(globals, m)
  /\ pending' = TRUE
  /\ log' = [log EXCEPT !.added = Append(@, m)]
  /\ UNCHANGED <<options, phase, todo, frames, root, routers, table, registry,
                 profiler, spec, served>>

\* Mutant: the global middlewares stay in the list when they are applied.
InitAppKeeps ==
  /\ phase = "new" /\ phase' = "init"
  /\ root' = <<"logger", "recoverer", "panic">> \o globals
  /\ pending' = TRUE
  /\ log' = [log EXCEPT !.init = Len(log.added)]
  /\ UNCHANGED <<options, globals, todo, frames, routers, table, registry,
                 profiler, spec, served>>

\* Init and initPlugins.
InitApp ==
  /\ phase = "new" /\ phase' = "init"
  /\ root' = <<"logger", "recoverer", "panic">> \o globals
  /\ globals' = <<>>
  /\ pending' = TRUE
  /\ log' = [log EXCEPT !.init = Len(log.added)]
  /\ UNCHANGED <<options, todo, frames, routers, table, registry, profiler, spec,
                 served>>

\* AddController, up to its call of registerRoutes.
AddController(c) ==
  /\ phase = "init" /\ frames = <<>> /\ c \in todo
  /\ todo' = todo \ {c}
  /\ frames' = <<[prefix |-> c.path, mws |-> c.mws, routes |-> c.routes,
                  keys |-> c.keys]>>
  /\ UNCHANGED <<options, phase, globals, routing, spec, log, served>>

Top == Head(frames)
Route == Head(Top.routes)
OnTop == phase = "init" /\ frames # <<>> /\ Top.routes # <<>>
Advanced == <<[Top EXCEPT !.routes = Tail(@)]>> \o Tail(frames)

\* A route with sub-routes is a group: recursion.
EnterGroup ==
  /\ OnTop /\ Route.subs \notin {Nil, <<>>}
  /\ frames' = <<[prefix |-> Top.prefix \o Route.path,
                  mws |-> Merge(Top.mws, Route.mws), routes |-> Route.subs,
                  keys |-> Top.keys]>> \o Advanced
  /\ UNCHANGED <<options, phase, globals, todo, routing, spec, log, served>>

\* A group without sub-routes is skipped.
SkipGroup ==
  /\ OnTop /\ Route.subs = <<>>
  /\ frames' = Advanced
  /\ UNCHANGED <<options, phase, globals, todo, routing, spec, log, served>>

\* registerHandler and the entry in the registry: the first route of a version
\* makes its router, with the global middlewares there are by then.
RegisterHandler(e) ==
  LET v == e.path[1].name
  IN /\ FlushPendingMiddlewares
     /\ table' = Add(Flushed, e)
     /\ IF v \in DOMAIN routers THEN UNCHANGED <<routers, log>>
        ELSE /\ routers' = With(routers, v, globals)
             /\ log' = [log EXCEPT !.first = With(@, v, Len(log.added))]
     /\ registry' = Append(registry, e)

\* A leaf.
RegisterLeaf ==
  /\ OnTop /\ Route.subs = Nil /\ ~FlushPanics
  /\ RegisterHandler(Leaf(Route, Top.prefix, Top.mws, Top.keys))
  /\ frames' = Advanced
  /\ UNCHANGED <<options, phase, globals, todo, root, spec, served>>

\* The end of a call; AddController flushes, in case it had no leaf.
Leave ==
  /\ phase = "init" /\ frames # <<>> /\ Top.routes = <<>>
  /\ frames' = Tail(frames)
  /\ IF Tail(frames) = <<>>
     THEN ~FlushPanics /\ FlushPendingMiddlewares /\ table' = Flushed
     ELSE UNCHANGED <<pending, profiler, table>>
  /\ UNCHANGED <<options, phase, globals, todo, root, routers, registry, spec, log,
                 served>>

\* The panic of a flush reaches the caller of AddController or Start.
Panic ==
  /\ phase = "init" /\ FlushPanics
  /\ \/ OnTop /\ Route.subs = Nil
     \/ Len(frames) = 1 /\ Top.routes = <<>>
     \/ frames = <<>> /\ todo = {}
  /\ phase' = "panicked"
  /\ UNCHANGED <<options, globals, todo, frames, routing, spec, log, served>>

\* autoErrorResponses: the statuses of errors an operation is described with.
AutoErrorResponses(e) ==
  {422, 500} \cup (IF e.request \/ ParamsIn(e.own) # {} THEN {400} ELSE {})
             \cup (IF e.security THEN {401, 403} ELSE {})

\* buildOperation
BuildOperation(e) == [name |-> e.name, errors |-> AutoErrorResponses(e)]

\* The entries for an operation.
Entries(op) == {i \in DOMAIN registry : Operation(registry[i]) = op}

\* Mutant: an entry does not replace an earlier one of the same operation.
BuildOpenAPISpecKeeps ==
  [op \in {Operation(e) : e \in Range(registry)} |->
     BuildOperation(registry[Min(Entries(op))])]

\* buildOpenAPISpec: an entry replaces an earlier one of the same operation.
BuildOpenAPISpec ==
  [op \in {Operation(e) : e \in Range(registry)} |->
     BuildOperation(registry[Max(Entries(op))])]

\* Start, up to serving.
Start ==
  /\ phase = "init" /\ frames = <<>> /\ todo = {} /\ ~FlushPanics
  /\ FlushPendingMiddlewares
  /\ IF options.openapi
     THEN spec' = BuildOpenAPISpec /\ table' = Add(Add(Flushed, SpecRoute), Docs)
     ELSE spec' = spec /\ table' = Flushed
  /\ phase' = "started"
  /\ UNCHANGED <<options, globals, todo, frames, root, routers, registry, log, served>>

-----------------------------------------------------------------------------
(* Requests *)

\* chi (external): a route fits when its segments do; at the first difference
\* a literal is preferred to a parameter.
Fits(e, path) ==
  /\ Len(e.path) = Len(path)
  /\ \A i \in DOMAIN path : IsParam(e.path[i]) \/ e.path[i].name = path[i]

Prefer(e, f) ==
  \/ e = f
  \/ \E i \in DOMAIN e.path :
       /\ ~IsParam(e.path[i]) /\ IsParam(f.path[i])
       /\ \A j \in 1 .. i - 1 : IsParam(e.path[j]) <=> IsParam(f.path[j])

Candidates(q) == {e \in Range(table) : Fits(e, q.path)}
Found(q) == {e \in Candidates(q) :
               e.method = q.method
                 /\ \A f \in Candidates(q) : f.method = q.method => Prefer(e, f)}

\* The middlewares around the router: the wrappers, outermost the last one.
Outer == Reverse(options.wrappers) \o <<"cors", "secure", "init">>

\* The middlewares before a handler: those around the router, of its root, of the
\* router of the version, and the route's own.
Chain(e) ==
  LET v == e.path[1].name
  IN Outer \o root \o (IF v \in DOMAIN routers THEN routers[v] ELSE <<>>) \o e.chain

\* Whether a middleware calls the next one.
JWTAuth(q) == q.token = "jwt"
StaticAuth(q) == q.token = "secret"
Passes(m, q) == CASE m = "jwt" -> JWTAuth(q)
                  [] m = "static" -> StaticAuth(q)
                  [] m = "cors" -> ~q.preflight
                  [] OTHER -> TRUE

\* The first middleware that answers itself, or one after the last.
Stops(c, q) ==
  {i \in 1 .. Len(c) + 1 : /\ \A j \in 1 .. i - 1 : Passes(c[j], q)
                           /\ i <= Len(c) => ~Passes(c[i], q)}

\* validatePathParam: whether a value of a path parses as the type.
Parses(value, type) ==
  CASE type \in {"int", "float"} -> value \in {"7", "-7"}
    [] type = "uint" -> value = "7"
    [] type = "bool" -> value = "true"
    [] OTHER -> TRUE

\* Mutant: the last path parameter is not validated.
PathErrorButLast(e, q) ==
  \E i \in ParamsIn(e.path), k \in ParamsIn(e.own) :
    /\ Nth(e.path, i) = Nth(e.own, k) /\ Nth(e.own, k) < Cardinality(ParamsIn(e.path))
    /\ ~Parses(q.path[i], e.own[k].type)

\* wrapHandlerV2WithMeta, 1: the n-th parameter of the path is validated by the
\* n-th type of the route's own path.
PathError(e, q) ==
  \E i \in ParamsIn(e.path), k \in ParamsIn(e.own) :
    Nth(e.path, i) = Nth(e.own, k) /\ ~Parses(q.path[i], e.own[k].type)

\* 2: query parameters are bound for a type given for them, or, in a GET, for
\* the request type.
QueryError(e, q) ==
  /\ e.query \/ (e.request /\ q.method = "GET")
  /\ q.query # "valid"

\* 3: the body, always as JSON.
BodyError(e, q) ==
  /\ e.request /\ q.method \in {"POST", "PUT", "PATCH"}
  /\ q.body # "valid" \/ q.content # "json"

\* A Handler binds what it needs itself, through its Request (initRequest):
\* the body by its content type, JSON when that is another one.
ReadBody(q) ==
  IF q.content \in {"json", "other"} /\ q.body = "malformed" THEN "ERROR_PARSING_BODY"
  ELSE IF q.content = "form" /\ q.body = "malformed" THEN "ERROR_DECODE_BODY"
  ELSE IF q.body = "invalid" THEN "VALIDATION_ERROR" ELSE "called"

\* How the request is served: "called", or the error that is answered.
Result(e, q) ==
  CASE e.handler = "v1" -> IF e.request THEN ReadBody(q) ELSE "called"
    [] e.handler = "v2" -> "called"
    [] e.handler = "meta" ->
         IF PathError(e, q) THEN "ERR_INVALID_PATH_PARAM"
         ELSE IF QueryError(e, q)
              THEN IF q.query = "malformed" THEN "ERROR_PARSING_QUERY_PARAMS"
                                            ELSE "VALIDATION_ERROR"
         ELSE IF BodyError(e, q)
              THEN IF q.body = "invalid" THEN "VALIDATION_ERROR" ELSE "ERROR_PARSING_BODY"
         ELSE "called"

\* The answer of a middleware that does not call the next one.
Stopped(m) == IF m = "cors" THEN "preflight" ELSE "UNAUTHORIZED"

\* A request reaches a handler, or the n-th middleware stops it before.
Served(q, route, c, result, n) ==
  [ask |-> q, route |-> route, passed |-> SubSeq(c, 1, n - 1),
   result |-> IF n > Len(c) THEN result ELSE Stopped(c[n])]

\* Requests change nothing that others see: one is enough.
Serve(q) ==
  /\ phase = "started" /\ served = Nil
  /\ \/ \E e \in Found(q) : \E n \in Stops(Chain(e), q) :
          served' = Served(q, e, Chain(e), Result(e, q), n)
     \/ /\ Found(q) = {}
        /\ \E n \in Stops(Outer \o root, q) :
             served' = Served(q, Nil, Outer \o root,
                              IF Candidates(q) = {} THEN "ROUTE_NOT_FOUND"
                                                    ELSE "METHOD_NOT_ALLOWED", n)
  /\ UNCHANGED <<options, phase, globals, todo, frames, routing, spec, log>>

-----------------------------------------------------------------------------
Init ==
  /\ options \in Options
  /\ phase = "new"
  /\ globals = options.globals
  /\ todo = Controllers /\ frames = <<>>
  /\ root = <<>> /\ pending = FALSE /\ routers = <<>>
  /\ table = <<>> /\ registry = <<>> /\ profiler = FALSE
  /\ spec = <<>>
  /\ log = [added |-> options.globals, init |-> 0, first |-> <<>>]
  /\ served = Nil

Next == \/ \E m \in Global : AddGlobalMiddleware(m)
        \/ InitApp
        \/ \E c \in Controllers : AddController(c)
        \/ EnterGroup \/ SkipGroup \/ RegisterLeaf \/ Leave
        \/ Start \/ Panic
        \/ \E q \in Ask : Serve(q)

Spec == Init /\ [][Next]_vars

-----------------------------------------------------------------------------
(* Properties *)

\* A handler is called after these middlewares, once each and in order: those
\* around the router, the built-in ones, the global ones added before Init, and,
\* for a versioned route, the global ones added after Init and before the first
\* route of the version, then the controller's, the groups' and its own
\* (Start, initPlugins, registerHandler, registerRoutes).
MiddlewaresApplyOnce ==
  served # Nil /\ served.route # Nil
    /\ served.result \notin {"preflight", "UNAUTHORIZED"} =>
      LET v == served.route.path[1].name
          atRoot == SubSeq(log.added, 1, log.init)
          around == Outer \o (<<"logger", "recoverer", "panic">> \o atRoot)
      IN IF v \notin DOMAIN routers
         THEN served.passed = around
         ELSE \E s \in Scope : \E t \in Range(s.routes) :
                /\ t.subs = Nil /\ t.name = served.route.name
                /\ served.passed = around \o SubSeq(log.added, log.init + 1, log.first[v])
                                          \o (s.mws \o List(t.mws))

\* A HandlerV2 that has a RouteDoc is called only with a path, a query and a body
\* that have been checked, when the paths of its controller and its groups have
\* no parameters (wrapHandlerV2WithMeta).
InputsAreChecked ==
  served # Nil /\ served.route # Nil /\ served.result = "called"
    /\ served.route.handler = "meta" =>
      LET e == served.route
          q == served.ask
      IN /\ Cardinality(ParamsIn(e.own)) = Cardinality(ParamsIn(e.declared)) =>
              \A i \in DOMAIN q.path : Parses(q.path[i], e.declared[i].type)
         /\ e.request /\ q.method = "POST" => q.body = "valid"
         /\ e.query => q.query = "valid"

Status(result) ==
  CASE result \in {"ERR_INVALID_PATH_PARAM", "ERROR_PARSING_QUERY_PARAMS",
                   "ERROR_PARSING_BODY", "ERROR_DECODE_BODY"} -> 400
    [] result = "VALIDATION_ERROR" -> 422
    [] result = "UNAUTHORIZED" -> 401

\* The OpenAPI description has an operation for each request that a versioned
\* route serves, it is the one that serves it, and it lists the status of the
\* error that the application answers before the handler, unless the route has
\* only a type for its query, or is called without a scheme that is documented
\* (buildOpenAPISpec, autoErrorResponses, registerRoutes).
DescribedAsServed ==
  options.openapi /\ served # Nil /\ served.route # Nil =>
    LET e == served.route
        op == Operation(e)
    IN e.path[1].name \in DOMAIN routers =>
         /\ op \in DOMAIN spec /\ spec[op].name = e.name
         /\ served.result \notin {"called", "preflight"} =>
              \/ Status(served.result) \in spec[op].errors
              \/ e.query /\ ~e.request /\ ParamsIn(e.own) = {}
              \/ served.result = "UNAUTHORIZED" /\ ~e.security
=============================================================================
