------------------------------- MODULE FastApp -------------------------------
(***************************************************************************)
(* The native fasthttp application (api/fasthttp_app.go and                *)
(* fasthttp_middlewares.go): controllers are registered, route group by    *)
(* route group; then Handler composes the middlewares, and requests are    *)
(* served concurrently.  They share the route table and the pool of        *)
(* FastRequests.                                                           *)
(*                                                                         *)
(* A path is the sequence of its segments, a parameter of a pattern is a   *)
(* member of Params, which also is its name; a trailing slash is a last    *)
(* segment "", and no other segment is "": fasthttp normalises the paths   *)
(* of requests.  Go slices are modelled with their backing arrays, because *)
(* the chains of nested groups are built by appends to shared ones.        *)
(***************************************************************************)
EXTENDS Naturals, FiniteSets, SequencesExt, TLC

CONSTANTS
  Req,          \* requests
  Ask,          \* [method, path, token, id]: what a request may be
  Object,       \* the FastRequests that New of the pool can make
  Params,       \* parameter segments, ":id" or "{id}"
  Controllers,  \* FastControllerConfigs: [path, mws, routes]
  Scope,        \* [mws, routes]: the routes of a controller or a group, with the
                \* middlewares declared for it and around it
  Global,       \* middlewares that may be added for every request
  Outcomes,     \* what handlers do: they return a Response, see Answer, or nil, or
                \* panic: .ends is "return", "nil" or "panic"
  KeySize,      \* segments of a path that fit the key of 128 bytes
  SigningKey,   \* the environment has a key for JWTs
  Logging,      \* zerolog is not disabled
  MaxCapacity,  \* bound: spare elements of a slice that append has grown
  Nil

VARIABLES
  todo,      \* controllers still to be added
  frames,    \* the calls of registerFastRoutes under way, innermost first
  heap,      \* the backing arrays of slices of middlewares
  pending,   \* FastHttpApp.pendingMiddlewares
  globals,   \* FastHttpApp.globalMiddlewares
  exact,     \* fastRouter.exactRoutes
  params,    \* fastRouter.paramRoutes
  handler,   \* the middlewares that Handler composed, Nil before
  ask,       \* what each request is
  pc,        \* where it is
  chain,     \* the middlewares it has still to pass before the next stop
  passed,    \* history: those it has passed
  route,     \* the route it is dispatched to
  values,    \* UserValues of its ctx: path parameters
  id,        \* the request ID in its response header
  held,      \* the FastRequest it holds
  ctx,       \* the ctx of each FastRequest
  pool,      \* how often the pool holds each FastRequest
  outcome,   \* history: what its handler returned
  answer     \* what it was answered: [status, body]

setup == <<todo, frames, heap, pending, globals, exact, params, handler>>
serving == <<ask, pc, chain, passed, route, values, id, held, ctx, pool,
             outcome, answer>>
vars == <<setup, serving>>

Name == STRING \ {""}
IsPath(p) == p \in Seq(STRING) /\ \A i \in 1 .. Len(p) - 1 : p[i] # ""

\* What a route of a scope may be: a leaf, or a group, which is a scope.
IsRoute(t, mws) ==
  /\ t.mws \in Seq(STRING)
  /\ t.subs = Nil => /\ IsPath(t.path) /\ t.version \in Name
                     /\ t.kind \in {"fast", "direct"}
  /\ t.subs \notin {Nil, <<>>} =>
       /\ t.path \in Seq(Name)
       /\ [mws |-> mws \o t.mws, routes |-> t.subs] \in Scope

ASSUME FastAssumption ==
  /\ KeySize \in Nat /\ MaxCapacity \in Nat
  /\ "" \notin Params /\ Global \subseteq STRING
  /\ Nil \notin Seq(STRING) /\ "unused" \notin Req \cup {Nil}
  /\ \A q \in Ask : IsPath(q.path)
  /\ \A c \in Controllers :
       c.path \in Seq(Name) /\ [mws |-> c.mws, routes |-> c.routes] \in Scope
  /\ \A s \in Scope :
       /\ s.mws \in Seq(STRING) /\ s.routes \in Seq(Range(s.routes))
       /\ \A t \in Range(s.routes) : IsRoute(t, s.mws)
  /\ \A o \in Outcomes :
       /\ {o.file, o.message, o.data, o.meta, o.paged} \subseteq BOOLEAN
       /\ o.err \in {Nil, "http", "plain"}

-----------------------------------------------------------------------------
(* Slices *)

\* The elements of a slice.
Elements(s) == SubSeq(heap[s.array], 1, s.len)

\* append: in place when the capacity allows, else into a new array, which may
\* have room to spare.
Appended(s, ms, spare) ==
  LET n == s.len + Len(ms)
  IN IF n <= Len(heap[s.array])
     THEN [slice |-> [s EXCEPT !.len = n],
           heap  |-> [heap EXCEPT ![s.array] =
                        [i \in DOMAIN @ |-> IF i \in s.len + 1 .. n
                                            THEN ms[i - s.len] ELSE @[i]]]]
     ELSE [slice |-> [array |-> Len(heap) + 1, len |-> n],
           heap  |-> Append(heap, Elements(s) \o ms \o [i \in 1 .. spare |-> Nil])]

-----------------------------------------------------------------------------
(* Registration *)

\* GetVersionedPath.
Versioned(r, prefix) == <<r.version>> \o prefix \o r.path

\* Handle: paths with a parameter go to the list, others into the map.
Handle(e) ==
  IF \E i \in DOMAIN e.pattern : e.pattern[i] \in Params
  THEN params' = Append(params, e) /\ UNCHANGED exact
  ELSE /\ exact' = [k \in DOMAIN exact \cup {<<e.method, e.pattern>>} |->
                      IF k = <<e.method, e.pattern>> THEN e ELSE exact[k]]
       /\ UNCHANGED params

Ping == [method |-> "GET", pattern |-> <<"ping">>, name |-> "ping",
         kind |-> "ping", chain |-> <<>>]

AddGlobalMiddleware(m) ==
  /\ handler = Nil /\ frames = <<>>
  /\ ~ \E i \in DOMAIN globals : globals[i] = m
  /\ globals' = Append(globals, m)
  /\ pending' = TRUE
  /\ UNCHANGED <<todo, frames, heap, exact, params, handler, serving>>

\* flushPendingMiddlewares and initDefaultRoutes, of AddController and Handler.
FlushPendingMiddlewares ==
  /\ pending' = FALSE
  /\ IF pending THEN Handle(Ping) ELSE UNCHANGED <<exact, params>>

\* AddController, up to its call of registerFastRoutes.  The slice of the
\* controller's middlewares may have room to spare.
AddController(c) ==
  /\ handler = Nil /\ frames = <<>> /\ c \in todo
  /\ FlushPendingMiddlewares
  /\ todo' = todo \ {c}
  /\ \E spare \in 0 .. MaxCapacity :
       heap' = Append(heap, c.mws \o [i \in 1 .. spare |-> Nil])
  /\ frames' = <<[prefix |-> c.path, routes |-> c.routes,
                  mws |-> [array |-> Len(heap) + 1, len |-> Len(c.mws)]]>>
  /\ UNCHANGED <<globals, handler, serving>>

Top == Head(frames)
Route == Head(Top.routes)
IsGroup == Route.subs \notin {Nil, <<>>}
OnTop == frames # <<>> /\ Top.routes # <<>>
Rest == [Top EXCEPT !.routes = Tail(@)]
Advanced == <<Rest>> \o Tail(frames)

\* A route with sub-routes is a group: recursion.
EnterGroup ==
  /\ OnTop /\ IsGroup
  /\ \E spare \in 0 .. MaxCapacity :
       LET merged == Appended(Top.mws, Route.mws, spare)
       IN /\ heap' = merged.heap
          /\ frames' = <<[prefix |-> Top.prefix \o Route.path,
                          mws |-> merged.slice, routes |-> Route.subs]>> \o Advanced
  /\ UNCHANGED <<todo, pending, globals, exact, params, handler, serving>>

\* A group without sub-routes is skipped.
SkipGroup ==
  /\ OnTop /\ Route.subs = <<>>
  /\ frames' = Advanced
  /\ UNCHANGED <<todo, heap, pending, globals, exact, params, handler, serving>>

Entry(mws) ==
  [method |-> Route.method, pattern |-> Versioned(Route, Top.prefix),
   name |-> Route.name, kind |-> Route.kind, chain |-> mws]

\* Mutant: `parentMiddlewares = append(parentMiddlewares, ...)'.
RegisterLeafKeeps ==
  /\ OnTop /\ Route.subs = Nil
  /\ \E spare \in 0 .. MaxCapacity :
       LET all == Appended(Top.mws, Route.mws, spare)
       IN /\ heap' = all.heap
          /\ Handle(Entry(SubSeq(all.heap[all.slice.array], 1, all.slice.len)))
          /\ frames' = <<[Rest EXCEPT !.mws = all.slice]>> \o Tail(frames)
  /\ UNCHANGED <<todo, pending, globals, handler, serving>>

\* A leaf: its handler is wrapped by the middlewares there and then.
RegisterLeaf ==
  /\ OnTop /\ Route.subs = Nil
  /\ \E spare \in 0 .. MaxCapacity :
       LET all == Appended(Top.mws, Route.mws, spare)
       IN /\ heap' = all.heap
          /\ Handle(Entry(SubSeq(all.heap[all.slice.array], 1, all.slice.len)))
          /\ frames' = Advanced
  /\ UNCHANGED <<todo, pending, globals, handler, serving>>

Leave ==
  /\ frames # <<>> /\ Top.routes = <<>>
  /\ frames' = Tail(frames)
  /\ UNCHANGED <<todo, heap, pending, globals, exact, params, handler, serving>>

\* Handler, once: global middlewares are those there are by now.  The heap is
\* garbage from here on.
ComposeHandler ==
  /\ handler = Nil /\ frames = <<>> /\ todo = {}
  /\ FlushPendingMiddlewares
  /\ handler' = globals
  /\ heap' = <<>>
  /\ UNCHANGED <<todo, frames, globals, serving>>

-----------------------------------------------------------------------------
(* Matching *)

\* Segments at which the scan of a pattern ends: the literal is another one, or
\* the pattern is exhausted, and pattern[pi] is out of range.
Differs(p, path) ==
  {i \in 1 .. Len(path) : /\ i <= Len(p) /\ p[i] \notin Params /\ p[i] # path[i]
                          /\ p[i] # ""}
Overruns(p, path) ==
  {i \in 1 .. Len(path) : path[i] # "" /\ (i > Len(p) \/ p[i] = "")}

Panics(p, path) ==
  \E i \in Overruns(p, path) : \A j \in Differs(p, path) : i < j

\* Mutant: the check that the pattern is exhausted is missing.
MatchesPrefix(p, path) == Differs(p, path) \cup Overruns(p, path) = {}

\* The result of matchParamPath when it does not panic.
Matches(p, path) ==
  /\ Differs(p, path) \cup Overruns(p, path) = {}
  /\ \A i \in Len(path) + 1 .. Len(p) : p[i] = ""

\* The segments it has put under the key k of UserValues when it ends.
Captures(p, path, k) ==
  {i \in DOMAIN p \cap DOMAIN path :
     p[i] = k /\ \A j \in Differs(p, path) \cup Overruns(p, path) : i < j}

\* The routes at which the loop over paramRoutes ends, for a request that is q,
\* and those it tries: up to the first of these.
Hits(q) ==
  {i \in DOMAIN params :
     /\ params[i].method = q.method
     /\ Matches(params[i].pattern, q.path) \/ Panics(params[i].pattern, q.path)}
Tried(q) ==
  {i \in DOMAIN params : params[i].method = q.method /\ \A j \in Hits(q) : i <= j}

\* The UserValues it leaves: of a key that several set, the last.
SetUserValues(q, old) ==
  [k \in Params |->
     LET setters == {i \in Tried(q) : Captures(params[i].pattern, q.path, k) # {}}
     IN IF setters = {} THEN old[k]
        ELSE q.path[Max(Captures(params[Max(setters)].pattern, q.path, k))]]

\* The key of exactRoutes, which may be cut off.
Key(q) ==
  <<q.method, SubSeq(q.path, 1, IF Len(q.path) < KeySize THEN Len(q.path) ELSE KeySize)>>

-----------------------------------------------------------------------------
(* Answers *)

\* Mutant: a page is sent without its metadata.
AnswerWithoutMeta(resp) ==
  IF resp.file \/ resp.err # Nil \/ resp.message \/ ~resp.data
  THEN [status |-> IF resp.err # Nil THEN 422 ELSE resp.status,
        body |-> IF resp.message THEN "message" ELSE "error"]
  ELSE [status |-> resp.status, body |-> "data"]

\* fastSendResponse.  A status of 0 is sent as 200.
Answer(resp) ==
  CASE resp.file -> [status |-> resp.status, body |-> "file"]
    [] ~resp.file /\ resp.err = "http" -> [status |-> 422, body |-> "error"]
    [] ~resp.file /\ resp.err = "plain" -> [status |-> 200, body |-> "none"]
    [] OTHER ->
         IF resp.message THEN [status |-> resp.status, body |-> "message"]
         ELSE IF resp.data
              THEN [status |-> resp.status,
                    body |-> IF resp.meta /\ resp.paged THEN "page" ELSE "data"]
              ELSE [status |-> 204, body |-> "none"]

\* Response.Send of the other application, after handleResponseError.
SendOfApp(resp) ==
  CASE resp.file -> [status |-> resp.status, body |-> "file"]
    [] ~resp.file /\ resp.err = "http" -> [status |-> 422, body |-> "error"]
    [] ~resp.file /\ resp.err = "plain" -> [status |-> 500, body |-> "error"]
    [] OTHER ->
         [status |-> resp.status,
          body |-> IF resp.message THEN "message"
                   ELSE IF ~resp.data THEN "none"
                   ELSE IF resp.meta /\ resp.paged THEN "page" ELSE "data"]

\* The answer of fastPanicHandler, of the router and of the middlewares.
Error(status) == [status |-> status, body |-> "error"]

FastStaticAuth(q) == q.token = "secret"
FastJWTAuth(q) == SigningKey /\ q.token = "jwt"

\* Whether a middleware may call the next one.
Passes(m, q) == CASE m = "static" -> FastStaticAuth(q)
                  [] m = "jwt" -> FastJWTAuth(q)
                  [] OTHER -> TRUE

\* What it may answer instead: a rate limiter may always do so.
Rejections(m, q) == CASE m = "limit" -> {Error(429)}
                      [] m # "limit" /\ Passes(m, q) -> {}
                      [] OTHER -> {Error(401)}

-----------------------------------------------------------------------------
(* Serving *)

Move(r, from, to) == pc[r] = from /\ pc' = [pc EXCEPT ![r] = to]

\* fastInitHandler gives a request its ID; fastRequestLogger writes the one of
\* the request over it.
Arrive(r, q) ==
  /\ handler # Nil
  /\ Move(r, "idle", "global")
  /\ ask' = [ask EXCEPT ![r] = q]
  /\ id' = [id EXCEPT ![r] = IF q.id # Nil THEN q.id
                             ELSE IF Logging /\ q.path # <<"ping">>
                                  THEN Nil ELSE "generated"]
  /\ chain' = [chain EXCEPT ![r] = handler]
  /\ UNCHANGED <<setup, passed, route, values, held, ctx, pool, outcome, answer>>

\* A middleware calls the next one.
Pass(r) ==
  /\ pc[r] \in {"global", "route"} /\ chain[r] # <<>>
  /\ Passes(Head(chain[r]), ask[r])
  /\ chain' = [chain EXCEPT ![r] = Tail(@)]
  /\ passed' = [passed EXCEPT ![r] = Append(@, Head(chain[r]))]
  /\ UNCHANGED <<setup, ask, pc, route, values, id, held, ctx, pool, outcome, answer>>

\* A middleware answers.
Reject(r) ==
  /\ pc[r] \in {"global", "route"} /\ chain[r] # <<>>
  /\ \E a \in Rejections(Head(chain[r]), ask[r]) :
       answer' = [answer EXCEPT ![r] = a]
  /\ pc' = [pc EXCEPT ![r] = "rejected"]
  /\ UNCHANGED <<setup, ask, chain, passed, route, values, id, held, ctx, pool, outcome>>

\* fastRouter.ServeHTTP: the map first, then the parametric routes in order.  The
\* panic of a match is recovered.
Dispatch(r) ==
  LET q == ask[r]
      To(e) == /\ pc' = [pc EXCEPT ![r] = "route"]
               /\ route' = [route EXCEPT ![r] = e]
               /\ chain' = [chain EXCEPT ![r] = e.chain]
               /\ UNCHANGED answer
      Fail(where, status) == /\ pc' = [pc EXCEPT ![r] = where]
                             /\ answer' = [answer EXCEPT ![r] = Error(status)]
                             /\ UNCHANGED <<route, chain>>
      First(i) == \A j \in Hits(q) : i <= j
  IN /\ pc[r] = "global" /\ chain[r] = <<>>
     /\ \/ Key(q) \in DOMAIN exact /\ To(exact[Key(q)]) /\ UNCHANGED values
        \/ /\ Key(q) \notin DOMAIN exact
           /\ values' = [values EXCEPT ![r] = SetUserValues(q, @)]
           /\ \/ Hits(q) = {} /\ Fail("none", 404)
              \/ \E i \in Hits(q) :
                   /\ First(i)
                   /\ IF Matches(params[i].pattern, q.path)
                      THEN To(params[i]) ELSE Fail("panic", 500)
     /\ UNCHANGED <<setup, ask, passed, id, held, ctx, pool, outcome>>

\* The handler of /ping needs no FastRequest.
AnswerPing(r) ==
  /\ Move(r, "route", "done")
  /\ chain[r] = <<>> /\ route[r].kind = "ping"
  /\ answer' = [answer EXCEPT ![r] = [status |-> 200, body |-> "message"]]
  /\ UNCHANGED <<setup, ask, chain, passed, route, values, id, held, ctx, pool, outcome>>

\* Mutant: it is put back before the handler runs.
ObtainAndPut(r) ==
  /\ Move(r, "route", "handler")
  /\ chain[r] = <<>> /\ route[r].kind # "ping"
  /\ \E o \in Object :
       /\ pool[o] > 0 \/ ctx[o] = "unused"
       /\ pool' = [pool EXCEPT ![o] = IF @ > 0 THEN @ ELSE 1]
       /\ ctx' = [ctx EXCEPT ![o] = r]
       /\ held' = [held EXCEPT ![r] = o]
  /\ UNCHANGED <<setup, ask, chain, passed, route, values, id, outcome, answer>>

\* The wrapper of a handler gets a FastRequest from the pool.
Obtain(r) ==
  /\ Move(r, "route", "handler")
  /\ chain[r] = <<>> /\ route[r].kind # "ping"
  /\ \E o \in Object :
       /\ pool[o] > 0 \/ ctx[o] = "unused"
       /\ pool' = [pool EXCEPT ![o] = IF @ > 0 THEN @ - 1 ELSE 0]
       /\ ctx' = [ctx EXCEPT ![o] = r]
       /\ held' = [held EXCEPT ![r] = o]
  /\ UNCHANGED <<setup, ask, chain, passed, route, values, id, outcome, answer>>

\* How often a FastRequest is released after the handler's outcome o: always
\* by the defer of wrapFastHandler; wrapDirectHandler does it at the end.
Released(r, o) ==
  IF route[r].kind = "direct" /\ o.ends # "return" THEN 0 ELSE 1

\* The handler returns or panics.  A nil result panics too, when its TraceId is
\* set or it is released; the answer of a panic is fastPanicHandler's.
Return(r) ==
  /\ Move(r, "handler", "done")
  /\ \E o \in Outcomes :
       /\ outcome' = [outcome EXCEPT ![r] = o]
       /\ answer' = [answer EXCEPT ![r] = IF o.ends = "return"
                                          THEN Answer(o) ELSE Error(500)]
       /\ pool' = [pool EXCEPT ![held[r]] = @ + Released(r, o)]
       /\ ctx' = [ctx EXCEPT ![held[r]] = IF Released(r, o) > 0 THEN Nil ELSE @]
  /\ held' = [held EXCEPT ![r] = Nil]
  /\ UNCHANGED <<setup, ask, chain, passed, route, values, id>>

-----------------------------------------------------------------------------
Init ==
  /\ todo = Controllers /\ frames = <<>> /\ heap = <<>>
  /\ pending = TRUE /\ globals = <<>> /\ handler = Nil
  /\ exact = <<>> /\ params = <<>>
  /\ ask = [r \in Req |-> Nil]
  /\ pc = [r \in Req |-> "idle"]
  /\ chain = [r \in Req |-> <<>>] /\ passed = [r \in Req |-> <<>>]
  /\ route = [r \in Req |-> Nil]
  /\ values = [r \in Req |-> [k \in Params |-> Nil]]
  /\ id = [r \in Req |-> Nil]
  /\ held = [r \in Req |-> Nil]
  /\ ctx = [o \in Object |-> "unused"] /\ pool = [o \in Object |-> 0]
  /\ outcome = [r \in Req |-> Nil] /\ answer = [r \in Req |-> Nil]

Register == \/ \E m \in Global : AddGlobalMiddleware(m)
            \/ \E c \in Controllers : AddController(c)
            \/ EnterGroup \/ SkipGroup \/ RegisterLeaf \/ Leave
            \/ ComposeHandler

Serve(r) == \/ \E q \in Ask : Arrive(r, q)
            \/ Pass(r) \/ Reject(r) \/ Dispatch(r)
            \/ AnswerPing(r) \/ Obtain(r) \/ Return(r)

Next == Register \/ \E r \in Req : Serve(r)

Spec == Init /\ [][Next]_vars

-----------------------------------------------------------------------------
(* Properties *)

\* A pattern fits a path: as many segments, each a parameter or the same.
Trimmed(s) == IF s # <<>> /\ Last(s) = "" THEN Front(s) ELSE s
Alike(s, t) == /\ Len(s) = Len(t)
               /\ \A i \in DOMAIN s : s[i] \in Params \/ s[i] = t[i]
Fits(p, path) == \/ Alike(p, path) \/ Alike(Trimmed(p), path)
                 \/ Alike(Trimmed(p), Trimmed(path))

Exactly(q) == {e \in Range(exact) : e.method = q.method /\ e.pattern = q.path}
TooLong(q) == Len(q.path) > KeySize
Suitable(q) ==
  {i \in DOMAIN params : params[i].method = q.method /\ Fits(params[i].pattern, q.path)}

\* The path's own parameters; of a name that the pattern has twice, the last.
OwnValues(p, path, vals) ==
  \A k \in DOMAIN p \cap DOMAIN path :
    p[k] \in Params /\ (\A l \in k + 1 .. Len(p) : p[l] # p[k]) => vals[p[k]] = path[k]

IsServed(q, e, vals) ==
  \/ e \in Exactly(q)
  \/ TooLong(q) /\ e \in Range(exact) /\ IsPrefix(e.pattern, q.path)
  \/ /\ Exactly(q) = {} \/ TooLong(q)
     /\ \E i \in Suitable(q) : /\ e = params[i] /\ \A j \in Suitable(q) : i <= j
                               /\ OwnValues(e.pattern, q.path, vals)

\* A request gets the exact route that has its path, otherwise the first
\* registered route that its path fits, with the path's own parameters; "not
\* found" means that none does.  Two exceptions: a path that is too long for the
\* key is looked up as the part of it that fits, and one that goes on after the
\* end of a parametric route registered before makes the match panic
\* (ServeHTTP, matchParamPath).
ServedByItsRoute ==
  \A r \in Req :
    LET q == ask[r]
    IN /\ pc[r] \in {"route", "handler"} => IsServed(q, route[r], values[r])
       /\ pc[r] = "none" => Suitable(q) = {} /\ (Exactly(q) = {} \/ TooLong(q))
       /\ pc[r] = "panic" =>
            \E i \in DOMAIN params :
              /\ params[i].method = q.method
              /\ \E n \in 1 .. Len(q.path) - 1 :
                   Fits(params[i].pattern, SubSeq(q.path, 1, n))

\* A handler is run after all global middlewares and all those of its
\* controller, its groups and its route have passed, in this order, and after
\* no other: no append to a shared array, and no sibling, changes a chain
\* (registerFastRoutes, Handler).
ChainIsOwn ==
  \A r \in Req : pc[r] = "handler" =>
    \E s \in Scope : \E t \in Range(s.routes) :
      /\ t.subs = Nil /\ t.name = route[r].name
      /\ passed[r] = globals \o s.mws \o t.mws

\* A handler sees the ctx of its own request through its FastRequest, although
\* FastRequests are recycled and a panic keeps one from the pool.
HandlerSeesOwnContext ==
  \A r \in Req : pc[r] = "handler" => ctx[held[r]] = r

\* A Response is answered as the other application would answer it, unless it
\* is empty or has an error that is not an HttpError (fastSendResponse and
\* Response.Send).
AnsweredAsByApp ==
  \A r \in Req :
    outcome[r] # Nil /\ outcome[r].ends = "return" =>
      \/ answer[r] = SendOfApp(outcome[r])
      \/ ~outcome[r].file /\ outcome[r].err = "plain"
      \/ outcome[r].err = Nil /\ ~outcome[r].message /\ ~outcome[r].data
=============================================================================
