------------------------------ MODULE MCRoutes ------------------------------
(* Routes with two controllers and the requests of a test for each of the  *)
(* applications.                                                           *)
EXTENDS Routes

-----------------------------------------------------------------------------
(* The net/http application: two controllers of two versions, one with a   *)
(* group.                                                                  *)

Lit(name) == [name |-> name, type |-> "literal"]
Par(name, type) == [name |-> name, type |-> type]
AppRoute(name, method, path, version, type, mws) ==
  [name |-> name, method |-> method, path |-> path, version |-> version,
   handler |-> type, mws |-> mws, query |-> FALSE, request |-> FALSE,
   doc |-> FALSE, subs |-> Nil]

Reports ==
  [path |-> <<Lit("reports")>>, mws |-> <<"jwt">>, keys |-> {"jwt"},
   routes |-> <<
     [path |-> <<Par("year", "string")>>, mws |-> <<"limit">>,
      subs |-> <<[AppRoute("month", "GET", <<Par("m", "uint")>>, "v1", "v2", <<"log">>)
                    EXCEPT !.query = TRUE, !.doc = TRUE]>>],
     [path |-> <<Lit("none")>>, mws |-> Nil, subs |-> <<>>],
     AppRoute("old", "GET", <<Par("key", "uint")>>, "v1", "v2", Nil),
     AppRoute("report", "GET", <<Par("id", "int")>>, "v1", "v2", Nil),
     [AppRoute("store", "POST", <<Par("id", "int")>>, "v1", "v2", Nil)
        EXCEPT !.request = TRUE, !.doc = TRUE],
     [AppRoute("latest", "GET", <<Lit("latest")>>, "v1", "v2", Nil) EXCEPT !.query = TRUE, !.doc = TRUE]>>]
Uploads ==
  [path |-> <<Lit("uploads")>>, mws |-> Nil, keys |-> {},
   routes |-> <<[AppRoute("upload", "POST", <<>>, "v2", "v1", <<"log">>)
                   EXCEPT !.request = TRUE, !.doc = TRUE],
                AppRoute("again", "GET", <<>>, "v1", "v2", <<"log">>),
                AppRoute("again2", "GET", <<>>, "v1", "v2", Nil)>>]
AppControllers == {Reports, Uploads}

AppOptions ==
  {o \in [globals : {<<>>, <<"limit">>}, sse : BOOLEAN, pprof : BOOLEAN,
          openapi : BOOLEAN, metas : BOOLEAN, wrappers : {<<"otel", "newrelic">>}] :
     o.metas => o.openapi /\ ~o.sse}

Get(path) == [method |-> "GET", path |-> path, query |-> "valid",
              body |-> "valid", content |-> "json", token |-> "jwt",
              preflight |-> FALSE]
AppAsk ==
  {Get(<<"ping">>), Get(<<"events">>), Get(<<"docs">>), Get(<<"v1", "none">>),
   Get(<<"v1", "reports", "latest">>), Get(<<"v1", "uploads">>)}
    \cup {Get(<<"v1", "reports", x>>) : x \in {"7", "-7", "true", "word"}}
    \cup {[Get(<<"v1", "reports", x, "7">>) EXCEPT !.query = query] :
            x \in {"7", "word"}, query \in {"valid", "invalid", "malformed"}}
    \cup {[Get(<<"v1", "reports", "7">>) EXCEPT !.method = "POST", !.body = body] :
            body \in {"valid", "invalid", "malformed"}}
    \cup {[Get(<<"v2", "uploads">>) EXCEPT !.method = "POST", !.body = body,
                                            !.content = content] :
            body \in {"valid", "invalid", "malformed"}, content \in {"json", "form", "other"}}
    \cup {[Get(<<"v1", "uploads">>) EXCEPT !.method = "PUT"],
          [Get(<<"v1", "uploads">>) EXCEPT !.preflight = TRUE],
          [Get(<<"v1", "reports", "7">>) EXCEPT !.token = Nil]}

\* The scopes that a list of routes declares inside of its own.
List(mws) == IF mws = Nil THEN <<>> ELSE mws
RECURSIVE Scopes(_, _)
Scopes(mws, routes) ==
  {[mws |-> mws, routes |-> routes]} \cup
    UNION {Scopes(mws \o List(t.mws), t.subs) : t \in {t \in Range(routes) : t.subs # Nil}}
ScopesOf(controllers) == UNION {Scopes(List(c.mws), c.routes) : c \in controllers}

AppScope == ScopesOf(AppControllers)
AppGlobal == {"notif", "trace"}

-----------------------------------------------------------------------------
(* The fasthttp application: two requests, two controllers, nested groups. *)

FastParams == {":id", ":item"}

Leaf(name, method, path, kind, mws) ==
  [name |-> name, method |-> method, path |-> path, version |-> "v1",
   kind |-> kind, mws |-> mws, subs |-> Nil]
Group(path, mws, subs) == [path |-> path, mws |-> mws, subs |-> subs]

Users ==
  [path |-> <<"users">>, mws |-> <<"jwt">>,
   routes |-> <<Group(<<":id">>, <<"limit">>,
                  <<Leaf("orders", "GET", <<"orders">>, "fast", <<"log">>),
                    Group(<<"items">>, <<>>,
                      <<Leaf("item", "GET", <<":item">>, "direct", <<>>)>>),
                    Leaf("user", "GET", <<>>, "fast", <<>>)>>),
                Group(<<"none">>, <<>>, <<>>),
                Leaf("list", "GET", <<>>, "direct", <<"log">>)>>]
Items ==
  [path |-> <<>>, mws |-> <<>>,
   routes |-> <<Leaf("any", "GET", <<":item", "7">>, "direct", <<>>),
                Leaf("put", "POST", <<"users", ":id">>, "fast", <<"static">>),
                Leaf("deep", "GET", <<"a", "b", "c">>, "fast", <<>>)>>]

FastControllers == {Users, Items}

FastScope == ScopesOf(FastControllers)

FastGet(path) == [method |-> "GET", path |-> path, token |-> "jwt", id |-> Nil]
FastAsk ==
  {FastGet(<<"ping">>), FastGet(<<"v1", "users">>), FastGet(<<"v1", "users", "7">>),
   FastGet(<<"v1", "users", "7", "orders">>), FastGet(<<"v1", "users", "7", "items", "8">>),
   FastGet(<<"v1", "users", "7", "items">>),
   FastGet(<<"v1", "users", "7", "">>), FastGet(<<"v1", "a", "b", "c">>), FastGet(<<"v1", "users", "">>),
   [FastGet(<<"v1", "users">>) EXCEPT !.token = Nil],
   [FastGet(<<"v1", "users", "7">>) EXCEPT !.method = "POST", !.token = "secret", !.id = "client"]}

\* A Response: the fields a handler has set.
Resp(fields) ==
  fields @@ [ends |-> "return", file |-> FALSE, err |-> Nil, message |-> FALSE,
             data |-> FALSE, meta |-> FALSE, paged |-> FALSE, status |-> 200]
Responses ==
  {Resp("data" :> TRUE @@ "meta" :> TRUE @@ "paged" :> TRUE),
   Resp("data" :> TRUE @@ "message" :> TRUE @@ "status" :> 201),
   Resp("file" :> TRUE), Resp("err" :> "http"), Resp("err" :> "plain"), Resp(<<>>)}
FastOutcomes == Responses \cup {Resp("ends" :> "nil"), Resp("ends" :> "panic")}

FastGlobal == {"trace"}
=============================================================================
