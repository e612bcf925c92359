----------------------------- MODULE RoutesProofs -----------------------------
(***************************************************************************)
(* Proofs about the net/http application, for any controllers with groups  *)
(* of any depth, any middlewares and any request: which middlewares a      *)
(* handler is called after, with which inputs, and that the OpenAPI        *)
(* description is of what is served.  They are proved of App's own         *)
(* specification, which RoutesSpec implements, as it does that of FastApp, *)
(* see FastAppProofs.                                                      *)
(***************************************************************************)
EXTENDS Routes, SequenceLemmas, FiniteSetTheorems

MaybeNil == Seq(STRING) \cup {Nil}
Routing == UNION {Seq(Range(s.routes)) : s \in WebScope}

\* A call of registerRoutes, and one that is of the scope s.
Frame == [prefix : Seq(Web!Segment), mws : MaybeNil, routes : Routing, keys : SUBSET STRING]
IsFrameOf(f, s) == Web!List(f.mws) = s.mws /\ f.routes \in Seq(Range(s.routes))

\* A route's whole path: the version, what the controller and the groups put
\* before it, and its own.
Declared(v, prefix, own) == Web!Literals(<<v>>) \o prefix \o own

\* What a leaf of a scope is registered as.
IsLeafOf(e, s, t) ==
  /\ t.subs = Nil /\ e.name = t.name
  /\ e.chain = s.mws \o Web!List(t.mws)
  /\ e.own = t.path /\ e.path = Web!Strip(e.declared)
  /\ \E prefix \in Seq(Web!Segment) : e.declared = Declared(t.version, prefix, t.path)
  /\ e.handler \in {"v1", "v2", "meta"}
IsLeaf(e) == \E s \in WebScope : \E t \in Range(s.routes) : IsLeafOf(e, s, t)

IsBuiltin(e) == e \in {Web!Ping, Web!Events, Web!MissedMsg, Web!SpecRoute, Web!Docs}

Version(e) == e.path[1].name

(***************************************************************************)
(* The calls of registerRoutes.                                            *)
(***************************************************************************)
\* Every call has the middlewares and the routes of a scope.
WebFramesInv ==
  /\ webFrames \in Seq(Frame)
  /\ \A f \in Range(webFrames) : \E s \in WebScope : IsFrameOf(f, s)

\* What is assumed of a scope.
LEMMA ScopeIs ==
  ASSUME NEW s \in WebScope
  PROVE  /\ s.mws \in Seq(STRING) /\ s.routes \in Seq(Range(s.routes))
         /\ \A t \in Range(s.routes) : Web!IsRoute(t, s.mws)
BY WebAssumption DEF Web!Configured, Web!Range, Range

\* Lists of middlewares.
LEMMA ListIs ==
  /\ \A m \in MaybeNil : Web!List(m) \in Seq(STRING)
  /\ \A m \in Seq(STRING) : m \in MaybeNil /\ Web!List(m) = m
<1>1. <<>> \in Seq(STRING) /\ Nil \notin Seq(STRING)
  BY EmptySeq, WebAssumption DEF Web!Configured
<1>2. QED
  BY <1>1 DEF MaybeNil, Web!List

\* A call is made, or goes on.
LEMMA RangePush ==
  ASSUME NEW S, NEW s \in Seq(S), NEW x \in S
  PROVE  /\ <<x>> \o s \in Seq(S) /\ Range(<<x>> \o s) = {x} \cup Range(s)
<1>1. <<x>> \in Seq(S) /\ Range(<<x>>) = {x}
  BY DEF Range
<1>2. PICK u \in Seq(S) : u = <<x>> /\ Range(u) = {x}
  BY <1>1
<1>3. u \o s \in Seq(S) /\ Range(u \o s) = Range(u) \cup Range(s)
  BY ConcatProperties, RangeConcat
<1>4. QED
  BY <1>2, <1>3

\* What the innermost call is of, and what is left when it goes on.
LEMMA WebTopIs ==
  ASSUME WebFramesInv, Web!OnTop
  PROVE  /\ Web!Top \in Frame /\ Web!Advanced \in Seq(Frame)
         /\ \A f \in Range(Web!Advanced) : \E s \in WebScope : IsFrameOf(f, s)
         /\ \E s \in WebScope : IsFrameOf(Web!Top, s) /\ Web!Route \in Range(s.routes)
<1>1. webFrames \in Seq(Frame) /\ webFrames # <<>> /\ Web!Top.routes # <<>>
  BY DEF WebFramesInv, Web!OnTop
<1>2. /\ Web!Top \in Frame /\ Tail(webFrames) \in Seq(Frame)
      /\ Range(webFrames) = {Web!Top} \cup Range(Tail(webFrames))
  BY <1>1, HeadTailProperties, RangeHeadTail DEF Web!Top
<1>3. PICK s \in WebScope : IsFrameOf(Web!Top, s)
  BY <1>2 DEF WebFramesInv
<1>4. /\ Head(Web!Top.routes) \in Range(s.routes)
      /\ Tail(Web!Top.routes) \in Seq(Range(s.routes))
  BY <1>1, <1>3, HeadTailProperties DEF IsFrameOf
<1>5. PICK f \in Frame : /\ f = [Web!Top EXCEPT !.routes = Tail(@)]
                         /\ f.mws = Web!Top.mws /\ f.routes = Tail(Web!Top.routes)
  <2> DEFINE f == [Web!Top EXCEPT !.routes = Tail(@)]
  <2>1. Tail(Web!Top.routes) \in Routing
    BY <1>4 DEF Routing
  <2>2. f \in Frame /\ f.mws = Web!Top.mws /\ f.routes = Tail(Web!Top.routes)
    BY <1>2, <2>1 DEF Frame
  <2>3. QED
    BY <2>2
<1>6. IsFrameOf(f, s)
  BY <1>3, <1>4, <1>5 DEF IsFrameOf
<1>7. /\ Web!Advanced \in Seq(Frame)
      /\ Range(Web!Advanced) = {f} \cup Range(Tail(webFrames))
  BY <1>2, <1>5, RangePush DEF Web!Advanced
<1>8. QED
  BY <1>2, <1>3, <1>4, <1>6, <1>7 DEF Web!Route, WebFramesInv

\* A controller's call is of its scope.
LEMMA AddControllerKeepsCalls ==
  ASSUME WebFramesInv, NEW c \in WebControllers, Web!AddController(c)
  PROVE  WebFramesInv'
<1>1. /\ c.path \in Seq(Web!Segment) /\ c.mws \in MaybeNil /\ c.keys \subseteq STRING
      /\ [mws |-> Web!List(c.mws), routes |-> c.routes] \in WebScope
  BY WebAssumption DEF Web!Configured, MaybeNil
<1>2. PICK s \in WebScope : s.mws = Web!List(c.mws) /\ s.routes = c.routes
  BY <1>1
<1>3. c.routes \in Seq(Range(s.routes)) /\ c.routes \in Routing
  BY <1>2, ScopeIs DEF Routing
<1>4. PICK f \in Frame : /\ f = [prefix |-> c.path, mws |-> c.mws, routes |-> c.routes,
                                 keys |-> c.keys]
                         /\ f.mws = c.mws /\ f.routes = c.routes
  <2> DEFINE f == [prefix |-> c.path, mws |-> c.mws, routes |-> c.routes,
                   keys |-> c.keys]
  <2>1. f \in Frame /\ f.mws = c.mws /\ f.routes = c.routes
    BY <1>1, <1>3 DEF Frame
  <2>2. QED
    BY <2>1
<1>5. webFrames' = <<f>>
  BY <1>4 DEF Web!AddController
<1>6. webFrames' \in Seq(Frame) /\ Range(webFrames') = {f}
  BY <1>5 DEF Range
<1>7. IsFrameOf(f, s)
  BY <1>2, <1>3, <1>4 DEF IsFrameOf
<1>8. QED
  BY <1>6, <1>7 DEF WebFramesInv

\* A group's call is of the group's scope.
LEMMA EnterGroupKeepsCalls ==
  ASSUME WebFramesInv, Web!EnterGroup
  PROVE  WebFramesInv'
<1>1. Web!OnTop /\ Web!Route.subs \notin {Nil, <<>>}
  BY DEF Web!EnterGroup
<1>2. PICK s \in WebScope : IsFrameOf(Web!Top, s) /\ Web!Route \in Range(s.routes)
  BY <1>1, WebTopIs
<1>3. /\ Web!Route.mws \in MaybeNil /\ Web!Route.path \in Seq(Web!Segment)
      /\ [mws |-> s.mws \o Web!List(Web!Route.mws), routes |-> Web!Route.subs] \in WebScope
  BY <1>1, <1>2, ScopeIs DEF Web!IsRoute, MaybeNil
<1>4. PICK g \in WebScope : /\ g.mws = s.mws \o Web!List(Web!Route.mws)
                            /\ g.routes = Web!Route.subs
  BY <1>3
<1>5. /\ Web!Top.prefix \o Web!Route.path \in Seq(Web!Segment)
      /\ Web!Top.keys \subseteq STRING
  BY <1>1, <1>3, WebTopIs, ConcatProperties DEF Frame
<1>6. /\ Web!Merge(Web!Top.mws, Web!Route.mws) = g.mws
      /\ g.mws \in MaybeNil /\ Web!List(g.mws) = g.mws
      /\ g.routes \in Seq(Range(g.routes)) /\ g.routes \in Routing
  BY <1>2, <1>4, ScopeIs, ListIs DEF Web!Merge, IsFrameOf, Routing
<1>7. PICK f \in Frame : /\ f = [prefix |-> Web!Top.prefix \o Web!Route.path,
                                 mws |-> Web!Merge(Web!Top.mws, Web!Route.mws),
                                 routes |-> Web!Route.subs, keys |-> Web!Top.keys]
                         /\ f.mws = g.mws /\ f.routes = g.routes
  <2> DEFINE f == [prefix |-> Web!Top.prefix \o Web!Route.path,
                   mws |-> Web!Merge(Web!Top.mws, Web!Route.mws),
                   routes |-> Web!Route.subs, keys |-> Web!Top.keys]
  <2>1. f \in Frame /\ f.mws = g.mws /\ f.routes = g.routes
    BY <1>4, <1>5, <1>6 DEF Frame
  <2>2. QED
    BY <2>1
<1>8. IsFrameOf(f, g)
  BY <1>6, <1>7 DEF IsFrameOf
<1>9. webFrames' = <<f>> \o Web!Advanced
  BY <1>7 DEF Web!EnterGroup
<1>10. webFrames' \in Seq(Frame) /\ Range(webFrames') = {f} \cup Range(Web!Advanced)
  BY <1>1, <1>9, WebTopIs, RangePush
<1>11. QED
  BY <1>1, <1>8, <1>10, WebTopIs DEF WebFramesInv

\* A call goes on or ends.
LEMMA OtherStepsKeepCalls ==
  ASSUME WebFramesInv, Web!SkipGroup \/ Web!RegisterLeaf \/ Web!Leave
  PROVE  WebFramesInv'
<1>1. CASE Web!SkipGroup \/ Web!RegisterLeaf
  <2>1. Web!OnTop /\ webFrames' = Web!Advanced
    BY <1>1 DEF Web!SkipGroup, Web!RegisterLeaf
  <2>2. QED
    BY <2>1, WebTopIs DEF WebFramesInv
<1>2. CASE Web!Leave
  <2>1. webFrames # <<>> /\ webFrames' = Tail(webFrames)
    BY <1>2 DEF Web!Leave
  <2>2. /\ Tail(webFrames) \in Seq(Frame)
        /\ Range(Tail(webFrames)) \subseteq Range(webFrames)
    BY <2>1, HeadTailProperties, RangeHeadTail DEF WebFramesInv
  <2>3. QED
    BY <2>1, <2>2 DEF WebFramesInv
<1>3. QED
  BY <1>1, <1>2

(***************************************************************************)
(* What is registered.                                                     *)
(***************************************************************************)
\* The first segment of a route's path.
VersionSegment(v) == [name |-> v, type |-> "literal"]

\* A version is a segment.
LEMMA VersionIsSegment ==
  ASSUME NEW v \in STRING
  PROVE  VersionSegment(v) \in Web!Segment
BY DEF Web!Segment, Web!Types, VersionSegment

\* Where the parts of a route's path are.
LEMMA DeclaredIs ==
  ASSUME NEW v \in STRING, NEW prefix \in Seq(Web!Segment), NEW own \in Seq(Web!Segment)
  PROVE  /\ Declared(v, prefix, own) \in Seq(Web!Segment)
         /\ Len(Declared(v, prefix, own)) = 1 + Len(prefix) + Len(own)
         /\ Declared(v, prefix, own)[1] = VersionSegment(v)
         /\ \A k \in 1 .. Len(own) :
              Declared(v, prefix, own)[1 + Len(prefix) + k] = own[k]
<1>0. PICK d : d = Declared(v, prefix, own)
  OBVIOUS
<1>1. PICK x \in Web!Segment : x = VersionSegment(v)
  BY VersionIsSegment
<1>2. PICK l \in Seq(Web!Segment) : l = Web!Literals(<<v>>) /\ Len(l) = 1 /\ l[1] = x
  <2>1. Web!Literals(<<v>>) = [i \in 1 .. 1 |-> x]
    <3>1. DOMAIN <<v>> = 1 .. 1 /\ \A i \in 1 .. 1 : <<v>>[i] = v
      OBVIOUS
    <3>2. QED
      BY <1>1, <3>1, Zenon DEF Web!Literals, VersionSegment
  <2>2. [i \in 1 .. 1 |-> x] \in Seq(Web!Segment)
    BY SeqDef
  <2>3. Len([i \in 1 .. 1 |-> x]) = 1
    BY <2>2, LenProperties
  <2>4. [i \in 1 .. 1 |-> x][1] = x
    OBVIOUS
  <2>5. QED
    BY <2>1, <2>2, <2>3, <2>4, Zenon
<1>3. PICK a \in Seq(Web!Segment) :
        /\ a = l \o prefix /\ Len(a) = 1 + Len(prefix) /\ a[1] = x
  <2>1. /\ l \o prefix \in Seq(Web!Segment) /\ Len(l \o prefix) = Len(l) + Len(prefix)
        /\ \A i \in 1 .. Len(l) + Len(prefix) :
             (l \o prefix)[i] = IF i <= Len(l) THEN l[i] ELSE prefix[i - Len(l)]
    BY ConcatProperties
  <2>2. Len(prefix) \in Nat
    BY LenProperties
  <2>3. 1 \in 1 .. Len(l) + Len(prefix) /\ 1 <= Len(l)
    BY <1>2, <2>2
  <2>4. (l \o prefix)[1] = x
    BY <1>2, <2>1, <2>3, Zenon
  <2>5. QED
    BY <1>2, <2>1, <2>4, Zenon
<1>4. d = a \o own
  BY <1>0, <1>2, <1>3 DEF Declared
<1>5. /\ a \o own \in Seq(Web!Segment) /\ Len(a \o own) = Len(a) + Len(own)
      /\ \A i \in 1 .. Len(a) + Len(own) :
           (a \o own)[i] = IF i <= Len(a) THEN a[i] ELSE own[i - Len(a)]
  BY ConcatProperties
<1>6. Len(prefix) \in Nat /\ Len(own) \in Nat
  BY LenProperties
<1>7. d[1] = x
  <2>1. 1 \in 1 .. Len(a) + Len(own) /\ 1 <= Len(a)
    BY <1>3, <1>6
  <2>2. QED
    BY <1>3, <1>4, <1>5, <2>1, Zenon
<1>8. ASSUME NEW k \in 1 .. Len(own), NEW i, i = 1 + Len(prefix) + k
      PROVE  d[i] = own[k]
  <2>1. i \in 1 .. Len(a) + Len(own) /\ ~(i <= Len(a)) /\ i - Len(a) = k
    <3>1. PICK n \in Nat, m \in Nat : n = Len(prefix) /\ m = Len(own)
      BY <1>6
    <3>2. Len(a) = 1 + n
      BY <1>3, <3>1
    <3>3. QED
      BY <1>8, <3>1, <3>2
  <2>2. (a \o own)[i] = own[i - Len(a)]
    BY <1>5, <2>1, Zenon
  <2>3. QED
    BY <1>4, <2>1, <2>2
<1>9. QED
  BY <1>0, <1>1, <1>3, <1>4, <1>5, <1>7, <1>8

\* Stripping a path keeps the places of its parameters and its literals.
LEMMA StripIs ==
  ASSUME NEW d
  PROVE  /\ DOMAIN Web!Strip(d) = DOMAIN d
         /\ \A i \in DOMAIN d : /\ Web!IsParam(Web!Strip(d)[i]) <=> Web!IsParam(d[i])
                                /\ ~Web!IsParam(d[i]) => Web!Strip(d)[i] = d[i]
BY DEF Web!Strip, Web!IsParam

\* A leaf is registered as its scope says, under its version.
LEMMA LeafIs ==
  ASSUME WebFramesInv, Web!OnTop, Web!Route.subs = Nil,
         NEW e, e = Web!Leaf(Web!Route, Web!Top.prefix, Web!Top.mws, Web!Top.keys)
  PROVE  IsLeaf(e) /\ Version(e) \in STRING \ Web!Builtins
<1>1. PICK s \in WebScope : IsFrameOf(Web!Top, s) /\ Web!Route \in Range(s.routes)
  BY WebTopIs
<1>2. PICK t : t = Web!Route
  OBVIOUS
<1>3. /\ t.mws \in MaybeNil /\ t.path \in Seq(Web!Segment)
      /\ t.version \in STRING \ Web!Builtins /\ t.handler \in {"v1", "v2"}
  BY <1>1, <1>2, ScopeIs DEF Web!IsRoute, MaybeNil
<1>4. PICK p \in Seq(Web!Segment) : p = Web!Top.prefix
  BY WebTopIs DEF Frame
<1>5. PICK d : d = Declared(t.version, p, t.path)
  OBVIOUS
<1>6. /\ e.name = t.name /\ e.chain = Web!Merge(Web!Top.mws, t.mws)
      /\ e.own = t.path /\ e.path = Web!Strip(d) /\ e.declared = d
      /\ e.handler \in {"meta", t.handler}
  BY <1>2, <1>4, <1>5 DEF Web!Leaf, Declared
<1>7. e.chain = s.mws \o Web!List(t.mws)
  BY <1>1, <1>6 DEF Web!Merge, IsFrameOf
<1>8. d[1] = VersionSegment(t.version) /\ 1 \in DOMAIN d
  <2>1. PICK v \in STRING, own \in Seq(Web!Segment) : v = t.version /\ own = t.path
    BY <1>3
  <2>2. d = Declared(v, p, own)
    BY <1>5, <2>1
  <2>3. /\ d \in Seq(Web!Segment) /\ Len(d) = 1 + Len(p) + Len(own)
        /\ d[1] = VersionSegment(v)
    BY <2>2, DeclaredIs
  <2>4. Len(p) \in Nat /\ Len(own) \in Nat /\ DOMAIN d = 1 .. Len(d)
    BY <2>3, LenProperties
  <2>5. 1 \in DOMAIN d
    BY <2>3, <2>4
  <2>6. QED
    BY <2>1, <2>3, <2>5
<1>9. Version(e) = t.version
  <2>1. ~Web!IsParam(d[1]) /\ d[1].name = t.version
    BY <1>8 DEF Web!IsParam, VersionSegment
  <2>2. QED
    BY <1>6, <1>8, <2>1, StripIs DEF Version
<1>10. IsLeafOf(e, s, t)
  BY <1>2, <1>3, <1>5, <1>6, <1>7 DEF IsLeafOf
<1>11. QED
  BY <1>1, <1>2, <1>3, <1>9, <1>10 DEF IsLeaf

\* The routes that are built in.
LEMMA BuiltinIs ==
  ASSUME NEW e, IsBuiltin(e)
  PROVE  /\ Version(e) \in Web!Builtins
         /\ e.chain = <<>> /\ e.handler = "v1" /\ e.request = FALSE
<1>1. \A name, names :
        LET b == Web!Builtin(name, names)
        IN b.chain = <<>> /\ b.handler = "v1" /\ b.request = FALSE
             /\ (1 \in DOMAIN names => Version(b) = names[1])
  BY DEF Web!Builtin, Web!Literals, Version
<1>2. \E name, names : e = Web!Builtin(name, names) /\ 1 \in DOMAIN names
                         /\ names[1] \in Web!Builtins
  <2>1. CASE e = Web!Ping
    <3>1. 1 \in DOMAIN <<"ping">> /\ <<"ping">>[1] \in Web!Builtins
      BY DEF Web!Builtins
    <3>2. QED
      BY <2>1, <3>1 DEF Web!Ping
  <2>2. CASE e = Web!Events
    <3>1. 1 \in DOMAIN <<"events">> /\ <<"events">>[1] \in Web!Builtins
      BY DEF Web!Builtins
    <3>2. QED
      BY <2>2, <3>1 DEF Web!Events
  <2>3. CASE e = Web!MissedMsg
    <3>1. /\ 1 \in DOMAIN <<"events", "missed-msg">>
          /\ <<"events", "missed-msg">>[1] \in Web!Builtins
      BY DEF Web!Builtins
    <3>2. QED
      BY <2>3, <3>1 DEF Web!MissedMsg
  <2>4. CASE e = Web!SpecRoute
    <3>1. /\ 1 \in DOMAIN <<"docs", "openapi.json">>
          /\ <<"docs", "openapi.json">>[1] \in Web!Builtins
      BY DEF Web!Builtins
    <3>2. QED
      BY <2>4, <3>1 DEF Web!SpecRoute
  <2>5. CASE e = Web!Docs
    <3>1. 1 \in DOMAIN <<"docs">> /\ <<"docs">>[1] \in Web!Builtins
      BY DEF Web!Builtins
    <3>2. QED
      BY <2>5, <3>1 DEF Web!Docs
  <2>6. QED
    BY <2>1, <2>2, <2>3, <2>4, <2>5 DEF IsBuiltin
<1>3. QED
  BY <1>1, <1>2

(***************************************************************************)
(* The table of the routers and the registry of the description.           *)
(***************************************************************************)
\* e is the last entry of its operation in the registry reg.
IsEntryAt(reg, i, e) ==
  /\ i \in DOMAIN reg /\ reg[i] = e
  /\ \A j \in DOMAIN reg : j > i => Web!Operation(reg[j]) # Web!Operation(e)
Latest(reg, e) == \E i \in DOMAIN reg : IsEntryAt(reg, i, e)

\* A route of the table is built in, or it is a leaf of a scope, its version has
\* a router and the registry describes it.
IsServedAs(e, vs, reg) ==
  \/ IsBuiltin(e)
  \/ IsLeaf(e) /\ Version(e) \in vs /\ Latest(reg, e)
TableIs(t, vs, reg) ==
  \A op \in DOMAIN t : Web!Operation(t[op]) = op /\ IsServedAs(t[op], vs, reg)

WebTableInv ==
  /\ registry \in Seq(Range(registry))
  /\ TableIs(table, DOMAIN routers, registry)

\* The table stays right when a route is added, whatever it replaces.
LEMMA AddKeepsTable ==
  ASSUME NEW t, NEW vs, NEW reg, NEW e, TableIs(t, vs, reg), IsServedAs(e, vs, reg)
  PROVE  TableIs(Web!Add(t, e), vs, reg)
<1>1. PICK op : op = Web!Operation(e)
  OBVIOUS
<1>2. PICK u : u = Web!Add(t, e) /\ u = Web!With(t, op, e)
  BY <1>1 DEF Web!Add
<1>3. /\ DOMAIN u = DOMAIN t \cup {op}
      /\ \A x \in DOMAIN t \cup {op} : u[x] = IF x = op THEN e ELSE t[x]
  BY <1>2 DEF Web!With
<1>4. TableIs(u, vs, reg)
  BY <1>1, <1>3 DEF TableIs
<1>5. QED
  BY <1>2, <1>4

\* A sequence of its own elements, with one more.
LEMMA AppendOwn ==
  ASSUME NEW s, s \in Seq(Range(s)), NEW e
  PROVE  /\ Append(s, e) \in Seq(Range(Append(s, e)))
         /\ Len(s) \in Nat /\ DOMAIN s = 1 .. Len(s)
         /\ DOMAIN Append(s, e) = 1 .. Len(s) + 1
         /\ \A i \in 1 .. Len(s) : Append(s, e)[i] = s[i]
         /\ Append(s, e)[Len(s) + 1] = e
<1>1. PICK S : S = Range(s) \cup {e}
  OBVIOUS
<1>2. s \in Seq(S) /\ e \in S
  <2>1. Range(s) \subseteq S
    BY <1>1
  <2>2. QED
    BY <1>1, <2>1, SeqMonotonic
<1>3. /\ Append(s, e) \in Seq(S) /\ Len(Append(s, e)) = Len(s) + 1
      /\ \A i \in 1 .. Len(s) : Append(s, e)[i] = s[i]
      /\ Append(s, e)[Len(s) + 1] = e
  BY <1>2, AppendProperties
<1>4. Range(Append(s, e)) = S
  BY <1>1, <1>2, RangeAppend
<1>5. QED
  BY <1>2, <1>3, <1>4, LenProperties

\* The registry describes what it did, but for the operation of a new entry.
LEMMA RegistryGrows ==
  ASSUME NEW reg, reg \in Seq(Range(reg)), NEW e
  PROVE  /\ Latest(Append(reg, e), e)
         /\ \A f : Latest(reg, f) /\ Web!Operation(f) # Web!Operation(e)
                     => Latest(Append(reg, e), f)
<1>1. PICK grown : grown = Append(reg, e)
  OBVIOUS
<1>2. PICK n \in Nat : n = Len(reg)
  BY LenProperties
<1>3. /\ DOMAIN reg = 1 .. n /\ DOMAIN grown = 1 .. n + 1 /\ grown[n + 1] = e
      /\ \A i \in 1 .. n : grown[i] = reg[i]
  BY <1>1, <1>2, AppendOwn
<1>4. IsEntryAt(grown, n + 1, e)
  BY <1>3 DEF IsEntryAt
<1>5. ASSUME NEW f, Latest(reg, f), Web!Operation(f) # Web!Operation(e)
      PROVE  Latest(grown, f)
  <2>1. PICK i \in DOMAIN reg : IsEntryAt(reg, i, f)
    BY <1>5 DEF Latest
  <2>2. i \in DOMAIN grown /\ grown[i] = f
    BY <1>3, <2>1 DEF IsEntryAt
  <2>3. ASSUME NEW j \in DOMAIN grown, j > i
        PROVE  Web!Operation(grown[j]) # Web!Operation(f)
    <3>1. CASE j = n + 1
      BY <1>3, <1>5, <3>1
    <3>2. CASE j # n + 1
      BY <1>3, <2>1, <2>3, <3>2 DEF IsEntryAt
    <3>3. QED
      BY <3>1, <3>2
  <2>4. QED
    BY <2>2, <2>3 DEF IsEntryAt, Latest
<1>6. n + 1 \in DOMAIN grown
  BY <1>3
<1>7. QED
  BY <1>1, <1>4, <1>5, <1>6 DEF Latest

\* The table stays right when a leaf is registered.
LEMMA RegisterKeepsTable ==
  ASSUME NEW t, NEW vs, NEW reg, reg \in Seq(Range(reg)), NEW e, IsLeaf(e),
         NEW ws, vs \subseteq ws, Version(e) \in ws, TableIs(t, vs, reg)
  PROVE  TableIs(Web!Add(t, e), ws, Append(reg, e))
<1>1. PICK op : op = Web!Operation(e)
  OBVIOUS
<1>2. PICK u : u = Web!Add(t, e) /\ u = Web!With(t, op, e)
  BY <1>1 DEF Web!Add
<1>3. /\ DOMAIN u = DOMAIN t \cup {op}
      /\ \A x \in DOMAIN t \cup {op} : u[x] = IF x = op THEN e ELSE t[x]
  BY <1>2 DEF Web!With
<1>4. IsServedAs(e, ws, Append(reg, e))
  BY RegistryGrows DEF IsServedAs
<1>5. ASSUME NEW x \in DOMAIN t, x # op
      PROVE  Web!Operation(t[x]) = x /\ IsServedAs(t[x], ws, Append(reg, e))
  <2>1. Web!Operation(t[x]) = x /\ IsServedAs(t[x], vs, reg)
    BY DEF TableIs
  <2>2. QED
    BY <1>1, <1>5, <2>1, RegistryGrows DEF IsServedAs
<1>6. TableIs(u, ws, Append(reg, e))
  BY <1>1, <1>3, <1>4, <1>5 DEF TableIs
<1>7. QED
  BY <1>2, <1>6

\* The table stays right when the built-in routes are made.
LEMMA FlushKeepsTable ==
  ASSUME NEW vs, NEW reg, TableIs(table, vs, reg)
  PROVE  TableIs(Web!Flushed, vs, reg)
<1>1. /\ IsServedAs(Web!Ping, vs, reg) /\ IsServedAs(Web!Events, vs, reg)
      /\ IsServedAs(Web!MissedMsg, vs, reg)
  BY DEF IsServedAs, IsBuiltin
<1>2. TableIs(Web!Add(table, Web!Ping), vs, reg)
  BY <1>1, AddKeepsTable
<1>3. TableIs(Web!Add(Web!Add(table, Web!Ping), Web!Events), vs, reg)
  BY <1>1, <1>2, AddKeepsTable
<1>4. TableIs(Web!Add(Web!Add(Web!Add(table, Web!Ping), Web!Events), Web!MissedMsg),
              vs, reg)
  BY <1>1, <1>3, AddKeepsTable
<1>5. QED
  BY <1>2, <1>4 DEF Web!Flushed, Web!InitRoutes

\* The table and the registry after a leaf.
LEMMA RegisterLeafKeepsTable ==
  ASSUME WebFramesInv, WebTableInv, Web!RegisterLeaf
  PROVE  WebTableInv'
<1>1. PICK e : e = Web!Leaf(Web!Route, Web!Top.prefix, Web!Top.mws, Web!Top.keys)
  OBVIOUS
<1>2. /\ Web!OnTop /\ Web!Route.subs = Nil
      /\ table' = Web!Add(Web!Flushed, e) /\ registry' = Append(registry, e)
      /\ IF Version(e) \in DOMAIN routers THEN routers' = routers
         ELSE routers' = Web!With(routers, Version(e), webGlobals)
  BY <1>1 DEF Web!RegisterLeaf, Web!RegisterHandler, Version
<1>3. IsLeaf(e)
  BY <1>1, <1>2, LeafIs
<1>4. DOMAIN routers' = DOMAIN routers \cup {Version(e)}
  BY <1>2 DEF Web!With
<1>5. PICK vs, ws, reg : /\ vs = DOMAIN routers /\ ws = DOMAIN routers'
                         /\ reg = registry
  OBVIOUS
<1>6. TableIs(Web!Flushed, vs, reg) /\ reg \in Seq(Range(reg))
  BY <1>5, FlushKeepsTable DEF WebTableInv
<1>7. TableIs(Web!Add(Web!Flushed, e), ws, Append(reg, e))
  BY <1>3, <1>4, <1>5, <1>6, RegisterKeepsTable
<1>8. Append(reg, e) \in Seq(Range(Append(reg, e)))
  BY <1>6, AppendOwn
<1>9. QED
  BY <1>2, <1>5, <1>7, <1>8 DEF WebTableInv

\* The table at the end of a controller and when the application starts.
LEMMA StartKeepsTable ==
  ASSUME WebTableInv, Web!Leave \/ Web!Start
  PROVE  WebTableInv'
<1>1. PICK vs, reg : vs = DOMAIN routers /\ reg = registry
  OBVIOUS
<1>2. TableIs(table, vs, reg) /\ TableIs(Web!Flushed, vs, reg)
  BY <1>1, FlushKeepsTable DEF WebTableInv
<1>3. TableIs(Web!Add(Web!Add(Web!Flushed, Web!SpecRoute), Web!Docs), vs, reg)
  <2>1. IsServedAs(Web!SpecRoute, vs, reg) /\ IsServedAs(Web!Docs, vs, reg)
    BY DEF IsServedAs, IsBuiltin
  <2>2. TableIs(Web!Add(Web!Flushed, Web!SpecRoute), vs, reg)
    BY <1>2, <2>1, AddKeepsTable
  <2>3. QED
    BY <2>1, <2>2, AddKeepsTable
<1>4. UNCHANGED <<registry, routers>>
  BY DEF Web!Leave, Web!Start
<1>5. table' \in {table, Web!Flushed,
                  Web!Add(Web!Add(Web!Flushed, Web!SpecRoute), Web!Docs)}
  BY DEF Web!Leave, Web!Start
<1>6. TableIs(table', vs, reg)
  BY <1>2, <1>3, <1>5
<1>7. QED
  BY <1>1, <1>4, <1>6 DEF WebTableInv

(***************************************************************************)
(* The description.                                                        *)
(***************************************************************************)
\* The operations of a description are those of the registry, each as its last
\* entry says.
Described(sp, reg) ==
  \A e : Latest(reg, e) => /\ Web!Operation(e) \in DOMAIN sp
                           /\ sp[Web!Operation(e)] = Web!BuildOperation(e)

\* The largest of a set of numbers.
LEMMA WebMaxIs ==
  ASSUME NEW S, S \subseteq Nat, NEW m \in S, \A x \in S : x <= m
  PROVE  Web!Max(S) = m
<1>1. \A x \in S : m >= x
  OBVIOUS
<1>2. Web!Max(S) \in S /\ \A x \in S : Web!Max(S) >= x
  BY <1>1 DEF Web!Max
<1>3. Web!Max(S) \in Nat /\ m \in Nat /\ Web!Max(S) <= m /\ Web!Max(S) >= m
  BY <1>2
<1>4. QED
  BY <1>3

\* buildOpenAPISpec describes the last entry of each operation.
LEMMA BuildIs ==
  ASSUME registry \in Seq(Range(registry))
  PROVE  Described(Web!BuildOpenAPISpec, registry)
<1>1. ASSUME NEW e, Latest(registry, e)
      PROVE  /\ Web!Operation(e) \in DOMAIN Web!BuildOpenAPISpec
             /\ Web!BuildOpenAPISpec[Web!Operation(e)] = Web!BuildOperation(e)
  <2>1. PICK i \in DOMAIN registry : IsEntryAt(registry, i, e)
    BY <1>1 DEF Latest
  <2>2. registry[i] = e /\ DOMAIN registry \subseteq Nat
    BY <2>1, LenProperties DEF IsEntryAt
  <2>3. PICK op : op = Web!Operation(e)
    OBVIOUS
  <2>4. PICK S : S = Web!Entries(op)
    OBVIOUS
  <2>5. S \subseteq DOMAIN registry /\ i \in S
    BY <2>2, <2>3, <2>4 DEF Web!Entries
  <2>6. ASSUME NEW j \in S
        PROVE  j <= i
    <3>1. j \in DOMAIN registry /\ Web!Operation(registry[j]) = op
      BY <2>4 DEF Web!Entries
    <3>2. ~(j > i)
      BY <2>1, <2>3, <3>1 DEF IsEntryAt
    <3>3. QED
      BY <2>2, <3>1, <3>2
  <2>7. Web!Max(S) = i
    BY <2>2, <2>5, <2>6, WebMaxIs
  <2>8. op \in {Web!Operation(f) : f \in Web!Range(registry)}
    BY <2>2, <2>3 DEF Web!Range
  <2>9. QED
    BY <2>2, <2>3, <2>4, <2>7, <2>8 DEF Web!BuildOpenAPISpec
<1>2. QED
  BY <1>1 DEF Described

(***************************************************************************)
(* The global middlewares.                                                 *)
(***************************************************************************)
\* The middlewares of the root router, of the first n that were added.
AtRoot(added, n) == <<"logger", "recoverer", "panic">> \o SubSeq(added, 1, n)

\* How many global middlewares there were at the first route of a version, and
\* the middlewares of its router.
VersionsAre(rs, first, added, from) ==
  /\ DOMAIN first = DOMAIN rs /\ DOMAIN rs \subseteq STRING \ Web!Builtins
  /\ \A v \in DOMAIN rs : /\ first[v] \in from .. Len(added)
                          /\ rs[v] = SubSeq(added, from + 1, first[v])

\* Init takes the global middlewares that were added, and those that come later
\* are left for the routers of the versions.
GlobalsAre(g, r, rs, added, from, new) ==
  IF new THEN g = added /\ DOMAIN rs = {}
  ELSE g = SubSeq(added, from + 1, Len(added)) /\ r = AtRoot(added, from)

WebLogInv ==
  /\ log = [added |-> log.added, init |-> log.init, first |-> log.first]
  /\ log.added \in Seq(STRING) /\ log.init \in 0 .. Len(log.added)
  /\ VersionsAre(routers, log.first, log.added, log.init)
  /\ GlobalsAre(webGlobals, root, routers, log.added, log.init, phase = "new")

\* A part of a sequence does not change when the sequence grows at its end.
LEMMA PartStays ==
  ASSUME NEW S, NEW s \in Seq(S), NEW x \in S, NEW i \in Nat \ {0}, NEW n \in 0 .. Len(s)
  PROVE  SubSeq(Append(s, x), i, n) = SubSeq(s, i, n)
<1>1. Len(s) \in Nat
  BY LenProperties
<1>2. CASE n < i
  BY <1>1, <1>2, SubSeqEmpty
<1>3. CASE ~(n < i)
  <2>1. i \in 1 .. Len(s) /\ n \in 1 .. Len(s)
    BY <1>1, <1>3
  <2>2. PICK u \in Seq(S) : u = <<x>>
    <3>1. <<x>> \in Seq(S)
      OBVIOUS
    <3>2. QED
      BY <3>1
  <2>3. SubSeq(s \o u, i, n) = SubSeq(s, i, n)
    BY <2>1, SubSeqOfConcat1
  <2>4. QED
    BY <2>2, <2>3, AppendIsConcat
<1>4. QED
  BY <1>2, <1>3

\* What comes after the first n grows with the sequence.
LEMMA RestGrows ==
  ASSUME NEW S, NEW s \in Seq(S), NEW x \in S, NEW n \in 0 .. Len(s)
  PROVE  /\ Append(s, x) \in Seq(S) /\ Len(Append(s, x)) = Len(s) + 1
         /\ SubSeq(Append(s, x), n + 1, Len(Append(s, x)))
              = Append(SubSeq(s, n + 1, Len(s)), x)
<1>1. PICK l \in Nat : l = Len(s)
  BY LenProperties
<1>2. PICK u \in Seq(S) : u = Append(s, x) /\ Len(u) = l + 1 /\ u[l + 1] = x
  BY <1>1, AppendProperties
<1>3. n + 1 \in 1 .. Len(u) /\ l + 1 \in n + 1 .. Len(u) /\ l + 1 - 1 = l
  BY <1>1, <1>2
<1>4. SubSeq(u, n + 1, l + 1) = SubSeq(u, n + 1, l) \o <<u[l + 1]>>
  BY <1>3, SubSeqRecursiveSecond
<1>5. SubSeq(u, n + 1, l) = SubSeq(s, n + 1, l)
  <2>1. n + 1 \in Nat \ {0} /\ l \in 0 .. Len(s)
    BY <1>1
  <2>2. QED
    BY <1>2, <2>1, PartStays
<1>6. PICK r \in Seq(S) : r = SubSeq(s, n + 1, l)
  <2>1. \A i \in n + 1 .. l : s[i] \in S
    BY <1>1, ElementOfSeq
  <2>2. n + 1 \in Int /\ l \in Int
    BY <1>1
  <2>3. QED
    BY <2>1, <2>2, SubSeqProperties
<1>7. SubSeq(u, n + 1, Len(u)) = Append(r, x)
  BY <1>2, <1>4, <1>5, <1>6, AppendIsConcat
<1>8. QED
  BY <1>1, <1>2, <1>6, <1>7

\* A global middleware is added.
LEMMA AddGlobalKeepsLog ==
  ASSUME WebLogInv, NEW m \in WebGlobal, Web!AddGlobalMiddleware(m)
  PROVE  WebLogInv'
<1>1. PICK a \in Seq(STRING), n \in Nat :
        a = log.added /\ n = log.init /\ n \in 0 .. Len(a)
  BY LenProperties DEF WebLogInv
<1>2. m \in STRING
  BY WebAssumption DEF Web!Configured
<1>3. /\ log'.added = Append(a, m) /\ log'.init = n /\ log'.first = log.first
      /\ log' = [added |-> log'.added, init |-> log'.init, first |-> log'.first]
  BY <1>1 DEF WebLogInv, Web!AddGlobalMiddleware
<1>4. /\ webGlobals' = Append(webGlobals, m)
      /\ UNCHANGED <<root, routers, phase>>
  BY DEF Web!AddGlobalMiddleware
<1>5. PICK b \in Seq(STRING) :
        /\ b = Append(a, m) /\ Len(b) = Len(a) + 1
        /\ SubSeq(b, n + 1, Len(b)) = Append(SubSeq(a, n + 1, Len(a)), m)
  BY <1>1, <1>2, RestGrows
<1>6. Len(a) \in Nat
  BY LenProperties
<1>7. n \in 0 .. Len(b)
  BY <1>5, <1>6
<1>8. SubSeq(b, 1, n) = SubSeq(a, 1, n)
  <2>1. PICK i \in Nat \ {0} : i = 1
    OBVIOUS
  <2>2. SubSeq(Append(a, m), i, n) = SubSeq(a, i, n)
    BY <1>1, <1>2, PartStays
  <2>3. QED
    BY <1>5, <2>1, <2>2
<1>9. VersionsAre(routers, log.first, b, n)
  <2>1. VersionsAre(routers, log.first, a, n)
    BY <1>1 DEF WebLogInv
  <2>2. ASSUME NEW v \in DOMAIN routers
        PROVE  /\ log.first[v] \in n .. Len(b)
               /\ routers[v] = SubSeq(b, n + 1, log.first[v])
    <3>1. PICK f \in n .. Len(a) : f = log.first[v]
      BY <2>1 DEF VersionsAre
    <3>2. n + 1 \in Nat \ {0} /\ f \in 0 .. Len(a)
      BY <1>6
    <3>3. SubSeq(b, n + 1, f) = SubSeq(a, n + 1, f)
      BY <1>2, <1>5, <3>2, PartStays
    <3>4. f \in n .. Len(b)
      BY <1>5, <1>6
    <3>5. QED
      BY <2>1, <3>1, <3>3, <3>4 DEF VersionsAre
  <2>3. QED
    BY <2>1, <2>2 DEF VersionsAre
<1>10. GlobalsAre(webGlobals', root, routers, b, n, phase = "new")
  <2>1. GlobalsAre(webGlobals, root, routers, a, n, phase = "new")
    BY <1>1 DEF WebLogInv
  <2>2. CASE phase = "new"
    BY <1>4, <1>5, <2>1, <2>2 DEF GlobalsAre
  <2>3. CASE phase # "new"
    BY <1>4, <1>5, <1>8, <2>1, <2>3 DEF GlobalsAre, AtRoot
  <2>4. QED
    BY <2>2, <2>3
<1>11. QED
  BY <1>3, <1>4, <1>5, <1>7, <1>9, <1>10 DEF WebLogInv

\* Init takes the global middlewares there are.
LEMMA InitAppKeepsLog ==
  ASSUME WebLogInv, Web!InitApp
  PROVE  WebLogInv'
<1>1. PICK a \in Seq(STRING), n \in Nat : a = log.added /\ n = Len(a)
  BY LenProperties DEF WebLogInv
<1>2. phase = "new" /\ phase' = "init" /\ UNCHANGED routers
  BY DEF Web!InitApp
<1>3. webGlobals = a /\ DOMAIN routers = {}
  BY <1>1, <1>2 DEF WebLogInv, GlobalsAre
<1>4. /\ root' = <<"logger", "recoverer", "panic">> \o a /\ webGlobals' = <<>>
      /\ log'.added = a /\ log'.init = n /\ log'.first = log.first
      /\ log' = [added |-> log'.added, init |-> log'.init, first |-> log'.first]
  BY <1>1, <1>3 DEF WebLogInv, Web!InitApp
<1>5. n \in 0 .. Len(a)
  BY <1>1
<1>6. VersionsAre(routers, log.first, a, n)
  BY <1>3 DEF WebLogInv, VersionsAre
<1>7. SubSeq(a, 1, n) = a /\ SubSeq(a, n + 1, Len(a)) = <<>>
  <2>1. n + 1 \in Int /\ Len(a) \in Int /\ Len(a) < n + 1
    BY <1>1
  <2>2. QED
    BY <1>1, <2>1, SubSeqFull, SubSeqEmpty
<1>8. GlobalsAre(webGlobals', root', routers, a, n, FALSE)
  BY <1>4, <1>7 DEF GlobalsAre, AtRoot
<1>9. QED
  BY <1>2, <1>4, <1>5, <1>6, <1>8 DEF WebLogInv

\* The first route of a version makes its router.
LEMMA RegisterLeafKeepsLog ==
  ASSUME WebFramesInv, WebLogInv, Web!RegisterLeaf
  PROVE  WebLogInv'
<1>1. PICK e : e = Web!Leaf(Web!Route, Web!Top.prefix, Web!Top.mws, Web!Top.keys)
  OBVIOUS
<1>2. /\ Web!OnTop /\ Web!Route.subs = Nil
      /\ UNCHANGED <<phase, webGlobals, root>>
      /\ IF Version(e) \in DOMAIN routers THEN UNCHANGED <<routers, log>>
         ELSE /\ routers' = Web!With(routers, Version(e), webGlobals)
              /\ log' = [log EXCEPT !.first =
                                    Web!With(log.first, Version(e), Len(log.added))]
  BY <1>1 DEF Web!RegisterLeaf, Web!RegisterHandler, Version
<1>3. CASE Version(e) \in DOMAIN routers
  BY <1>2, <1>3 DEF WebLogInv
<1>4. CASE Version(e) \notin DOMAIN routers
  <2>1. PICK v \in STRING \ Web!Builtins : v = Version(e)
    BY <1>1, <1>2, LeafIs
  <2>2. PICK a \in Seq(STRING), n \in Nat, l \in Nat :
          a = log.added /\ n = log.init /\ l = Len(a) /\ n <= l
    BY LenProperties DEF WebLogInv
  <2>3. PICK first : first = Web!With(log.first, v, l)
    OBVIOUS
  <2>4. log' = [log EXCEPT !.first = first] /\ routers' = Web!With(routers, v, webGlobals)
    BY <1>2, <1>4, <2>1, <2>2, <2>3
  <2>5. /\ log'.added = a /\ log'.init = n /\ log'.first = first
        /\ log' = [added |-> log'.added, init |-> log'.init, first |-> log'.first]
    BY <2>2, <2>4 DEF WebLogInv
  <2>6. webGlobals = SubSeq(a, n + 1, l) /\ root = AtRoot(a, n) /\ phase # "new"
    <3>1. phase = "init"
      BY <1>2 DEF Web!OnTop
    <3>2. QED
      BY <2>2, <3>1 DEF WebLogInv, GlobalsAre
  <2>7. /\ DOMAIN first = DOMAIN routers' /\ DOMAIN routers' = DOMAIN routers \cup {v}
        /\ first[v] = l /\ routers'[v] = webGlobals
        /\ \A x \in DOMAIN routers : x # v => /\ first[x] = log.first[x]
                                              /\ routers'[x] = routers[x]
    BY <2>3, <2>4 DEF WebLogInv, VersionsAre, Web!With
  <2>8. VersionsAre(routers, log.first, a, n)
    BY <2>2 DEF WebLogInv
  <2>9. VersionsAre(routers', first, a, n)
    <3>1. l \in n .. Len(a)
      BY <2>2
    <3>2. ASSUME NEW x \in DOMAIN routers'
          PROVE  /\ first[x] \in n .. Len(a) /\ routers'[x] = SubSeq(a, n + 1, first[x])
      <4>1. CASE x = v
        BY <2>6, <2>7, <3>1, <4>1
      <4>2. CASE x # v
        BY <2>7, <2>8, <4>2 DEF VersionsAre
      <4>3. QED
        BY <4>1, <4>2
    <3>3. QED
      BY <2>7, <2>8, <3>2 DEF VersionsAre
  <2>10. GlobalsAre(webGlobals', root', routers', a, n, FALSE)
    BY <1>2, <2>2, <2>6 DEF GlobalsAre
  <2>11. n \in 0 .. Len(a) /\ phase' # "new"
    BY <1>2, <2>2, <2>6
  <2>12. QED
    BY <2>5, <2>9, <2>10, <2>11 DEF WebLogInv
<1>5. QED
  BY <1>3, <1>4

(***************************************************************************)
(* The invariant.                                                          *)
(***************************************************************************)
\* Requests are served, and described, once the application has started.
WebPhaseInv ==
  /\ options \in WebOptions
  /\ phase = "started" /\ options.openapi => Described(spec, registry)
  /\ served # Nil => phase = "started"

WebInv == WebFramesInv /\ WebTableInv /\ WebLogInv /\ WebPhaseInv

\* It holds at first.
LEMMA WebInitInv ==
  ASSUME Web!Init
  PROVE  WebInv
<1>1. WebFramesInv
  BY EmptySeq DEF Web!Init, WebFramesInv, Range
<1>2. WebTableInv
  <2>1. registry = <<>> /\ table = <<>>
    BY DEF Web!Init
  <2>2. DOMAIN table = {}
    BY <2>1
  <2>3. QED
    BY <2>1, <2>2, EmptySeq DEF WebTableInv, TableIs
<1>3. WebLogInv
  <2>1. /\ log = [added |-> options.globals, init |-> 0, first |-> <<>>]
        /\ routers = <<>> /\ webGlobals = options.globals /\ phase = "new"
    BY DEF Web!Init
  <2>2. PICK a \in Seq(STRING) : a = options.globals
    BY WebAssumption DEF Web!Init, Web!Configured
  <2>3. log.added = a /\ log.init = 0 /\ log.first = <<>> /\ DOMAIN routers = {}
    BY <2>1, <2>2
  <2>4. 0 \in 0 .. Len(a)
    BY LenProperties
  <2>5. VersionsAre(routers, <<>>, a, 0)
    BY <2>1, <2>3 DEF VersionsAre
  <2>6. GlobalsAre(webGlobals, root, routers, a, 0, TRUE)
    BY <2>1, <2>2, <2>3 DEF GlobalsAre
  <2>7. log = [added |-> log.added, init |-> log.init, first |-> log.first]
    BY <2>1
  <2>8. QED
    BY <2>1, <2>3, <2>4, <2>5, <2>6, <2>7 DEF WebLogInv
<1>4. WebPhaseInv
  BY DEF Web!Init, WebPhaseInv
<1>5. QED
  BY <1>1, <1>2, <1>3, <1>4 DEF WebInv

\* A step keeps it, and nothing happens after a request was served.
LEMMA WebNextInv ==
  ASSUME WebInv, [Web!Next]_(Web!vars)
  PROVE  WebInv'
<1> USE DEF WebInv
<1>1. CASE \E m \in WebGlobal : Web!AddGlobalMiddleware(m)
  <2>1. PICK m \in WebGlobal : Web!AddGlobalMiddleware(m)
    BY <1>1
  <2>2. WebLogInv'
    BY <2>1, AddGlobalKeepsLog
  <2>3. /\ UNCHANGED <<webFrames, table, registry, routers, options, phase, spec, served>>
    BY <2>1 DEF Web!AddGlobalMiddleware
  <2>4. QED
    BY <2>2, <2>3 DEF WebFramesInv, WebTableInv, WebPhaseInv
<1>2. CASE Web!InitApp
  <2>1. WebLogInv'
    BY <1>2, InitAppKeepsLog
  <2>2. /\ UNCHANGED <<webFrames, table, registry, routers, options, spec, served>>
        /\ phase = "new" /\ phase' = "init"
    BY <1>2 DEF Web!InitApp
  <2>3. QED
    BY <2>1, <2>2 DEF WebFramesInv, WebTableInv, WebPhaseInv
<1>3. CASE (\E c \in WebControllers : Web!AddController(c)) \/ Web!EnterGroup
             \/ Web!SkipGroup
  <2>1. WebFramesInv'
    BY <1>3, AddControllerKeepsCalls, EnterGroupKeepsCalls, OtherStepsKeepCalls
  <2>2. UNCHANGED <<table, registry, routers, options, phase, spec, served, log,
                    webGlobals, root>>
    BY <1>3 DEF Web!AddController, Web!EnterGroup, Web!SkipGroup, Web!routing
  <2>3. QED
    BY <2>1, <2>2 DEF WebTableInv, WebLogInv, WebPhaseInv
<1>4. CASE Web!RegisterLeaf
  <2>1. WebFramesInv' /\ WebTableInv' /\ WebLogInv'
    BY <1>4, OtherStepsKeepCalls, RegisterLeafKeepsTable, RegisterLeafKeepsLog
  <2>2. UNCHANGED <<options, phase, spec, served>> /\ phase = "init"
    BY <1>4 DEF Web!RegisterLeaf, Web!OnTop
  <2>3. QED
    BY <2>1, <2>2 DEF WebPhaseInv
<1>5. CASE Web!Leave
  <2>1. WebFramesInv' /\ WebTableInv'
    BY <1>5, OtherStepsKeepCalls, StartKeepsTable
  <2>2. UNCHANGED <<options, phase, spec, served, log, webGlobals, root, routers, registry>>
    BY <1>5 DEF Web!Leave
  <2>3. QED
    BY <2>1, <2>2 DEF WebLogInv, WebPhaseInv
<1>6. CASE Web!Start
  <2>1. WebTableInv'
    BY <1>6, StartKeepsTable
  <2>2. /\ UNCHANGED <<options, served, log, webGlobals, root, routers, registry, webFrames>>
        /\ phase = "init" /\ phase' = "started"
        /\ options.openapi => spec' = Web!BuildOpenAPISpec
    BY <1>6 DEF Web!Start
  <2>3. Described(Web!BuildOpenAPISpec, registry)
    BY BuildIs DEF WebTableInv
  <2>4. WebLogInv'
    BY <2>2 DEF WebLogInv
  <2>5. QED
    BY <2>1, <2>2, <2>3, <2>4 DEF WebFramesInv, WebPhaseInv
<1>7. CASE Web!Panic
  <2>1. /\ UNCHANGED <<options, served, log, webGlobals, root, routers, registry, table,
                       webFrames>>
        /\ phase = "init" /\ phase' = "panicked"
    BY <1>7 DEF Web!Panic, Web!routing
  <2>2. QED
    BY <2>1 DEF WebFramesInv, WebTableInv, WebLogInv, WebPhaseInv
<1>8. CASE (\E q \in WebAsk : Web!Serve(q)) \/ UNCHANGED Web!vars
  <2>1. /\ UNCHANGED <<options, phase, spec, log, webGlobals, root, routers, registry,
                       table, webFrames>>
        /\ phase = "started" \/ served' = served
    BY <1>8 DEF Web!Serve, Web!routing, Web!vars
  <2>2. QED
    BY <2>1 DEF WebFramesInv, WebTableInv, WebLogInv, WebPhaseInv
<1>9. QED
  BY <1>1, <1>2, <1>3, <1>4, <1>5, <1>6, <1>7, <1>8 DEF Web!Next

(***************************************************************************)
(* The middlewares that a handler is called after.                         *)
(***************************************************************************)
\* The names of middlewares.
Names == STRING \cup {"cors", "secure", "init", "logger", "recoverer", "panic"}

\* The middlewares around the router, and those of its root.
LEMMA OuterIs ==
  ASSUME options \in WebOptions
  PROVE  Web!Outer \in Seq(Names)
<1>1. PICK w \in Seq(STRING) : w = options.wrappers
  BY WebAssumption DEF Web!Configured
<1>2. Web!Reverse(w) \in Seq(Names)
  <2>1. Len(w) \in Nat /\ \A i \in 1 .. Len(w) : w[i] \in Names
    BY LenProperties, ElementOfSeq DEF Names
  <2>2. \A i \in 1 .. Len(w) : Len(w) - i + 1 \in 1 .. Len(w)
    BY <2>1
  <2>3. Web!Reverse(w) \in [1 .. Len(w) -> Names]
    BY <2>1, <2>2 DEF Web!Reverse
  <2>4. QED
    BY <2>1, <2>3, SeqDef
<1>3. PICK r \in Seq(Names), t \in Seq(Names) :
        r = Web!Reverse(w) /\ t = <<"cors", "secure", "init">>
  <2>1. {"cors", "secure", "init"} \subseteq Names
    BY DEF Names
  <2>2. <<"cors", "secure", "init">> \in Seq(Names)
    BY <2>1
  <2>3. QED
    BY <1>2, <2>2
<1>4. r \o t \in Seq(Names)
  BY ConcatProperties
<1>5. QED
  BY <1>1, <1>3, <1>4 DEF Web!Outer

\* So is the list of the root router, whatever was added before Init.
LEMMA AtRootIs ==
  ASSUME NEW added \in Seq(STRING), NEW n \in 0 .. Len(added)
  PROVE  AtRoot(added, n) \in Seq(Names)
<1>1. PICK r \in Seq(Names) : r = <<"logger", "recoverer", "panic">>
  <2>1. {"logger", "recoverer", "panic"} \subseteq Names
    BY DEF Names
  <2>2. <<"logger", "recoverer", "panic">> \in Seq(Names)
    BY <2>1
  <2>3. QED
    BY <2>2
<1>2. PICK s \in Seq(Names) : s = SubSeq(added, 1, n)
  <2>1. Len(added) \in Nat /\ \A i \in 1 .. n : added[i] \in Names
    BY LenProperties, ElementOfSeq DEF Names
  <2>2. 1 \in Int /\ n \in Int
    BY <2>1
  <2>3. QED
    BY <2>1, <2>2, SubSeqProperties
<1>3. r \o s \in Seq(Names)
  BY ConcatProperties
<1>4. QED
  BY <1>1, <1>2, <1>3 DEF AtRoot

\* The middlewares for a route of the table: all of them, in order.
ChainOf(outer, r, rs, e) ==
  outer \o r \o (IF Version(e) \in DOMAIN rs THEN rs[Version(e)] ELSE <<>>) \o e.chain
MeantFor(outer, r, rs, first, added, from, e, mws) ==
  IF Version(e) \notin DOMAIN rs THEN mws = outer \o r
  ELSE \E s \in WebScope : \E t \in Range(s.routes) :
         /\ t.subs = Nil /\ t.name = e.name
         /\ mws = outer \o r \o SubSeq(added, from + 1, first[Version(e)])
                        \o (s.mws \o Web!List(t.mws))

\* The chain of a route that is served, once the routers hold what the history says.
LEMMA ChainIs ==
  ASSUME NEW outer \in Seq(Names), NEW added \in Seq(STRING), NEW from \in 0 .. Len(added),
         NEW r \in Seq(Names), NEW rs, NEW first, VersionsAre(rs, first, added, from),
         NEW e, NEW reg, IsServedAs(e, DOMAIN rs, reg)
  PROVE  /\ ChainOf(outer, r, rs, e) \in Seq(Names)
         /\ MeantFor(outer, r, rs, first, added, from, e, ChainOf(outer, r, rs, e))
<1>1. PICK a \in Seq(Names) : a = outer \o r
  BY ConcatProperties
<1>2. CASE Version(e) \notin DOMAIN rs
  <2>1. IsBuiltin(e)
    BY <1>2 DEF IsServedAs
  <2>2. e.chain = <<>>
    BY <2>1, BuiltinIs
  <2>3. ChainOf(outer, r, rs, e) = (a \o <<>>) \o <<>>
    BY <1>1, <1>2, <2>2 DEF ChainOf
  <2>4. a \o <<>> = a
    BY ConcatEmptySeq
  <2>5. QED
    BY <1>1, <1>2, <2>3, <2>4 DEF MeantFor
<1>3. CASE Version(e) \in DOMAIN rs
  <2>1. Version(e) \notin Web!Builtins
    BY <1>3 DEF VersionsAre
  <2>2. ~IsBuiltin(e)
    BY <2>1, BuiltinIs
  <2>3. IsLeaf(e)
    BY <2>2 DEF IsServedAs
  <2>4. PICK s \in WebScope : \E t \in Range(s.routes) : IsLeafOf(e, s, t)
    BY <2>3 DEF IsLeaf
  <2>5. PICK t \in Range(s.routes) : IsLeafOf(e, s, t)
    BY <2>4
  <2>6. /\ t.subs = Nil /\ e.name = t.name /\ e.chain = s.mws \o Web!List(t.mws)
    BY <2>5 DEF IsLeafOf
  <2>7. PICK m \in Nat : /\ m = first[Version(e)] /\ m \in 0 .. Len(added)
                         /\ rs[Version(e)] = SubSeq(added, from + 1, m)
    BY <1>3, LenProperties DEF VersionsAre
  <2>8. SubSeq(added, from + 1, m) \in Seq(Names)
    <3>1. Len(added) \in Nat /\ from + 1 \in Int /\ m \in Int
      BY LenProperties
    <3>2. \A i \in from + 1 .. m : added[i] \in Names
      BY <2>7, <3>1, ElementOfSeq DEF Names
    <3>3. QED
      BY <3>1, <3>2, SubSeqProperties
  <2>9. e.chain \in Seq(Names)
    <3>1. s.mws \in Seq(STRING) /\ Web!List(t.mws) \in Seq(STRING)
      BY ScopeIs, ListIs, <2>5, <2>6 DEF Web!IsRoute, MaybeNil
    <3>2. s.mws \o Web!List(t.mws) \in Seq(STRING)
      BY <3>1, ConcatProperties
    <3>3. STRING \subseteq Names
      BY DEF Names
    <3>4. QED
      BY <2>6, <3>2, <3>3, SeqMonotonic
  <2>10. ChainOf(outer, r, rs, e) = (a \o SubSeq(added, from + 1, m)) \o e.chain
    BY <1>1, <1>3, <2>7 DEF ChainOf
  <2>11. ChainOf(outer, r, rs, e) \in Seq(Names)
    BY <2>8, <2>9, <2>10, ConcatProperties
  <2>12. QED
    BY <1>1, <1>3, <2>6, <2>7, <2>10, <2>11 DEF MeantFor
<1>4. QED
  BY <1>2, <1>3

\* A request that no middleware stops passes all of them.
LEMMA PassedIs ==
  ASSUME NEW c \in Seq(Names), NEW q, NEW n \in Web!Stops(c, q), NEW e, NEW result
  PROVE  LET s == Web!Served(q, e, c, result, n)
         IN /\ s.ask = q /\ s.route = e
            /\ \/ s.result = "UNAUTHORIZED" \/ s.result = "preflight"
               \/ s.result = result /\ s.passed = c
<1>1. Len(c) \in Nat /\ n \in 1 .. Len(c) + 1
  BY LenProperties DEF Web!Stops
<1>2. CASE n > Len(c)
  <2>1. n - 1 = Len(c)
    BY <1>1, <1>2
  <2>2. QED
    BY <1>2, <2>1, SubSeqFull DEF Web!Served
<1>3. CASE ~(n > Len(c))
  BY <1>3 DEF Web!Served, Web!Stopped
<1>4. QED
  BY <1>2, <1>3

\* A route that is found is in the table, and fits the request.
LEMMA FoundIs ==
  ASSUME WebInv, NEW q, NEW e \in Web!Found(q)
  PROVE  /\ IsServedAs(e, DOMAIN routers, registry)
         /\ Web!Fits(e, q.path) /\ e.method = q.method
<1>1. e \in Web!Range(table) /\ Web!Fits(e, q.path) /\ e.method = q.method
  BY DEF Web!Found, Web!Candidates
<1>2. PICK op \in DOMAIN table : e = table[op]
  BY <1>1 DEF Web!Range
<1>3. QED
  BY <1>1, <1>2 DEF WebInv, WebTableInv, TableIs

\* The chain of a route of the table is the one that is meant for it.
LEMMA ChainIsMeant ==
  ASSUME WebInv, phase = "started", NEW e, IsServedAs(e, DOMAIN routers, registry)
  PROVE  /\ Web!Chain(e) \in Seq(Names)
         /\ MeantFor(Web!Outer, root, routers, log.first, log.added, log.init, e,
                     Web!Chain(e))
<1>1. PICK added \in Seq(STRING), from \in Nat :
        added = log.added /\ from = log.init /\ from \in 0 .. Len(added)
  BY LenProperties DEF WebInv, WebLogInv
<1>2. PICK outer \in Seq(Names) : outer = Web!Outer
  BY OuterIs DEF WebInv, WebPhaseInv
<1>3. PICK r \in Seq(Names) : r = root
  <2>1. root = AtRoot(added, from)
    BY <1>1 DEF WebInv, WebLogInv, GlobalsAre
  <2>2. QED
    BY <1>1, <2>1, AtRootIs
<1>4. PICK rs, first, reg : rs = routers /\ first = log.first /\ reg = registry
  OBVIOUS
<1>5. VersionsAre(rs, first, added, from) /\ IsServedAs(e, DOMAIN rs, reg)
  BY <1>1, <1>4 DEF WebInv, WebLogInv
<1>6. /\ ChainOf(outer, r, rs, e) \in Seq(Names)
      /\ MeantFor(outer, r, rs, first, added, from, e, ChainOf(outer, r, rs, e))
  BY <1>1, <1>5, ChainIs
<1>7. Web!Chain(e) = ChainOf(outer, r, rs, e)
  BY <1>2, <1>3, <1>4 DEF Web!Chain, ChainOf, Version
<1>8. QED
  BY <1>1, <1>2, <1>3, <1>4, <1>6, <1>7

\* What a request is answered: without a route; by a middleware; or by the route
\* that was found, after all of its middlewares.
LEMMA ServeIs ==
  ASSUME WebInv, NEW q \in WebAsk, Web!Serve(q)
  PROVE  /\ UNCHANGED <<options, phase, spec, log, root, routers, registry>>
         /\ phase = "started" /\ served'.ask = q
         /\ \/ served'.route = Nil
            \/ /\ served'.route \in Web!Found(q)
               /\ \/ served'.result \in {"UNAUTHORIZED", "preflight"}
                  \/ /\ served'.result = Web!Result(served'.route, q)
                     /\ served'.passed = Web!Chain(served'.route)
<1>1. /\ UNCHANGED <<options, phase, spec, log, root, routers, registry>>
      /\ phase = "started"
  BY DEF Web!Serve, Web!routing
<1>2. CASE \E e \in Web!Found(q) : \E n \in Web!Stops(Web!Chain(e), q) :
             served' = Web!Served(q, e, Web!Chain(e), Web!Result(e, q), n)
  <2>1. PICK e \in Web!Found(q) : \E n \in Web!Stops(Web!Chain(e), q) :
          served' = Web!Served(q, e, Web!Chain(e), Web!Result(e, q), n)
    BY <1>2
  <2>2. PICK n \in Web!Stops(Web!Chain(e), q) :
          served' = Web!Served(q, e, Web!Chain(e), Web!Result(e, q), n)
    BY <2>1
  <2>3. Web!Chain(e) \in Seq(Names)
    BY <1>1, FoundIs, ChainIsMeant
  <2>4. PICK c \in Seq(Names) : c = Web!Chain(e)
    BY <2>3
  <2>5. PICK result : result = Web!Result(e, q)
    OBVIOUS
  <2>6. n \in Web!Stops(c, q) /\ served' = Web!Served(q, e, c, result, n)
    BY <2>2, <2>4, <2>5
  <2>7. /\ served'.ask = q /\ served'.route = e
        /\ \/ served'.result = "UNAUTHORIZED" \/ served'.result = "preflight"
           \/ served'.result = result /\ served'.passed = c
    BY <2>6, PassedIs
  <2>8. QED
    BY <1>1, <2>4, <2>5, <2>7
<1>3. CASE \E n, c, result : served' = Web!Served(q, Nil, c, result, n)
  BY <1>1, <1>3 DEF Web!Served
<1>4. QED
  BY <1>2, <1>3 DEF Web!Serve

\* MiddlewaresApplyOnce of a request that is served.
LEMMA ServeKeepsMiddlewares ==
  ASSUME WebInv, NEW q \in WebAsk, Web!Serve(q)
  PROVE  MiddlewaresApplyOnce'
<1> SUFFICES ASSUME served'.route # Nil,
                    served'.result \notin {"preflight", "UNAUTHORIZED"}
             PROVE  MeantFor(Web!Outer, root, routers, log.first, log.added, log.init,
                             served'.route, served'.passed)
  <2>1. UNCHANGED <<options, root, routers, log>>
    BY ServeIs
  <2>2. root = AtRoot(log.added, log.init)
    BY ServeIs DEF WebInv, WebLogInv, GlobalsAre
  <2>3. Web!Outer' = Web!Outer
    BY <2>1 DEF Web!Outer
  <2>4. QED
    BY <2>1, <2>2, <2>3 DEF MiddlewaresApplyOnce, Web!MiddlewaresApplyOnce, MeantFor,
       AtRoot, Version, Web!Range, Range
<1>1. PICK e : e = served'.route
  OBVIOUS
<1>2. e \in Web!Found(q) /\ served'.passed = Web!Chain(e)
  BY <1>1, ServeIs
<1>3. QED
  BY <1>1, <1>2, ServeIs, FoundIs, ChainIsMeant

(***************************************************************************)
(* The inputs of a HandlerV2.                                              *)
(***************************************************************************)
\* The size of a set, by the name it has in App.
LEMMA SizeIs ==
  ASSUME NEW S
  PROVE  Web!Cardinality(S) = Cardinality(S)
BY DEF Web!Cardinality, Cardinality

\* The parameters among the first i segments.
ParamsTo(path, i) == {j \in 1 .. i : Web!IsParam(path[j])}

\* A set of numbers, counted from elsewhere on.
Moved(S, off) == {i \in Nat : \E k \in S : i = off + k}

\* There are as many of them.
LEMMA MovedIs ==
  ASSUME NEW S, IsFiniteSet(S), S \subseteq Nat, NEW off \in Nat
  PROVE  IsFiniteSet(Moved(S, off)) /\ Cardinality(Moved(S, off)) = Cardinality(S)
<1> DEFINE f == [k \in S |-> off + k]
<1>1. f \in [S -> Moved(S, off)]
  BY DEF Moved
<1>2. \A a, b \in S : f[a] = f[b] => a = b
  BY DEF Moved
<1>3. \A i \in Moved(S, off) : \E k \in S : f[k] = i
  BY DEF Moved
<1>4. f \in Bijection(S, Moved(S, off))
  BY <1>1, <1>2, <1>3 DEF Bijection, Injection, Surjection, IsInjective
<1>5. ExistsBijection(S, Moved(S, off))
  BY <1>4 DEF ExistsBijection
<1>6. QED
  BY <1>5, FS_Bijection

\* The parameters to a place of a route's own path, in the whole path, when it has
\* no others.
LEMMA OwnParams ==
  ASSUME NEW v \in STRING, NEW prefix \in Seq(Web!Segment), NEW own \in Seq(Web!Segment),
         NEW d, d = Declared(v, prefix, own),
         Cardinality(Web!ParamsIn(own)) = Cardinality(Web!ParamsIn(d)),
         NEW i \in DOMAIN d, Web!IsParam(d[i])
  PROVE  \E k \in Web!ParamsIn(own) : d[i] = own[k] /\ Web!Nth(d, i) = Web!Nth(own, k)
<1>1. PICK off \in Nat, l \in Nat : off = 1 + Len(prefix) /\ l = Len(own)
  BY LenProperties
<1>2. /\ DOMAIN own = 1 .. l /\ DOMAIN d = 1 .. off + l
      /\ \A k \in 1 .. l : d[off + k] = own[k]
  <2>1. d \in Seq(Web!Segment) /\ Len(d) = off + l
    BY <1>1, DeclaredIs
  <2>2. ASSUME NEW k \in 1 .. l
        PROVE  d[off + k] = own[k]
    BY <1>1, DeclaredIs
  <2>3. QED
    BY <1>1, <2>1, <2>2, LenProperties
<1>3. PICK P, Q : P = Web!ParamsIn(own) /\ Q = Web!ParamsIn(d)
  OBVIOUS
<1>4. /\ P \subseteq 1 .. l /\ Q \subseteq 1 .. off + l
      /\ IsFiniteSet(P) /\ IsFiniteSet(Q) /\ i \in Q
  <2>1. P \subseteq 1 .. l /\ Q \subseteq 1 .. off + l /\ i \in Q
    BY <1>2, <1>3 DEF Web!ParamsIn
  <2>2. 1 \in Int /\ l \in Int /\ off + l \in Int
    BY <1>1
  <2>3. QED
    BY <2>1, <2>2, FS_Interval, FS_Subset
<1>5. ASSUME NEW k \in 1 .. l
      PROVE  k \in P <=> off + k \in Q
  <2>1. d[off + k] = own[k]
    BY <1>2, Zenon
  <2>2. k \in 1 .. l /\ off + k \in 1 .. off + l
    OBVIOUS
  <2>3. QED
    BY <1>2, <1>3, <2>1, <2>2, Zenon DEF Web!ParamsIn
<1>6. Moved(P, off) = Q
  <2>1. Moved(P, off) \subseteq Q
    BY <1>4, <1>5 DEF Moved
  <2>2. P \subseteq Nat
    BY <1>1, <1>4
  <2>3. Cardinality(Moved(P, off)) = Cardinality(P) /\ Cardinality(P) = Cardinality(Q)
    BY <1>3, <1>4, <2>2, MovedIs
  <2>4. QED
    BY <1>4, <2>1, <2>3, FS_Subset
<1>7. PICK k \in P : i = off + k
  BY <1>4, <1>6 DEF Moved
<1>8. k \in 1 .. l /\ d[i] = own[k]
  BY <1>2, <1>4, <1>7
<1>9. ParamsTo(d, i) = Moved(ParamsTo(own, k), off)
  <2>1. ASSUME NEW j \in ParamsTo(d, i)
        PROVE  j \in Moved(ParamsTo(own, k), off)
    <3>1. j \in 1 .. i /\ Web!IsParam(d[j])
      BY DEF ParamsTo
    <3>2. j \in Q
      <4>1. j \in DOMAIN d
        BY <1>1, <1>2, <1>7, <1>8, <3>1
      <4>2. QED
        BY <1>3, <3>1, <4>1, Zenon DEF Web!ParamsIn
    <3>3. PICK m \in P : j = off + m
      BY <1>6, <3>2 DEF Moved
    <3>4. m \in 1 .. k /\ Web!IsParam(own[m])
      BY <1>1, <1>3, <1>4, <1>7, <1>8, <3>1, <3>3 DEF Web!ParamsIn
    <3>5. QED
      BY <1>1, <3>3, <3>4 DEF Moved, ParamsTo
  <2>2. ASSUME NEW j \in Moved(ParamsTo(own, k), off)
        PROVE  j \in ParamsTo(d, i)
    <3>1. PICK m \in ParamsTo(own, k) : j = off + m
      BY DEF Moved
    <3>2. m \in 1 .. k /\ Web!IsParam(own[m])
      BY DEF ParamsTo
    <3>3. m \in 1 .. l /\ j \in 1 .. i
      BY <1>1, <1>7, <1>8, <3>1, <3>2
    <3>4. Web!IsParam(d[j])
      BY <1>2, <3>1, <3>2, <3>3
    <3>5. QED
      BY <3>3, <3>4 DEF ParamsTo
  <2>3. QED
    BY <2>1, <2>2
<1>10. /\ IsFiniteSet(ParamsTo(own, k)) /\ ParamsTo(own, k) \subseteq Nat
  <2>1. ParamsTo(own, k) \subseteq 1 .. k /\ k \in Int /\ 1 \in Int
    BY <1>8 DEF ParamsTo
  <2>2. QED
    BY <2>1, FS_Interval, FS_Subset
<1>11. Cardinality(ParamsTo(d, i)) = Cardinality(ParamsTo(own, k))
  BY <1>1, <1>9, <1>10, MovedIs
<1>12. Web!Nth(d, i) = Web!Nth(own, k)
  BY <1>11, SizeIs DEF Web!Nth, ParamsTo
<1>13. QED
  BY <1>3, <1>7, <1>8, <1>12

\* A segment that is no parameter takes what fits it.
LEMMA LiteralsParse ==
  ASSUME NEW s, ~Web!IsParam(s), NEW x
  PROVE  Web!Parses(x, s.type)
BY DEF Web!IsParam, Web!Parses

\* When no parameter is in error the whole path has been validated.
LEMMA PathIsChecked ==
  ASSUME NEW e, IsLeaf(e), NEW q \in WebAsk, Web!Fits(e, q.path), ~Web!PathError(e, q),
         Cardinality(Web!ParamsIn(e.own)) = Cardinality(Web!ParamsIn(e.declared)),
         NEW i \in DOMAIN q.path
  PROVE  Web!Parses(q.path[i], e.declared[i].type)
<1>1. PICK s \in WebScope : \E t \in Range(s.routes) : IsLeafOf(e, s, t)
  BY DEF IsLeaf
<1>2. PICK t \in Range(s.routes) : IsLeafOf(e, s, t)
  BY <1>1
<1>3. /\ t.path \in Seq(Web!Segment) /\ t.version \in STRING
      /\ e.own = t.path /\ e.path = Web!Strip(e.declared)
  BY <1>2, ScopeIs DEF IsLeafOf, Web!IsRoute
<1>4. PICK prefix \in Seq(Web!Segment) : e.declared = Declared(t.version, prefix, t.path)
  BY <1>2 DEF IsLeafOf
<1>5. PICK v \in STRING, own \in Seq(Web!Segment), d \in Seq(Web!Segment) :
        /\ v = t.version /\ own = t.path /\ d = e.declared
        /\ d = Declared(v, prefix, own)
  BY <1>3, <1>4, DeclaredIs
<1>6. /\ DOMAIN e.path = DOMAIN d
      /\ \A j \in DOMAIN d : Web!IsParam(e.path[j]) <=> Web!IsParam(d[j])
  BY <1>3, <1>5, StripIs
<1>7. DOMAIN d = 1 .. Len(d) /\ Len(d) \in Nat /\ DOMAIN q.path = DOMAIN d
  <2>1. /\ q.path \in Seq(STRING) /\ Len(e.path) = Len(q.path)
    BY WebAssumption DEF Web!Configured, Web!Fits
  <2>2. DOMAIN d = 1 .. Len(d) /\ Len(d) \in Nat
    BY LenProperties
  <2>3. Len(e.path) = Len(d)
    <3>1. e.path = [j \in 1 .. Len(d) |-> e.path[j]]
      BY <1>3, <1>5, <2>2 DEF Web!Strip
    <3>2. e.path \in [1 .. Len(d) -> Range(e.path)]
      BY <1>6, <2>2, <3>1 DEF Range
    <3>3. e.path \in Seq(Range(e.path))
      BY <2>2, <3>2, SeqDef
    <3>4. DOMAIN e.path = 1 .. Len(e.path) /\ Len(e.path) \in Nat
      BY <3>3, LenProperties
    <3>5. 1 .. Len(e.path) = 1 .. Len(d)
      BY <1>6, <2>2, <3>4
    <3>6. QED
      BY <2>2, <3>4, <3>5
  <2>4. DOMAIN q.path = 1 .. Len(q.path)
    BY <2>1, LenProperties
  <2>5. QED
    BY <2>1, <2>2, <2>3, <2>4
<1>8. CASE ~Web!IsParam(d[i])
  BY <1>5, <1>8, LiteralsParse
<1>9. CASE Web!IsParam(d[i])
  <2>1. PICK k \in Web!ParamsIn(own) : d[i] = own[k] /\ Web!Nth(d, i) = Web!Nth(own, k)
    <3>1. Cardinality(Web!ParamsIn(own)) = Cardinality(Web!ParamsIn(d))
      BY <1>3, <1>5, SizeIs
    <3>2. i \in DOMAIN d
      BY <1>7
    <3>3. d = Declared(v, prefix, own)
      BY <1>5
    <3>4. QED
      BY <1>9, <3>1, <3>2, <3>3, OwnParams
  <2>2. i \in Web!ParamsIn(e.path)
    BY <1>6, <1>7, <1>9 DEF Web!ParamsIn
  <2>3. Web!Nth(e.path, i) = Web!Nth(d, i)
    <3>1. \A j \in 1 .. i : j \in DOMAIN d
      BY <1>7
    <3>2. ParamsTo(e.path, i) = ParamsTo(d, i)
      BY <1>6, <3>1 DEF ParamsTo
    <3>3. QED
      BY <3>2 DEF Web!Nth, ParamsTo
  <2>4. Web!Parses(q.path[i], own[k].type)
    BY <1>3, <1>5, <2>1, <2>2, <2>3 DEF Web!PathError
  <2>5. QED
    BY <1>5, <2>1, <2>4
<1>10. QED
  BY <1>8, <1>9

\* A handler of the meta kind that is called has no error in its inputs.
LEMMA CalledIsChecked ==
  ASSUME NEW e, NEW q, e.handler = "meta", Web!Result(e, q) = "called"
  PROVE  /\ ~Web!PathError(e, q)
         /\ e.request /\ q.method = "POST" => q.body = "valid"
         /\ e.query => q.query = "valid"
<1>1. ~Web!PathError(e, q) /\ ~Web!QueryError(e, q) /\ ~Web!BodyError(e, q)
  BY DEF Web!Result
<1>2. QED
  BY <1>1 DEF Web!QueryError, Web!BodyError

\* InputsAreChecked of a request that is served.
LEMMA ServeKeepsInputs ==
  ASSUME WebInv, NEW q \in WebAsk, Web!Serve(q)
  PROVE  InputsAreChecked'
<1> SUFFICES ASSUME NEW e, e = served'.route, e # Nil, served'.result = "called",
                    e.handler = "meta"
             PROVE  /\ Web!Cardinality(Web!ParamsIn(e.own))
                         = Web!Cardinality(Web!ParamsIn(e.declared)) =>
                         \A i \in DOMAIN q.path :
                           Web!Parses(q.path[i], e.declared[i].type)
                    /\ e.request /\ q.method = "POST" => q.body = "valid"
                    /\ e.query => q.query = "valid"
  BY ServeIs DEF InputsAreChecked, Web!InputsAreChecked
<1>1. e \in Web!Found(q) /\ Web!Result(e, q) = "called"
  BY ServeIs
<1>2. /\ ~Web!PathError(e, q)
      /\ e.request /\ q.method = "POST" => q.body = "valid"
      /\ e.query => q.query = "valid"
  BY <1>1, CalledIsChecked
<1>3. IsLeaf(e) /\ Web!Fits(e, q.path)
  <2>1. IsServedAs(e, DOMAIN routers, registry) /\ Web!Fits(e, q.path)
    BY <1>1, FoundIs
  <2>2. ~IsBuiltin(e)
    BY BuiltinIs
  <2>3. QED
    BY <2>1, <2>2 DEF IsServedAs
<1>4. QED
  BY <1>2, <1>3, SizeIs, PathIsChecked

(***************************************************************************)
(* The description and what is served.                                     *)
(***************************************************************************)
\* The error that a handler's route answers before the handler is described.
LEMMA ErrorIsDescribed ==
  ASSUME NEW e, e.handler \in {"v1", "v2", "meta"}, NEW q,
         NEW result, result = Web!Result(e, q), result # "called"
  PROVE  \/ Web!Status(result) \in Web!AutoErrorResponses(e)
         \/ e.query /\ ~e.request /\ Web!ParamsIn(e.own) = {}
<1>1. CASE result = "VALIDATION_ERROR"
  BY <1>1 DEF Web!Status, Web!AutoErrorResponses
<1>2. CASE result \in {"ERR_INVALID_PATH_PARAM", "ERROR_PARSING_QUERY_PARAMS",
                       "ERROR_PARSING_BODY", "ERROR_DECODE_BODY"}
  <2>1. Web!Status(result) = 400
    BY <1>2 DEF Web!Status
  <2>2. e.request \/ e.query \/ Web!ParamsIn(e.own) # {}
    BY <1>2 DEF Web!Result, Web!ReadBody, Web!PathError, Web!QueryError, Web!BodyError
  <2>3. QED
    BY <2>1, <2>2 DEF Web!AutoErrorResponses
<1>3. QED
  BY <1>1, <1>2 DEF Web!Result, Web!ReadBody

\* DescribedAsServed of a request that is served.
LEMMA ServeKeepsDescription ==
  ASSUME WebInv, NEW q \in WebAsk, Web!Serve(q)
  PROVE  DescribedAsServed'
<1> SUFFICES ASSUME NEW e, e = served'.route, e # Nil, options.openapi,
                    Version(e) \in DOMAIN routers
             PROVE  LET op == Web!Operation(e)
                    IN /\ op \in DOMAIN spec /\ spec[op].name = e.name
                       /\ served'.result \notin {"called", "preflight"} =>
                            \/ Web!Status(served'.result) \in spec[op].errors
                            \/ e.query /\ ~e.request /\ Web!ParamsIn(e.own) = {}
                            \/ served'.result = "UNAUTHORIZED" /\ ~e.security
  BY ServeIs DEF DescribedAsServed, Web!DescribedAsServed, Version
<1>1. e \in Web!Found(q) /\ phase = "started"
  BY ServeIs
<1>2. IsServedAs(e, DOMAIN routers, registry)
  BY <1>1, FoundIs
<1>3. IsLeaf(e) /\ Latest(registry, e)
  <2>1. ~IsBuiltin(e)
    BY BuiltinIs DEF WebInv, WebLogInv, VersionsAre
  <2>2. QED
    BY <1>2, <2>1 DEF IsServedAs
<1>4. /\ Web!Operation(e) \in DOMAIN spec
      /\ spec[Web!Operation(e)] = Web!BuildOperation(e)
  BY <1>1, <1>3 DEF WebInv, WebPhaseInv, Described
<1>5. PICK o : o = spec[Web!Operation(e)]
  OBVIOUS
<1>6. o.name = e.name /\ o.errors = Web!AutoErrorResponses(e)
  BY <1>4, <1>5 DEF Web!BuildOperation
<1>7. ASSUME served'.result \notin {"called", "preflight"}
      PROVE  \/ Web!Status(served'.result) \in o.errors
             \/ e.query /\ ~e.request /\ Web!ParamsIn(e.own) = {}
             \/ served'.result = "UNAUTHORIZED" /\ ~e.security
  <2>1. CASE served'.result = "UNAUTHORIZED"
    BY <1>6, <2>1 DEF Web!Status, Web!AutoErrorResponses
  <2>2. CASE served'.result # "UNAUTHORIZED"
    <3>1. e.handler \in {"v1", "v2", "meta"}
      BY <1>3 DEF IsLeaf, IsLeafOf
    <3>2. PICK result : result = served'.result
      OBVIOUS
    <3>3. result = Web!Result(e, q) /\ result # "called"
      BY <1>7, <2>2, <3>2, ServeIs
    <3>4. QED
      BY <1>6, <3>1, <3>2, <3>3, ErrorIsDescribed
  <2>3. QED
    BY <2>1, <2>2
<1>8. QED
  BY <1>4, <1>5, <1>6, <1>7

(***************************************************************************)
(* The theorems.                                                           *)
(***************************************************************************)
\* What the calls of registerRoutes, the table, the registry and the global
\* middlewares are in every state of the net/http application.
THEOREM WebIsSound == Web!Spec => []WebInv
<1>1. Web!Init => WebInv
  BY WebInitInv
<1>2. WebInv /\ [Web!Next]_(Web!vars) => WebInv'
  BY WebNextInv
<1>3. QED
  BY <1>1, <1>2, PTL DEF Web!Spec

\* A step serves a request, or changes nothing that the properties ask about one
\* that was served.
LEMMA ServedStays ==
  ASSUME WebInv, [Web!Next]_(Web!vars)
  PROVE  \/ \E q \in WebAsk : Web!Serve(q)
         \/ served' = Nil
         \/ UNCHANGED <<options, root, routers, spec, log, served>>
<1>1. CASE phase = "started"
  BY <1>1 DEF Web!Next, Web!vars, Web!routing, Web!AddGlobalMiddleware, Web!InitApp,
     Web!AddController, Web!EnterGroup, Web!SkipGroup, Web!RegisterLeaf, Web!Leave,
     Web!Start, Web!Panic, Web!OnTop
<1>2. CASE phase # "started"
  <2>1. served = Nil
    BY <1>2 DEF WebInv, WebPhaseInv
  <2>2. (\E q \in WebAsk : Web!Serve(q)) \/ served' = served
    BY DEF Web!Next, Web!vars, Web!AddGlobalMiddleware, Web!InitApp, Web!AddController,
       Web!EnterGroup, Web!SkipGroup, Web!RegisterLeaf, Web!Leave, Web!Start, Web!Panic
  <2>3. QED
    BY <2>1, <2>2
<1>3. QED
  BY <1>1, <1>2

\* A handler is called after the middlewares that are meant for it, each of them
\* once and in order (Start, initPlugins, registerHandler, registerRoutes).
THEOREM MiddlewaresAreMeant == Web!Spec => []MiddlewaresApplyOnce
<1>1. Web!Init => MiddlewaresApplyOnce
  BY DEF Web!Init, MiddlewaresApplyOnce, Web!MiddlewaresApplyOnce
<1>2. ASSUME WebInv, MiddlewaresApplyOnce, [Web!Next]_(Web!vars)
      PROVE  MiddlewaresApplyOnce'
  <2>1. CASE \E q \in WebAsk : Web!Serve(q)
    BY <1>2, <2>1, ServeKeepsMiddlewares
  <2>2. CASE served' = Nil
    BY <2>2 DEF MiddlewaresApplyOnce, Web!MiddlewaresApplyOnce
  <2>3. CASE UNCHANGED <<options, root, routers, spec, log, served>>
    <3>1. Web!Outer' = Web!Outer
      BY <2>3 DEF Web!Outer
    <3>2. QED
      BY <1>2, <2>3, <3>1 DEF MiddlewaresApplyOnce, Web!MiddlewaresApplyOnce
  <2>4. QED
    BY <1>2, <2>1, <2>2, <2>3, ServedStays
<1>3. QED
  BY <1>1, <1>2, WebIsSound, PTL DEF Web!Spec

\* A HandlerV2 with a RouteDoc is called with a path, a query and a body that have
\* been validated (wrapHandlerV2WithMeta).
THEOREM InputsAreRight == Web!Spec => []InputsAreChecked
<1>1. Web!Init => InputsAreChecked
  BY DEF Web!Init, InputsAreChecked, Web!InputsAreChecked
<1>2. ASSUME WebInv, InputsAreChecked, [Web!Next]_(Web!vars)
      PROVE  InputsAreChecked'
  <2>1. CASE \E q \in WebAsk : Web!Serve(q)
    BY <1>2, <2>1, ServeKeepsInputs
  <2>2. CASE served' = Nil \/ served' = served
    BY <1>2, <2>2 DEF InputsAreChecked, Web!InputsAreChecked
  <2>3. QED
    BY <1>2, <2>1, <2>2, ServedStays
<1>3. QED
  BY <1>1, <1>2, WebIsSound, PTL DEF Web!Spec

\* The description has the operation of every request that a versioned route
\* serves, and the error it is answered before its handler (buildOpenAPISpec,
\* autoErrorResponses).
THEOREM DescriptionIsRight == Web!Spec => []DescribedAsServed
<1>1. Web!Init => DescribedAsServed
  BY DEF Web!Init, DescribedAsServed, Web!DescribedAsServed
<1>2. ASSUME WebInv, DescribedAsServed, [Web!Next]_(Web!vars)
      PROVE  DescribedAsServed'
  <2>1. CASE \E q \in WebAsk : Web!Serve(q)
    BY <1>2, <2>1, ServeKeepsDescription
  <2>2. CASE served' = Nil
    BY <2>2 DEF DescribedAsServed, Web!DescribedAsServed
  <2>3. CASE UNCHANGED <<options, root, routers, spec, log, served>>
    BY <1>2, <2>3 DEF DescribedAsServed, Web!DescribedAsServed
  <2>4. QED
    BY <1>2, <2>1, <2>2, <2>3, ServedStays
<1>3. QED
  BY <1>1, <1>2, WebIsSound, PTL DEF Web!Spec

\* The behaviours that the run checks are behaviours of both applications: what is
\* proved of App and of FastApp holds of them.
THEOREM RoutesRunTheApps == RoutesSpec => Web!Spec /\ Spec
<1>1. RoutesInit => Web!Init /\ Init
  BY DEF RoutesInit
<1>2. ASSUME [RoutesNext]_<<live, webVars, vars>>
      PROVE  [Web!Next]_(Web!vars) /\ [Next]_vars
  BY <1>2 DEF RoutesNext, webVars, Web!vars, Web!routing
<1>3. QED
  BY <1>1, <1>2, PTL DEF RoutesSpec, Web!Spec, Spec
=============================================================================
