---------------------------- MODULE FastAppProofs ----------------------------
(***************************************************************************)
(* Proofs about the native fasthttp application, for any controllers,      *)
(* requests, pooled objects and capacities of slices.                      *)
(***************************************************************************)
EXTENDS FastApp, SequenceLemmas

\* Where a request may be.
Place == {"idle", "global", "route", "handler", "rejected", "none", "panic", "done"}

(***************************************************************************)
(* The pooled FastRequests.                                                *)
(***************************************************************************)
\* A FastRequest is in the pool at most once, and never while a handler has it.
PoolInv ==
  /\ pc \in [Req -> Place] /\ held \in [Req -> Object \cup {Nil}]
  /\ ctx \in [Object -> Req \cup {Nil, "unused"}] /\ pool \in [Object -> {0, 1}]
  /\ \A o \in Object : ctx[o] = "unused" => pool[o] = 0
  /\ \A r \in Req : pc[r] = "handler" =>
       held[r] \in Object /\ ctx[held[r]] = r /\ pool[held[r]] = 0

\* Only two steps concern the pool.
LEMMA PoolSteps ==
  ASSUME PoolInv, [Next]_vars
  PROVE  \/ \E r \in Req : Obtain(r) \/ Return(r)
         \/ /\ UNCHANGED <<held, ctx, pool>> /\ pc' \in [Req -> Place]
            /\ \A r \in Req : pc'[r] = "handler" => pc[r] = "handler"
<1> DEFINE Apart == /\ UNCHANGED <<held, ctx, pool>> /\ pc' \in [Req -> Place]
                    /\ \A r \in Req : pc'[r] = "handler" => pc[r] = "handler"
<1>1. CASE Register \/ UNCHANGED vars
  <2>1. UNCHANGED <<held, ctx, pool, pc>>
    BY <1>1 DEF Register, vars, serving, AddGlobalMiddleware, AddController, EnterGroup,
                SkipGroup, RegisterLeaf, Leave, ComposeHandler
  <2>2. QED
    BY <2>1 DEF PoolInv
<1>2. ASSUME NEW r \in Req, Serve(r), ~Obtain(r), ~Return(r)
      PROVE  Apart
  <2>1. ASSUME NEW q \in Ask, Arrive(r, q)
        PROVE  Apart
    BY <2>1 DEF Arrive, Move, PoolInv, Place
  <2>2. CASE Pass(r) \/ Reject(r)
    BY <2>2 DEF Pass, Reject, PoolInv, Place
  <2>3. CASE Dispatch(r)
    <3>1. /\ UNCHANGED <<held, ctx, pool>>
          /\ \E l \in {"route", "none", "panic"} : pc' = [pc EXCEPT ![r] = l]
      BY <2>3 DEF Dispatch
    <3>2. QED
      BY <3>1 DEF PoolInv, Place
  <2>4. CASE AnswerPing(r)
    BY <2>4 DEF AnswerPing, Move, PoolInv, Place
  <2>5. QED
    BY <1>2, <2>1, <2>2, <2>3, <2>4 DEF Serve
<1>3. QED
  BY <1>1, <1>2 DEF Next

\* A request that gets a FastRequest gets one that no handler has.
LEMMA ObtainKeepsPool ==
  ASSUME PoolInv, NEW r \in Req, Obtain(r)
  PROVE  PoolInv'
<1>1. PICK o \in Object :
        /\ pool[o] > 0 \/ ctx[o] = "unused"
        /\ pool' = [pool EXCEPT ![o] = IF @ > 0 THEN @ - 1 ELSE 0]
        /\ ctx' = [ctx EXCEPT ![o] = r]
        /\ held' = [held EXCEPT ![r] = o]
        /\ pc' = [pc EXCEPT ![r] = "handler"]
  BY DEF Obtain, Move
<1>2. /\ pool' \in [Object -> {0, 1}] /\ pool'[o] = 0
      /\ \A p \in Object : p # o => pool'[p] = pool[p] /\ ctx'[p] = ctx[p]
      /\ ctx'[o] = r /\ held'[r] = o
  <2>1. pool \in [Object -> {0, 1}] /\ (pool[o] = 0 \/ pool[o] = 1)
        /\ DOMAIN ctx = Object /\ DOMAIN held = Req
    BY DEF PoolInv
  <2>2. QED
    BY <1>1, <2>1
<1>3. \A s \in Req : s # "unused"
  BY FastAssumption
<1>4. \A s \in Req : s # r /\ pc'[s] = "handler" => /\ held[s] \in Object /\ held[s] # o
                                                    /\ held'[s] = held[s]
                                                    /\ ctx[held[s]] = s /\ pool[held[s]] = 0
  <2>1. ASSUME NEW s \in Req, s # r, pc'[s] = "handler"
        PROVE  /\ held[s] \in Object /\ held[s] # o /\ held'[s] = held[s]
               /\ ctx[held[s]] = s /\ pool[held[s]] = 0
    <3>1. pc[s] = "handler" /\ held'[s] = held[s]
      BY <1>1, <2>1 DEF PoolInv
    <3>2. held[s] \in Object /\ ctx[held[s]] = s /\ pool[held[s]] = 0
      BY <3>1 DEF PoolInv
    <3>3. held[s] # o
      BY <1>1, <1>3, <3>2
    <3>4. QED
      BY <3>1, <3>2, <3>3
  <2>2. QED
    BY <2>1
<1>5. \A p \in Object : ctx'[p] = "unused" => pool'[p] = 0
  BY <1>2, <1>3 DEF PoolInv
<1>6. \A s \in Req : pc'[s] = "handler" =>
        held'[s] \in Object /\ ctx'[held'[s]] = s /\ pool'[held'[s]] = 0
  BY <1>2, <1>4
<1>7. /\ pc' \in [Req -> Place] /\ held' \in [Req -> Object \cup {Nil}]
      /\ ctx' \in [Object -> Req \cup {Nil, "unused"}]
  BY <1>1 DEF PoolInv, Place
<1>8. QED
  BY <1>2, <1>5, <1>6, <1>7 DEF PoolInv

\* A handler that returns puts its own FastRequest back, or keeps it for ever.
LEMMA ReturnKeepsPool ==
  ASSUME PoolInv, NEW r \in Req, Return(r)
  PROVE  PoolInv'
<1>1. PICK n \in {0, 1} :
        /\ pool' = [pool EXCEPT ![held[r]] = @ + n]
        /\ ctx' = [ctx EXCEPT ![held[r]] = IF n > 0 THEN Nil ELSE @]
        /\ held' = [held EXCEPT ![r] = Nil]
        /\ pc[r] = "handler" /\ pc' = [pc EXCEPT ![r] = "done"]
  <2>1. PICK o \in Outcomes :
          /\ pool' = [pool EXCEPT ![held[r]] = @ + Released(r, o)]
          /\ ctx' = [ctx EXCEPT ![held[r]] = IF Released(r, o) > 0 THEN Nil ELSE @]
    BY DEF Return
  <2>2. PICK n \in {0, 1} : n = Released(r, o)
    BY DEF Released
  <2>3. QED
    BY <2>1, <2>2 DEF Return, Move
<1>2. PICK o \in Object : o = held[r] /\ ctx[o] = r /\ pool[o] = 0
  BY <1>1 DEF PoolInv
<1>3. Nil # "unused" /\ r # "unused"
  BY FastAssumption
<1>4. /\ pool' \in [Object -> {0, 1}] /\ pool'[o] = n
      /\ ctx' \in [Object -> Req \cup {Nil, "unused"}] /\ ctx'[o] # "unused"
      /\ \A p \in Object : p # o => pool'[p] = pool[p] /\ ctx'[p] = ctx[p]
  <2>1. /\ pool' = [pool EXCEPT ![o] = 0 + n]
        /\ ctx' = [ctx EXCEPT ![o] = IF n > 0 THEN Nil ELSE r]
        /\ pool \in [Object -> {0, 1}] /\ ctx \in [Object -> Req \cup {Nil, "unused"}]
    BY <1>1, <1>2 DEF PoolInv
  <2>2. QED
    BY <1>3, <2>1
<1>5. \A s \in Req : pc'[s] = "handler" =>
        /\ s # r /\ held'[s] = held[s] /\ held[s] \in Object /\ held[s] # o
        /\ ctx[held[s]] = s /\ pool[held[s]] = 0
  <2>1. ASSUME NEW s \in Req, pc'[s] = "handler"
        PROVE  s # r /\ pc[s] = "handler" /\ held'[s] = held[s]
    BY <1>1, <2>1 DEF PoolInv
  <2>2. QED
    BY <1>2, <2>1 DEF PoolInv
<1>6. /\ \A p \in Object : ctx'[p] = "unused" => pool'[p] = 0
      /\ \A s \in Req : pc'[s] = "handler" =>
           held'[s] \in Object /\ ctx'[held'[s]] = s /\ pool'[held'[s]] = 0
  <2>1. ASSUME NEW p \in Object, ctx'[p] = "unused"
        PROVE  pool'[p] = 0
    BY <1>4, <2>1 DEF PoolInv
  <2>2. QED
    BY <1>4, <1>5, <2>1
<1>7. pc' \in [Req -> Place] /\ held' \in [Req -> Object \cup {Nil}]
  BY <1>1 DEF PoolInv, Place
<1>8. QED
  BY <1>4, <1>6, <1>7 DEF PoolInv

LEMMA PoolInvariant == Spec => []PoolInv
<1>1. Init => PoolInv
  BY DEF Init, PoolInv, Place
<1>2. PoolInv /\ [Next]_vars => PoolInv'
  <2> SUFFICES ASSUME PoolInv, [Next]_vars
               PROVE  PoolInv'
    OBVIOUS
  <2>1. CASE \E r \in Req : Obtain(r) \/ Return(r)
    BY <2>1, ObtainKeepsPool, ReturnKeepsPool
  <2>2. CASE /\ UNCHANGED <<held, ctx, pool>> /\ pc' \in [Req -> Place]
             /\ \A r \in Req : pc'[r] = "handler" => pc[r] = "handler"
    BY <2>2 DEF PoolInv
  <2>3. QED
    BY <2>1, <2>2, PoolSteps
<1>3. QED
  BY <1>1, <1>2, PTL DEF Spec

\* A handler sees the ctx of its own request, for any number of requests and of
\* pooled FastRequests, although they are recycled and a panic keeps one.
THEOREM ContextsAreOwn == Spec => []HandlerSeesOwnContext
<1>1. PoolInv => HandlerSeesOwnContext
  BY DEF PoolInv, HandlerSeesOwnContext
<1>2. QED
  BY <1>1, PoolInvariant, PTL

(***************************************************************************)
(* The answers.                                                            *)
(***************************************************************************)
\* A request whose handler has returned a Response is answered by it, for good.
AnswerInv ==
  /\ pc \in [Req -> Place] /\ outcome \in [Req -> Outcomes \cup {Nil}]
  /\ DOMAIN answer = Req
  /\ \A r \in Req : outcome[r] # Nil =>
       /\ pc[r] = "done"
       /\ outcome[r].ends = "return" => answer[r] = Answer(outcome[r])

LEMMA AnswerInvariant == Spec => []AnswerInv
<1>1. Init => AnswerInv
  BY DEF Init, AnswerInv, Place
<1>2. AnswerInv /\ [Next]_vars => AnswerInv'
  <2> SUFFICES ASSUME AnswerInv, [Next]_vars
               PROVE  AnswerInv'
    OBVIOUS
  <2>1. CASE Register \/ UNCHANGED vars
    <3>1. UNCHANGED <<pc, outcome, answer>>
      BY <2>1 DEF Register, vars, serving, AddGlobalMiddleware, AddController, EnterGroup,
                  SkipGroup, RegisterLeaf, Leave, ComposeHandler
    <3>2. QED
      BY <3>1 DEF AnswerInv
  <2>2. ASSUME NEW r \in Req, Serve(r)
        PROVE  AnswerInv'
    <3>1. CASE Return(r)
      <4>1. PICK o \in Outcomes :
              /\ outcome' = [outcome EXCEPT ![r] = o]
              /\ answer' = [answer EXCEPT ![r] = IF o.ends = "return"
                                                 THEN Answer(o) ELSE Error(500)]
              /\ pc' = [pc EXCEPT ![r] = "done"]
        BY <3>1 DEF Return, Move
      <4>2. QED
        BY <4>1 DEF AnswerInv, Place
    <3>2. CASE ~Return(r)
      <4> DEFINE Apart ==
            /\ pc[r] # "done" /\ UNCHANGED outcome
            /\ pc' \in [Req -> Place] /\ DOMAIN answer' = Req
            /\ \A s \in Req \ {r} : pc'[s] = pc[s] /\ answer'[s] = answer[s]
      <4>1. Apart
        <5>1. ASSUME NEW q \in Ask, Arrive(r, q)
              PROVE  Apart
          BY <5>1 DEF Arrive, Move, AnswerInv, Place
        <5>2. CASE Pass(r) \/ Reject(r)
          BY <5>2 DEF Pass, Reject, AnswerInv, Place
        <5>3. CASE Dispatch(r)
          <6>1. /\ pc[r] = "global" /\ UNCHANGED outcome
                /\ \/ pc' = [pc EXCEPT ![r] = "route"] /\ UNCHANGED answer
                   \/ /\ pc' = [pc EXCEPT ![r] = "none"]
                      /\ answer' = [answer EXCEPT ![r] = Error(404)]
                   \/ /\ pc' = [pc EXCEPT ![r] = "panic"]
                      /\ answer' = [answer EXCEPT ![r] = Error(500)]
            BY <5>3 DEF Dispatch
          <6>2. QED
            BY <6>1 DEF AnswerInv, Place
        <5>4. CASE AnswerPing(r)
          BY <5>4 DEF AnswerPing, Move, AnswerInv, Place
        <5>5. CASE Obtain(r)
          BY <5>5 DEF Obtain, Move, AnswerInv, Place
        <5>6. QED
          <6>1. \/ \E q \in Ask : Arrive(r, q)
                \/ Pass(r) \/ Reject(r) \/ Dispatch(r) \/ AnswerPing(r) \/ Obtain(r)
            BY <2>2, <3>2 DEF Serve
          <6>2. QED
            BY <5>1, <5>2, <5>3, <5>4, <5>5, <6>1
      <4>2. QED
        BY <4>1 DEF AnswerInv
    <3>3. QED
      BY <3>1, <3>2
  <2>3. QED
    BY <2>1, <2>2 DEF Next
<1>3. QED
  BY <1>1, <1>2, PTL DEF Spec

\* Both applications answer a Response alike, whatever handlers make of it, but
\* for an empty one and for an error that is not an HttpError.
THEOREM AnswersAreThoseOfApp == Spec => []AnsweredAsByApp
<1>1. AnswerInv => AnsweredAsByApp
  <2> SUFFICES ASSUME AnswerInv, NEW r \in Req,
                      outcome[r] # Nil, outcome[r].ends = "return"
               PROVE  \/ answer[r] = SendOfApp(outcome[r])
                      \/ ~outcome[r].file /\ outcome[r].err = "plain"
                      \/ outcome[r].err = Nil /\ ~outcome[r].message /\ ~outcome[r].data
    BY DEF AnsweredAsByApp
  <2>1. PICK o \in Outcomes : o = outcome[r]
    BY DEF AnswerInv
  <2>2. answer[r] = Answer(o)
    BY <2>1 DEF AnswerInv
  <2>3. o.err \in {Nil, "http", "plain"}
    BY FastAssumption
  <2>4. \/ Answer(o) = SendOfApp(o)
        \/ ~o.file /\ o.err = "plain"
        \/ o.err = Nil /\ ~o.message /\ ~o.data
    BY <2>3 DEF Answer, SendOfApp
  <2>5. QED
    BY <2>1, <2>2, <2>4
<1>2. QED
  BY <1>1, AnswerInvariant, PTL

(***************************************************************************)
(* Slices.                                                                 *)
(***************************************************************************)
\* A prefix of a sequence.
LEMMA PrefixIs ==
  ASSUME NEW S, NEW s \in Seq(S), NEW n \in 0 .. Len(s)
  PROVE  /\ SubSeq(s, 1, n) \in Seq(S) /\ Len(SubSeq(s, 1, n)) = n
         /\ \A i \in 1 .. n : SubSeq(s, 1, n)[i] = s[i]
<1>1. Len(s) \in Nat /\ n \in Int /\ 1 \in Int
  BY LenProperties
<1>2. \A i \in 1 .. n : s[i] \in S
  BY <1>1, ElementOfSeq
<1>3. /\ SubSeq(s, 1, n) \in Seq(S)
      /\ Len(SubSeq(s, 1, n)) = IF 1 <= n THEN n - 1 + 1 ELSE 0
      /\ \A i \in 1 .. n - 1 + 1 : SubSeq(s, 1, n)[i] = s[1 + i - 1]
  BY <1>1, <1>2, SubSeqProperties
<1>4. QED
  BY <1>1, <1>3

\* Two sequences that begin alike.
LEMMA SamePrefix ==
  ASSUME NEW S, NEW s \in Seq(S), NEW t \in Seq(S), NEW n \in 0 .. Len(s),
         n <= Len(t), \A i \in 1 .. n : s[i] = t[i]
  PROVE  SubSeq(s, 1, n) = SubSeq(t, 1, n)
<1>1. Len(s) \in Nat /\ Len(t) \in Nat /\ n \in 0 .. Len(t)
  BY LenProperties
<1>2. /\ SubSeq(s, 1, n) \in Seq(S) /\ Len(SubSeq(s, 1, n)) = n
      /\ \A i \in 1 .. n : SubSeq(s, 1, n)[i] = s[i]
  BY PrefixIs
<1>3. /\ SubSeq(t, 1, n) \in Seq(S) /\ Len(SubSeq(t, 1, n)) = n
      /\ \A i \in 1 .. n : SubSeq(t, 1, n)[i] = t[i]
  BY <1>1, PrefixIs
<1>4. QED
  BY <1>2, <1>3, SeqEqual

\* A sequence that is overwritten by ms behind its first l elements, up to n.
Overwrites(new, old, l, ms, n) ==
  /\ l \in 0 .. Len(old) /\ n \in 0 .. Len(old) /\ n = l + Len(ms)
  /\ Len(new) = Len(old)
  /\ \A i \in 1 .. l : new[i] = old[i]
  /\ \A i \in l + 1 .. n : new[i] = ms[i - l]

BeginsWith(new, old, l, ms, n) ==
  /\ SubSeq(new, 1, n) = SubSeq(old, 1, l) \o ms
  /\ \A k \in 0 .. l : SubSeq(new, 1, k) = SubSeq(old, 1, k)

\* It begins with what it began with and with ms.
LEMMA OverwriteIs ==
  ASSUME NEW S, NEW old \in Seq(S), NEW ms \in Seq(S), NEW new \in Seq(S),
         NEW l, NEW n, Overwrites(new, old, l, ms, n)
  PROVE  BeginsWith(new, old, l, ms, n)
<1>1. /\ Len(old) \in Nat /\ Len(ms) \in Nat /\ l \in Nat /\ l \in 0 .. Len(old)
      /\ \A i \in 1 .. l : new[i] = old[i]
      /\ \A i \in l + 1 .. n : new[i] = ms[i - l]
  BY LenProperties DEF Overwrites
<1>2. n \in Nat /\ n \in 0 .. Len(new) /\ n = l + Len(ms) /\ Len(new) = Len(old)
  BY <1>1 DEF Overwrites
<1>3. ASSUME NEW k \in 0 .. l
      PROVE  SubSeq(new, 1, k) = SubSeq(old, 1, k)
  <2>1. k \in 0 .. Len(new) /\ k <= Len(old) /\ \A i \in 1 .. k : new[i] = old[i]
    BY <1>1, <1>2
  <2>2. QED
    BY <2>1, SamePrefix
<1>4. PICK p \in Seq(S) : /\ p = SubSeq(new, 1, n) /\ Len(p) = n
                         /\ \A i \in 1 .. n : p[i] = new[i]
  <2>1. /\ SubSeq(new, 1, n) \in Seq(S) /\ Len(SubSeq(new, 1, n)) = n
        /\ \A i \in 1 .. n : SubSeq(new, 1, n)[i] = new[i]
    BY <1>2, PrefixIs
  <2>2. QED
    BY <2>1
<1>5. PICK q \in Seq(S) : /\ q = SubSeq(old, 1, l) /\ Len(q) = l
                         /\ \A i \in 1 .. l : q[i] = old[i]
  <2>1. /\ SubSeq(old, 1, l) \in Seq(S) /\ Len(SubSeq(old, 1, l)) = l
        /\ \A i \in 1 .. l : SubSeq(old, 1, l)[i] = old[i]
    BY <1>1, PrefixIs
  <2>2. QED
    BY <2>1
<1>6. PICK c \in Seq(S) : /\ c = q \o ms /\ Len(c) = n
                         /\ \A i \in 1 .. n : c[i] = IF i <= l THEN q[i] ELSE ms[i - l]
  <2>1. /\ q \o ms \in Seq(S) /\ Len(q \o ms) = Len(q) + Len(ms)
        /\ \A i \in 1 .. Len(q) + Len(ms) :
             (q \o ms)[i] = IF i <= Len(q) THEN q[i] ELSE ms[i - Len(q)]
    BY ConcatProperties
  <2>2. Len(q) = l /\ l + Len(ms) = n
    BY <1>2, <1>5
  <2>3. QED
    BY <2>1, <2>2
<1>7. \A i \in 1 .. n : p[i] = c[i]
  BY <1>1, <1>2, <1>4, <1>5, <1>6
<1>8. p = c
  BY <1>4, <1>6, <1>7, SeqEqual
<1>9. QED
  BY <1>2, <1>3, <1>4, <1>5, <1>6, <1>8 DEF BeginsWith

Elem == STRING \cup {Nil}
Slice == [array : Nat, len : Nat]

\* A slice ends within its backing array.
IsSlice(s, h) == s \in Slice /\ s.array \in 1 .. Len(h) /\ s.len \in 0 .. Len(h[s.array])
ElementsIn(s, h) == SubSeq(h[s.array], 1, s.len)

\* Whether an append to s leaves the elements of u alone.
Shorter(u, s) == u.array = s.array => u.len <= s.len

\* g is h after an append of ms to the slice s, in place; t is the new slice.
InPlace(g, t, h, s, ms) ==
  /\ Len(g) = Len(h) /\ \A j \in 1 .. Len(h) : j # s.array => g[j] = h[j]
  /\ Overwrites(g[s.array], h[s.array], s.len, ms, t.len)
  /\ t \in Slice /\ t.array = s.array

\* An append in place changes nothing that a slice of the same array which is
\* not longer can see.
LEMMA AppendInPlace ==
  ASSUME NEW h \in Seq(Seq(Elem)), NEW g \in Seq(Seq(Elem)), NEW ms \in Seq(Elem),
         NEW s, NEW t, IsSlice(s, h), InPlace(g, t, h, s, ms)
  PROVE  /\ IsSlice(t, g)
         /\ ElementsIn(t, g) = ElementsIn(s, h) \o ms
         /\ \A u : IsSlice(u, h) /\ Shorter(u, s) =>
              IsSlice(u, g) /\ ElementsIn(u, g) = ElementsIn(u, h)
<1>1. PICK a \in 1 .. Len(h), l \in Nat : s.array = a /\ s.len = l /\ l \in 0 .. Len(h[a])
  BY DEF IsSlice, Slice
<1>2. PICK old \in Seq(Elem), new \in Seq(Elem), n \in Nat :
        /\ old = h[a] /\ new = g[a] /\ n = t.len
        /\ Overwrites(new, old, l, ms, n) /\ n \in 0 .. Len(old) /\ Len(new) = Len(old)
  <2>1. h[a] \in Seq(Elem) /\ g[a] \in Seq(Elem)
    BY <1>1, ElementOfSeq DEF InPlace
  <2>2. Overwrites(g[a], h[a], l, ms, t.len) /\ t.len \in Nat
    BY <1>1 DEF InPlace, Slice
  <2>3. QED
    BY <2>1, <2>2 DEF Overwrites
<1>3. Len(h) \in Nat /\ Len(ms) \in Nat /\ Len(old) \in Nat
  BY LenProperties
<1>4. /\ SubSeq(new, 1, n) = SubSeq(old, 1, l) \o ms
      /\ \A k \in 0 .. l : SubSeq(new, 1, k) = SubSeq(old, 1, k)
  <2>1. BeginsWith(new, old, l, ms, n)
    BY <1>2, OverwriteIs
  <2>2. QED
    BY <2>1 DEF BeginsWith
<1>5. /\ t \in Slice /\ t.array = a /\ t.len = n /\ Len(g) = Len(h)
      /\ \A j \in 1 .. Len(h) : j # a => g[j] = h[j]
  BY <1>1, <1>2 DEF InPlace
<1>6. IsSlice(t, g)
  BY <1>1, <1>2, <1>3, <1>5 DEF IsSlice
<1>7. ElementsIn(t, g) = ElementsIn(s, h) \o ms
  BY <1>1, <1>2, <1>4, <1>5 DEF ElementsIn
<1>8. ASSUME NEW u, IsSlice(u, h), Shorter(u, s)
      PROVE  IsSlice(u, g) /\ ElementsIn(u, g) = ElementsIn(u, h)
  <2>1. CASE u.array = a
    <3>1. u.len \in 0 .. l /\ u.len \in 0 .. Len(old) /\ u \in Slice
      BY <1>1, <1>2, <1>8, <2>1 DEF IsSlice, Shorter, Slice
    <3>2. SubSeq(new, 1, u.len) = SubSeq(old, 1, u.len)
      BY <1>4, <3>1
    <3>3. QED
      BY <1>1, <1>2, <1>5, <2>1, <3>1, <3>2 DEF IsSlice, ElementsIn
  <2>2. CASE u.array # a
    <3>1. u.array \in 1 .. Len(h) /\ u \in Slice /\ u.len \in 0 .. Len(h[u.array])
      BY <1>8 DEF IsSlice
    <3>2. g[u.array] = h[u.array]
      BY <1>5, <2>2, <3>1
    <3>3. QED
      BY <1>5, <3>1, <3>2 DEF IsSlice, ElementsIn
  <2>3. QED
    BY <2>1, <2>2
<1>9. QED
  BY <1>6, <1>7, <1>8

\* a is a new array for the elements es, with room to spare; t is the slice.
IsGrown(a, t, h, es) ==
  /\ \E room \in Seq(Elem) : a = es \o room
  /\ t = [array |-> Len(h) + 1, len |-> Len(es)]

\* An append to a slice without room makes an array that nobody has.
LEMMA AppendGrows ==
  ASSUME NEW h \in Seq(Seq(Elem)), NEW es \in Seq(Elem), NEW a \in Seq(Elem),
         NEW t, IsGrown(a, t, h, es)
  PROVE  /\ Append(h, a) \in Seq(Seq(Elem))
         /\ IsSlice(t, Append(h, a)) /\ ElementsIn(t, Append(h, a)) = es
         /\ \A u : IsSlice(u, h) =>
              IsSlice(u, Append(h, a)) /\ ElementsIn(u, Append(h, a)) = ElementsIn(u, h)
<1>1. /\ Len(a) \in Nat /\ Len(es) <= Len(a) /\ \A i \in 1 .. Len(es) : a[i] = es[i]
      /\ Len(es) \in Nat /\ Len(h) \in Nat
  <2>1. PICK room \in Seq(Elem) : a = es \o room
    BY DEF IsGrown
  <2>2. QED
    BY <2>1, ConcatProperties, LenProperties
<1>2. PICK g \in Seq(Seq(Elem)) :
        /\ g = Append(h, a) /\ Len(g) = Len(h) + 1
        /\ \A j \in 1 .. Len(h) : g[j] = h[j]
        /\ g[Len(h) + 1] = a
  BY AppendProperties
<1>3. t \in Slice /\ t.array = Len(h) + 1 /\ t.len = Len(es)
  BY <1>1 DEF Slice, IsGrown
<1>4. SubSeq(a, 1, Len(es)) = es
  <2>1. Len(es) \in 0 .. Len(a) /\ Len(es) <= Len(es)
    BY <1>1
  <2>2. SubSeq(a, 1, Len(es)) = SubSeq(es, 1, Len(es))
    BY <1>1, <2>1, SamePrefix
  <2>3. QED
    BY <2>2, SubSeqFull
<1>5. IsSlice(t, g) /\ ElementsIn(t, g) = es
  BY <1>1, <1>2, <1>3, <1>4 DEF IsSlice, ElementsIn
<1>6. \A u : IsSlice(u, h) => IsSlice(u, g) /\ ElementsIn(u, g) = ElementsIn(u, h)
  BY <1>1, <1>2 DEF IsSlice, ElementsIn
<1>7. QED
  BY <1>2, <1>5, <1>6

\* Slices that are not longer than s keep their elements.
Kept(h, s, g) ==
  \A u : IsSlice(u, h) /\ Shorter(u, s) =>
    IsSlice(u, g) /\ ElementsIn(u, g) = ElementsIn(u, h)

\* t and h are what append makes of the slice s, the heap g and ms.
IsAppended(t, h, s, g, ms) ==
  /\ h \in Seq(Seq(Elem)) /\ IsSlice(t, h)
  /\ ElementsIn(t, h) = ElementsIn(s, g) \o ms
  /\ \/ t.array = s.array /\ t.len >= s.len
     \/ t.array = Len(g) + 1
  /\ Kept(g, s, h)

\* What append returns are the elements of both, and the slices that are not
\* longer keep theirs.
LEMMA AppendedKeeps ==
  ASSUME heap \in Seq(Seq(Elem)), NEW s, IsSlice(s, heap), NEW ms \in Seq(STRING),
         NEW spare \in Nat,
         NEW h, h = Appended(s, ms, spare).heap,
         NEW t, t = Appended(s, ms, spare).slice
  PROVE  IsAppended(t, h, s, heap, ms)
<1> DEFINE n == s.len + Len(ms)
<1>1. ms \in Seq(Elem) /\ Len(ms) \in Nat /\ \A i \in 1 .. Len(ms) : ms[i] \in Elem
  <2>1. ms \in Seq(Elem)
    BY SeqMonotonic DEF Elem
  <2>2. QED
    BY <2>1, LenProperties, ElementOfSeq
<1>2. /\ s \in Slice /\ s.array \in 1 .. Len(heap) /\ s.len \in 0 .. Len(heap[s.array])
      /\ heap[s.array] \in Seq(Elem) /\ Len(heap) \in Nat
  BY ElementOfSeq, LenProperties DEF IsSlice
<1>3. CASE n <= Len(heap[s.array])
  <2>1. PICK old \in Seq(Elem) : /\ old = heap[s.array] /\ DOMAIN old = 1 .. Len(old)
                                /\ Len(old) \in Nat
                                /\ \A i \in 1 .. Len(old) : old[i] \in Elem
    BY <1>2, LenProperties, ElementOfSeq
  <2> DEFINE made == [i \in DOMAIN old |-> IF i \in s.len + 1 .. n
                                           THEN ms[i - s.len] ELSE old[i]]
  <2>2. /\ t = [s EXCEPT !.len = n]
        /\ h = [heap EXCEPT ![s.array] = made]
    BY <1>3, <2>1 DEF Appended
  <2>3. t \in Slice /\ t.array = s.array /\ t.len = n
    <3>1. n \in Nat
      BY <1>1, <1>2 DEF Slice
    <3>2. QED
      BY <1>2, <2>2, <3>1 DEF Slice
  <2>4. made \in Seq(Elem) /\ Len(made) = Len(old)
    <3>1. \A i \in 1 .. Len(old) : i \in s.len + 1 .. n => i - s.len \in 1 .. Len(ms)
      BY <1>1, <1>2, <2>1
    <3>2. \A i \in 1 .. Len(old) : made[i] \in Elem
      BY <1>1, <2>1, <3>1
    <3>3. made \in [1 .. Len(old) -> Elem]
      BY <2>1, <3>2
    <3> HIDE DEF made
    <3>4. made \in Seq(Elem)
      BY <2>1, <3>3, SeqDef
    <3>5. Len(made) = Len(old)
      BY <2>1, <3>3, <3>4, LenProperties
    <3>6. QED
      BY <3>4, <3>5
  <2>5. /\ \A i \in 1 .. s.len : made[i] = old[i]
        /\ \A i \in s.len + 1 .. n : made[i] = ms[i - s.len]
    BY <1>1, <1>2, <1>3, <2>1
  <2> HIDE DEF made
  <2>6. /\ h \in Seq(Seq(Elem)) /\ Len(h) = Len(heap) /\ h[s.array] = made
        /\ \A j \in 1 .. Len(heap) : j # s.array => h[j] = heap[j]
    <3>1. PICK a \in 1 .. Len(heap), new \in Seq(Elem) : a = s.array /\ new = made
      BY <1>2, <2>4
    <3>2. h = [heap EXCEPT ![a] = new]
      BY <2>2, <3>1
    <3>3. QED
      BY <3>1, <3>2, ExceptSeq
  <2>7. /\ IsSlice(t, h)
        /\ ElementsIn(t, h) = ElementsIn(s, heap) \o ms
        /\ \A u : IsSlice(u, heap) /\ Shorter(u, s) =>
             IsSlice(u, h) /\ ElementsIn(u, h) = ElementsIn(u, heap)
    <3>1. InPlace(h, t, heap, s, ms)
      BY <1>1, <1>2, <1>3, <2>1, <2>3, <2>4, <2>5, <2>6 DEF InPlace, Overwrites, Slice
    <3>2. QED
      BY <1>1, <2>6, <3>1, AppendInPlace
  <2>8. t.array = s.array /\ t.len >= s.len
    BY <1>1, <1>2, <2>3
  <2>9. QED
    BY <2>6, <2>7, <2>8 DEF IsAppended, Kept
<1>4. CASE ~ (n <= Len(heap[s.array]))
  <2>1. PICK p \in Seq(Elem) : p = ElementsIn(s, heap) /\ Len(p) = s.len
    <3>1. /\ SubSeq(heap[s.array], 1, s.len) \in Seq(Elem)
          /\ Len(SubSeq(heap[s.array], 1, s.len)) = s.len
      BY <1>2, PrefixIs
    <3>2. QED
      BY <3>1 DEF ElementsIn
  <2>2. PICK es \in Seq(Elem) : es = p \o ms /\ Len(es) = n
    <3>1. p \o ms \in Seq(Elem) /\ Len(p \o ms) = Len(p) + Len(ms)
      BY <1>1, ConcatProperties
    <3>2. QED
      BY <2>1, <3>1
  <2>3. PICK room \in Seq(Elem) : room = [i \in 1 .. spare |-> Nil]
    <3>1. [i \in 1 .. spare |-> Nil] \in Seq(Elem)
      BY DEF Elem
    <3>2. QED
      BY <3>1
  <2>4. PICK a \in Seq(Elem) : a = es \o room
    <3>1. es \o room \in Seq(Elem)
      BY ConcatProperties
    <3>2. QED
      BY <3>1
  <2>5. t = [array |-> Len(heap) + 1, len |-> Len(es)] /\ h = Append(heap, a)
    BY <1>4, <2>1, <2>2, <2>3, <2>4 DEF Appended, Elements, ElementsIn
  <2>6. /\ h \in Seq(Seq(Elem)) /\ IsSlice(t, h) /\ ElementsIn(t, h) = es
        /\ \A u : IsSlice(u, heap) => IsSlice(u, h) /\ ElementsIn(u, h) = ElementsIn(u, heap)
    <3>1. IsGrown(a, t, heap, es)
      BY <2>4, <2>5 DEF IsGrown
    <3>2. QED
      BY <2>5, <3>1, AppendGrows
  <2>7. t.array = Len(heap) + 1
    BY <2>5
  <2>8. QED
    BY <2>1, <2>2, <2>6, <2>7 DEF IsAppended, Kept
<1>5. QED
  BY <1>3, <1>4

\* The bounds of slices are numbers.
LEMMA BoundIs == KeySize \in Nat /\ MaxCapacity \in Nat
BY FastAssumption

(***************************************************************************)
(* Registration.                                                           *)
(***************************************************************************)
\* Segments of patterns, and patterns.
Word == STRING \cup {"ping"}
Filled(s, n) == \A i \in 1 .. n : s[i] # ""
Pattern == {p \in Seq(Word) : p # <<>> /\ Filled(p, 1) /\ Filled(p, Len(p) - 1)}

\* The entries that a leaf t of the scope s may have in the table.
EntriesOf(s, t) ==
  [method : {t.method}, pattern : Pattern, name : {t.name}, kind : {t.kind},
   chain : {s.mws \o t.mws}]
Leaves(s) == {t \in Range(s.routes) : t.subs = Nil}
Entries == {Ping} \cup UNION {UNION {EntriesOf(s, t) : t \in Leaves(s)} : s \in Scope}

\* The call of registerFastRoutes for a scope, and which of two is not longer.
Frame == [prefix : Seq(Name), routes : UNION {Seq(Range(s.routes)) : s \in Scope},
          mws : Slice]
IsFrameOf(f, s, h) ==
  /\ IsSlice(f.mws, h) /\ ElementsIn(f.mws, h) = s.mws
  /\ f.routes \in Seq(Range(s.routes))
Outer == {p \in Frame \X Frame : Shorter(p[2].mws, p[1].mws)}

\* Every call has the middlewares and the routes of a scope; of two calls that
\* share an array, the outer one has the shorter slice.
FramesInv ==
  /\ heap \in Seq(Seq(Elem)) /\ frames \in Seq(Frame)
  /\ \A f \in Range(frames) : \E s \in Scope : IsFrameOf(f, s, heap)
  /\ Sorted(frames, Outer)

\* The table has entries of leaves, each under its own key.
TableInv ==
  /\ params \in Seq(Entries) /\ exact \in [DOMAIN exact -> Entries]
  /\ \A k \in DOMAIN exact : k = <<exact[k].method, exact[k].pattern>>

\* Global middlewares are fixed, with the table, when Handler is called.
SetupInv ==
  /\ FramesInv /\ TableInv /\ globals \in Seq(STRING)
  /\ handler = Nil \/ (handler = globals /\ frames = <<>>)

\* What an entry is.
LEMMA EntryIs ==
  ASSUME NEW e
  PROVE  e \in Entries <=>
           \/ e = Ping
           \/ \E s \in Scope : \E t \in Range(s.routes) :
                /\ t.subs = Nil /\ e \in EntriesOf(s, t)
BY DEF Entries, Leaves

\* What the caller knows of the innermost call.
LEMMA TopIs ==
  ASSUME FramesInv, OnTop
  PROVE  /\ Top \in Frame /\ Rest \in Frame /\ Rest.mws = Top.mws
         /\ \A f \in Range(frames) : Shorter(f.mws, Top.mws)
         /\ Advanced \in Seq(Frame) /\ Sorted(Advanced, Outer)
         /\ \A f \in Range(Advanced) : f = Rest \/ f \in Range(frames)
         /\ \E s \in Scope : /\ IsFrameOf(Top, s, heap) /\ Route \in Range(s.routes)
                             /\ Rest.routes \in Seq(Range(s.routes))
<1>1. frames \in Seq(Frame) /\ frames # <<>> /\ Top.routes # <<>> /\ Sorted(frames, Outer)
  BY DEF FramesInv, OnTop
<1>2. /\ Top \in Frame /\ Tail(frames) \in Seq(Frame)
      /\ Range(frames) = {Top} \cup Range(Tail(frames))
      /\ Sorted(Tail(frames), Outer)
      /\ \A f \in Range(Tail(frames)) : <<Top, f>> \in Outer
  BY <1>1, HeadTailProperties, RangeHeadTail, SortedTail DEF Top
<1>3. PICK s \in Scope : IsFrameOf(Top, s, heap)
  BY <1>2 DEF FramesInv
<1>4. /\ Top.routes \in Seq(Range(s.routes))
      /\ Head(Top.routes) \in Range(s.routes) /\ Tail(Top.routes) \in Seq(Range(s.routes))
  BY <1>1, <1>3, HeadTailProperties DEF IsFrameOf
<1>5. /\ Rest \in Frame /\ Rest.mws = Top.mws /\ Rest.routes = Tail(Top.routes)
  BY <1>2, <1>4 DEF Rest, Frame
<1>6. \A f \in Range(Tail(frames)) : f \in Frame /\ Shorter(f.mws, Top.mws)
  BY <1>2 DEF Outer
<1>7. \A f \in Range(Tail(frames)) : <<Rest, f>> \in Outer
  BY <1>5, <1>6 DEF Outer
<1>8. /\ Advanced \in Seq(Frame) /\ Range(Advanced) = {Rest} \cup Range(Tail(frames))
      /\ Sorted(Advanced, Outer)
  BY <1>2, <1>5, <1>7, SortedPush DEF Advanced
<1>9. Shorter(Top.mws, Top.mws)
  BY <1>2 DEF Shorter, Frame, Slice
<1>10. QED
  BY <1>2, <1>3, <1>4, <1>5, <1>6, <1>8, <1>9 DEF Route

\* An entry that is added, in the list or in the map.
LEMMA HandleKeepsTable ==
  ASSUME TableInv, NEW e \in Entries, Handle(e)
  PROVE  TableInv'
<1>1. CASE params' = Append(params, e) /\ UNCHANGED exact
  BY <1>1, AppendProperties DEF TableInv
<1>2. CASE /\ exact' = [k \in DOMAIN exact \cup {<<e.method, e.pattern>>} |->
                          IF k = <<e.method, e.pattern>> THEN e ELSE exact[k]]
           /\ UNCHANGED params
  BY <1>2 DEF TableInv
<1>3. QED
  BY <1>1, <1>2 DEF Handle

LEMMA FlushKeepsTable ==
  ASSUME TableInv, FlushPendingMiddlewares
  PROVE  TableInv'
<1>1. Ping \in Entries
  BY EntryIs
<1>2. QED
  BY <1>1, HandleKeepsTable DEF FlushPendingMiddlewares, TableInv

\* A sequence that begins with a word that is not "", and goes on with words
\* that are not, but perhaps for the last.
LEMMA PatternIs ==
  ASSUME NEW x \in Seq(Word), NEW y \in Seq(Word), x # <<>>,
         Filled(x, Len(x)), Filled(y, Len(y) - 1)
  PROVE  x \o y \in Pattern
<1>1. PICK p \in Seq(Word) :
        /\ p = x \o y /\ Len(p) = Len(x) + Len(y)
        /\ \A i \in 1 .. Len(x) + Len(y) :
             p[i] = IF i <= Len(x) THEN x[i] ELSE y[i - Len(x)]
  <2>1. /\ x \o y \in Seq(Word) /\ Len(x \o y) = Len(x) + Len(y)
        /\ \A i \in 1 .. Len(x) + Len(y) :
             (x \o y)[i] = IF i <= Len(x) THEN x[i] ELSE y[i - Len(x)]
    BY ConcatProperties
  <2>2. QED
    BY <2>1
<1>2. PICK n \in Nat, m \in Nat : n = Len(x) /\ m = Len(y) /\ n >= 1
  BY LenProperties, EmptySeq
<1>3. ASSUME NEW i \in 1 .. n + m, i <= n \/ i < n + m
      PROVE  p[i] # ""
  <2>1. CASE i <= n
    <3>1. i \in 1 .. n
      BY <2>1
    <3>2. p[i] = x[i]
      BY <1>1, <1>2, <2>1
    <3>3. QED
      BY <1>2, <3>1, <3>2 DEF Filled
  <2>2. CASE ~(i <= n)
    <3>1. i - n \in 1 .. m - 1
      BY <1>3, <2>2
    <3>2. p[i] = y[i - n]
      BY <1>1, <1>2, <2>2
    <3>3. QED
      BY <1>2, <3>1, <3>2 DEF Filled
  <2>3. QED
    BY <2>1, <2>2
<1>4. Len(p) = n + m /\ 1 \in 1 .. n + m /\ 1 <= n
  BY <1>1, <1>2
<1>5. p # <<>>
  BY <1>2, <1>4, EmptySeq
<1>6. p[1] # ""
  BY <1>3, <1>4
<1>7. Filled(p, Len(p) - 1)
  <2>1. \A i \in 1 .. Len(p) - 1 : i \in 1 .. n + m /\ i < n + m
    BY <1>4
  <2>2. QED
    BY <1>3, <2>1 DEF Filled
<1>8. Filled(p, 1)
  <2>1. \A i \in 1 .. 1 : i = 1
    OBVIOUS
  <2>2. QED
    BY <1>6, <2>1 DEF Filled
<1>9. QED
  BY <1>1, <1>5, <1>7, <1>8 DEF Pattern

\* A version, prefixes and a path make a pattern.
LEMMA VersionedIsPattern ==
  ASSUME NEW t, t.version \in Name, IsPath(t.path), NEW prefix \in Seq(Name)
  PROVE  Versioned(t, prefix) \in Pattern
<1>1. PICK v \in Seq(Name) : v = <<t.version>> /\ v # <<>>
  <2>1. PICK w \in Name : w = t.version
    OBVIOUS
  <2>2. <<w>> \in Seq(Name) /\ <<w>> # <<>>
    OBVIOUS
  <2>3. QED
    BY <2>1, <2>2
<1>2. PICK x \in Seq(Name) : x = v \o prefix /\ x # <<>>
  <2>1. v \o prefix \in Seq(Name)
    BY ConcatProperties
  <2>2. v \o prefix # <<>>
    BY <1>1, ConcatEqualIffEmpty
  <2>3. QED
    BY <2>1, <2>2
<1>3. x \in Seq(Word) /\ Filled(x, Len(x))
  <2>1. x \in Seq(Word)
    BY SeqMonotonic DEF Name, Word
  <2>2. \A i \in 1 .. Len(x) : x[i] \in Name
    BY ElementOfSeq
  <2>3. QED
    BY <2>1, <2>2 DEF Name, Filled
<1>4. t.path \in Seq(Word) /\ Filled(t.path, Len(t.path) - 1)
  BY SeqMonotonic DEF IsPath, Word, Filled
<1>5. x \o t.path \in Pattern
  BY <1>2, <1>3, <1>4, PatternIs
<1>6. QED
  BY <1>1, <1>2, <1>5 DEF Versioned

\* The calls that wait are still those of their scopes after an append to the
\* slice of the innermost one.
LEMMA AdvancedKeep ==
  ASSUME FramesInv, OnTop, NEW h, Kept(heap, Top.mws, h)
  PROVE  \A f \in Range(Advanced) : \E s \in Scope : IsFrameOf(f, s, h)
<1>1. ASSUME NEW f \in Range(frames)
      PROVE  \E s \in Scope : IsFrameOf(f, s, h)
  <2>1. PICK s \in Scope : IsFrameOf(f, s, heap)
    BY DEF FramesInv
  <2>2. IsSlice(f.mws, heap) /\ Shorter(f.mws, Top.mws)
    BY <2>1, TopIs DEF IsFrameOf
  <2>3. QED
    BY <2>1, <2>2 DEF IsFrameOf, Kept
<1>2. \E s \in Scope : IsFrameOf(Rest, s, h)
  <2>1. PICK s \in Scope : /\ IsFrameOf(Top, s, heap) /\ Rest.routes \in Seq(Range(s.routes))
    BY TopIs
  <2>2. IsSlice(Rest.mws, heap) /\ Shorter(Rest.mws, Top.mws) /\ Rest.mws = Top.mws
    BY <2>1, TopIs DEF IsFrameOf, Shorter, Frame, Slice
  <2>3. QED
    BY <2>1, <2>2 DEF IsFrameOf, Kept
<1>3. QED
  BY <1>1, <1>2, TopIs

\* A controller's call is that of its scope.
LEMMA AddControllerKeepsFrames ==
  ASSUME FramesInv, NEW c \in Controllers, AddController(c)
  PROVE  FramesInv'
<1>1. PICK spare \in 0 .. MaxCapacity :
        /\ heap' = Append(heap, c.mws \o [i \in 1 .. spare |-> Nil])
        /\ frames' = <<[prefix |-> c.path, routes |-> c.routes,
                        mws |-> [array |-> Len(heap) + 1, len |-> Len(c.mws)]]>>
  BY DEF AddController
<1>2. PICK s \in Scope : /\ s.mws = c.mws /\ s.routes = c.routes
                        /\ c.mws \in Seq(STRING) /\ c.routes \in Seq(Range(c.routes))
                        /\ c.path \in Seq(Name)
  BY FastAssumption
<1>3. PICK ms \in Seq(Elem) : ms = c.mws
  BY <1>2, SeqMonotonic DEF Elem
<1>4. PICK room \in Seq(Elem) : room = [i \in 1 .. spare |-> Nil]
  <2>1. [i \in 1 .. spare |-> Nil] \in Seq(Elem)
    BY BoundIs DEF Elem
  <2>2. QED
    BY <2>1
<1>5. PICK a \in Seq(Elem) : a = ms \o room
  BY ConcatProperties
<1>6. PICK t : t = [array |-> Len(heap) + 1, len |-> Len(ms)]
  OBVIOUS
<1>7. /\ heap' \in Seq(Seq(Elem)) /\ IsSlice(t, heap') /\ ElementsIn(t, heap') = ms
  <2>1. IsGrown(a, t, heap, ms)
    BY <1>5, <1>6 DEF IsGrown
  <2>2. heap' = Append(heap, a) /\ heap \in Seq(Seq(Elem))
    BY <1>1, <1>3, <1>4, <1>5 DEF FramesInv
  <2>3. QED
    BY <2>1, <2>2, AppendGrows
<1>8. PICK f \in Frame : /\ f = [prefix |-> c.path, routes |-> c.routes, mws |-> t]
                         /\ IsFrameOf(f, s, heap')
  <2>1. t \in Slice
    BY <1>7 DEF IsSlice
  <2>2. [prefix |-> c.path, routes |-> c.routes, mws |-> t] \in Frame
    BY <1>2, <2>1 DEF Frame
  <2>3. QED
    BY <1>2, <1>3, <1>7, <2>2 DEF IsFrameOf
<1>9. frames' = <<f>>
  BY <1>1, <1>3, <1>6, <1>8
<1>10. QED
  <2>1. <<f>> \in Seq(Frame) /\ Range(<<f>>) = {f} /\ Sorted(<<f>>, Outer)
    BY DEF Range, Sorted
  <2>2. QED
    BY <1>7, <1>8, <1>9, <2>1 DEF FramesInv

\* The call for a group is that of the group's scope.
LEMMA EnterGroupKeepsFrames ==
  ASSUME FramesInv, EnterGroup
  PROVE  FramesInv'
<1>0. PICK spare \in 0 .. MaxCapacity :
        LET new == Appended(Top.mws, Route.mws, spare)
        IN /\ heap' = new.heap
           /\ frames' = <<[prefix |-> Top.prefix \o Route.path,
                           mws |-> new.slice, routes |-> Route.subs]>> \o Advanced
  BY DEF EnterGroup
<1>1. PICK h, t :
        /\ h = Appended(Top.mws, Route.mws, spare).heap
        /\ t = Appended(Top.mws, Route.mws, spare).slice
        /\ heap' = h
        /\ frames' = <<[prefix |-> Top.prefix \o Route.path,
                        mws |-> t, routes |-> Route.subs]>> \o Advanced
  BY <1>0
<1>2. OnTop /\ IsGroup /\ spare \in Nat /\ heap \in Seq(Seq(Elem))
  BY BoundIs DEF EnterGroup, FramesInv
<1>3. PICK s \in Scope : IsFrameOf(Top, s, heap) /\ Route \in Range(s.routes)
  BY <1>2, TopIs
<1>4. PICK g \in Scope : /\ g.mws = s.mws \o Route.mws /\ g.routes = Route.subs
                        /\ g.routes \in Seq(Range(g.routes))
                        /\ Route.mws \in Seq(STRING) /\ Route.path \in Seq(Name)
  <2>1. IsRoute(Route, s.mws)
    BY <1>3, FastAssumption
  <2>2. /\ Route.mws \in Seq(STRING) /\ Route.path \in Seq(Name)
        /\ [mws |-> s.mws \o Route.mws, routes |-> Route.subs] \in Scope
    BY <1>2, <2>1 DEF IsRoute, IsGroup
  <2>3. QED
    BY <2>2, FastAssumption
<1>5. /\ h \in Seq(Seq(Elem)) /\ IsSlice(t, h)
      /\ ElementsIn(t, h) = ElementsIn(Top.mws, heap) \o Route.mws
      /\ \/ t.array = Top.mws.array /\ t.len >= Top.mws.len
         \/ t.array = Len(heap) + 1
      /\ Kept(heap, Top.mws, h)
  <2>1. IsSlice(Top.mws, heap)
    BY <1>3 DEF IsFrameOf
  <2>2. IsAppended(t, h, Top.mws, heap, Route.mws)
    BY <1>1, <1>2, <1>4, <2>1, AppendedKeeps
  <2>3. QED
    BY <2>2 DEF IsAppended
<1>6. PICK f \in Frame : /\ f = [prefix |-> Top.prefix \o Route.path,
                                 mws |-> t, routes |-> Route.subs]
                         /\ f.mws = t /\ IsFrameOf(f, g, h)
  <2>1. t \in Slice /\ Top.prefix \in Seq(Name)
    BY <1>2, <1>5, TopIs DEF IsSlice, Frame
  <2>2. Top.prefix \o Route.path \in Seq(Name)
    BY <1>4, <2>1, ConcatProperties
  <2>3. [prefix |-> Top.prefix \o Route.path, mws |-> t, routes |-> Route.subs] \in Frame
    BY <1>4, <2>1, <2>2 DEF Frame
  <2>4. ElementsIn(t, h) = g.mws
    BY <1>3, <1>4, <1>5 DEF IsFrameOf
  <2>5. QED
    BY <1>4, <1>5, <2>3, <2>4 DEF IsFrameOf
<1>7. \A e \in Range(Advanced) : e \in Frame /\ <<f, e>> \in Outer
  <2>1. ASSUME NEW e \in Range(Advanced)
        PROVE  e \in Frame /\ <<f, e>> \in Outer
    <3>1. e \in Frame
      <4>1. Advanced \in Seq(Frame)
        BY <1>2, TopIs
      <4>2. QED
        BY <4>1, <2>1, RangeOfSeq
    <3>2. IsSlice(e.mws, heap) /\ Shorter(e.mws, Top.mws)
      <4>1. CASE e = Rest
        BY <1>2, <1>3, <4>1, TopIs DEF IsFrameOf, Shorter, Frame, Slice
      <4>2. CASE e \in Range(frames)
        BY <1>2, <4>2, TopIs DEF FramesInv, IsFrameOf
      <4>3. QED
        BY <1>2, <2>1, <4>1, <4>2, TopIs
    <3>3. Len(heap) \in Nat
      BY <1>2, LenProperties
    <3>4. Shorter(e.mws, t)
      BY <1>5, <3>2, <3>3, <1>3 DEF Shorter, IsSlice, Slice, IsFrameOf
    <3>5. QED
      BY <1>6, <3>1, <3>4 DEF Outer
  <2>2. QED
    BY <2>1
<1>8. /\ frames' \in Seq(Frame) /\ Range(frames') = {f} \cup Range(Advanced)
      /\ Sorted(frames', Outer)
  <2>1. Advanced \in Seq(Frame) /\ Sorted(Advanced, Outer)
    BY <1>2, TopIs
  <2>2. frames' = <<f>> \o Advanced
    BY <1>1, <1>6
  <2>3. QED
    BY <1>7, <2>1, <2>2, SortedPush
<1>9. \A e \in Range(Advanced) : \E x \in Scope : IsFrameOf(e, x, h)
  BY <1>2, <1>5, AdvancedKeep
<1>10. QED
  BY <1>1, <1>5, <1>6, <1>8, <1>9 DEF FramesInv

\* A leaf's append leaves the calls those of their scopes, and its entry is one
\* of the leaf.
LEMMA LeafIsRegistered ==
  ASSUME FramesInv, RegisterLeaf
  PROVE  FramesInv' /\ \E e \in Entries : Handle(e)
<1>0. PICK spare \in 0 .. MaxCapacity :
        LET new == Appended(Top.mws, Route.mws, spare)
        IN /\ heap' = new.heap /\ frames' = Advanced
           /\ Handle(Entry(SubSeq(new.heap[new.slice.array], 1, new.slice.len)))
  BY DEF RegisterLeaf
<1>1. PICK h, t :
        /\ h = Appended(Top.mws, Route.mws, spare).heap
        /\ t = Appended(Top.mws, Route.mws, spare).slice
        /\ heap' = h /\ frames' = Advanced
        /\ Handle(Entry(SubSeq(h[t.array], 1, t.len)))
  BY <1>0
<1>2. OnTop /\ Route.subs = Nil /\ spare \in Nat /\ heap \in Seq(Seq(Elem))
  BY BoundIs DEF RegisterLeaf, FramesInv
<1>3. PICK s \in Scope : IsFrameOf(Top, s, heap) /\ Route \in Range(s.routes)
  BY <1>2, TopIs
<1>4. IsRoute(Route, s.mws)
  BY <1>3, FastAssumption
<1>5. /\ h \in Seq(Seq(Elem))
      /\ ElementsIn(t, h) = ElementsIn(Top.mws, heap) \o Route.mws
      /\ Kept(heap, Top.mws, h)
  <2>1. IsSlice(Top.mws, heap)
    BY <1>3 DEF IsFrameOf
  <2>2. Route.mws \in Seq(STRING)
    BY <1>4 DEF IsRoute
  <2>3. IsAppended(t, h, Top.mws, heap, Route.mws)
    BY <1>1, <1>2, <2>1, <2>2, AppendedKeeps
  <2>4. QED
    BY <2>3 DEF IsAppended
<1>6. FramesInv'
  <2>1. \A e \in Range(Advanced) : \E x \in Scope : IsFrameOf(e, x, h)
    BY <1>2, <1>5, AdvancedKeep
  <2>2. Advanced \in Seq(Frame) /\ Sorted(Advanced, Outer)
    BY <1>2, TopIs
  <2>3. QED
    BY <1>1, <1>5, <2>1, <2>2 DEF FramesInv
<1>7. Versioned(Route, Top.prefix) \in Pattern
  <2>1. /\ Route.version \in Name /\ IsPath(Route.path) /\ Top.prefix \in Seq(Name)
    BY <1>2, <1>4, TopIs DEF IsRoute, Frame
  <2>2. QED
    BY <2>1, VersionedIsPattern
<1>8. Entry(SubSeq(h[t.array], 1, t.len)) \in EntriesOf(s, Route)
  <2>1. SubSeq(h[t.array], 1, t.len) = s.mws \o Route.mws
    BY <1>3, <1>5 DEF ElementsIn, IsFrameOf
  <2>2. QED
    BY <1>7, <2>1 DEF Entry, EntriesOf
<1>9. Entry(SubSeq(h[t.array], 1, t.len)) \in Entries
  BY <1>2, <1>3, <1>8, EntryIs
<1>10. QED
  BY <1>1, <1>6, <1>9

\* Every step of the set-up keeps this.
LEMMA RegisterKeepsSetup ==
  ASSUME SetupInv, Register
  PROVE  SetupInv'
<1>1. ASSUME NEW m \in Global, AddGlobalMiddleware(m)
      PROVE  SetupInv'
  <2>1. m \in STRING
    BY FastAssumption
  <2>2. Append(globals, m) \in Seq(STRING)
    BY <2>1, AppendProperties DEF SetupInv
  <2>3. UNCHANGED <<frames, heap, exact, params, handler>> /\ handler = Nil
        /\ globals' = Append(globals, m)
    BY <1>1 DEF AddGlobalMiddleware
  <2>4. QED
    BY <2>2, <2>3 DEF SetupInv, FramesInv, TableInv
<1>2. ASSUME NEW c \in Controllers, AddController(c)
      PROVE  SetupInv'
  <2>1. FramesInv'
    BY <1>2, AddControllerKeepsFrames DEF SetupInv
  <2>2. TableInv'
    BY <1>2, FlushKeepsTable DEF SetupInv, AddController
  <2>3. UNCHANGED <<globals, handler>> /\ handler = Nil
    BY <1>2 DEF AddController
  <2>4. QED
    BY <2>1, <2>2, <2>3 DEF SetupInv
<1>3. ASSUME frames # <<>>, UNCHANGED <<globals, handler>>, FramesInv', TableInv'
      PROVE  SetupInv'
  BY <1>3 DEF SetupInv
<1>4. CASE EnterGroup
  <2>1. frames # <<>> /\ UNCHANGED <<globals, handler, exact, params>>
    BY <1>4 DEF EnterGroup, OnTop
  <2>2. FramesInv'
    BY <1>4, EnterGroupKeepsFrames DEF SetupInv
  <2>3. QED
    BY <1>3, <2>1, <2>2 DEF SetupInv, TableInv
<1>5. CASE SkipGroup
  <2>1. /\ OnTop /\ frames # <<>> /\ frames' = Advanced
        /\ UNCHANGED <<globals, handler, exact, params, heap>>
    BY <1>5 DEF SkipGroup, OnTop
  <2>2. Kept(heap, Top.mws, heap)
    BY DEF Kept
  <2>3. \A f \in Range(Advanced) : \E s \in Scope : IsFrameOf(f, s, heap)
    BY <2>1, <2>2, AdvancedKeep DEF SetupInv
  <2>4. Advanced \in Seq(Frame) /\ Sorted(Advanced, Outer)
    BY <2>1, TopIs DEF SetupInv
  <2>5. FramesInv'
    BY <2>1, <2>3, <2>4 DEF SetupInv, FramesInv
  <2>6. QED
    BY <1>3, <2>1, <2>5 DEF SetupInv, TableInv
<1>6. CASE RegisterLeaf
  <2>1. frames # <<>> /\ UNCHANGED <<globals, handler>>
    BY <1>6 DEF RegisterLeaf, OnTop
  <2>2. FramesInv' /\ \E e \in Entries : Handle(e)
    BY <1>6, LeafIsRegistered DEF SetupInv
  <2>3. TableInv'
    BY <2>2, HandleKeepsTable DEF SetupInv
  <2>4. QED
    BY <1>3, <2>1, <2>2, <2>3
<1>7. CASE Leave
  <2>1. /\ frames # <<>> /\ frames' = Tail(frames)
        /\ UNCHANGED <<globals, handler, exact, params, heap>>
    BY <1>7 DEF Leave
  <2>2. frames \in Seq(Frame) /\ Sorted(frames, Outer)
    BY DEF SetupInv, FramesInv
  <2>3. /\ Tail(frames) \in Seq(Frame) /\ Sorted(Tail(frames), Outer)
        /\ \A f \in Range(Tail(frames)) : f \in Range(frames)
    BY <2>1, <2>2, HeadTailProperties, SortedTail, RangeHeadTail
  <2>4. FramesInv'
    BY <2>1, <2>3 DEF SetupInv, FramesInv
  <2>5. QED
    BY <1>3, <2>1, <2>4 DEF SetupInv, TableInv
<1>8. CASE ComposeHandler
  <2>1. TableInv'
    BY <1>8, FlushKeepsTable DEF SetupInv, ComposeHandler
  <2>2. frames' = <<>> /\ heap' = <<>> /\ handler' = globals /\ UNCHANGED globals
    BY <1>8 DEF ComposeHandler
  <2>3. FramesInv'
    BY <2>2 DEF FramesInv, Sorted, Range
  <2>4. QED
    BY <2>1, <2>2, <2>3 DEF SetupInv
<1>9. QED
  BY <1>1, <1>2, <1>4, <1>5, <1>6, <1>7, <1>8 DEF Register

\* Serving leaves it alone, and when requests are served it is over.
LEMMA SetupSteps ==
  ASSUME SetupInv, [Next]_vars
  PROVE  /\ SetupInv'
         /\ (\E r \in Req : Serve(r)) \/ UNCHANGED serving
         /\ handler # Nil => UNCHANGED <<exact, params, globals, handler>>
<1>1. CASE Register
  <2>1. UNCHANGED serving
    BY <1>1 DEF Register, AddGlobalMiddleware, AddController, EnterGroup, SkipGroup,
                RegisterLeaf, Leave, ComposeHandler
  <2>2. handler = Nil
    BY <1>1 DEF Register, AddGlobalMiddleware, AddController, EnterGroup, SkipGroup,
                RegisterLeaf, Leave, ComposeHandler, OnTop, SetupInv
  <2>3. QED
    BY <1>1, <2>1, <2>2, RegisterKeepsSetup
<1>2. CASE \E r \in Req : Serve(r)
  <2>1. UNCHANGED setup
    BY <1>2 DEF Serve, Arrive, Pass, Reject, Dispatch, AnswerPing, Obtain, Return
  <2>2. QED
    BY <1>2, <2>1 DEF setup, SetupInv, FramesInv, TableInv
<1>3. CASE UNCHANGED vars
  BY <1>3 DEF vars, setup, SetupInv, FramesInv, TableInv
<1>4. QED
  BY <1>1, <1>2, <1>3 DEF Next

LEMMA SetupInvariant == Spec => []SetupInv
<1>1. Init => SetupInv
  BY EmptySeq DEF Init, SetupInv, FramesInv, TableInv, Sorted, Range
<1>2. SetupInv /\ [Next]_vars => SetupInv'
  BY SetupSteps
<1>3. QED
  BY <1>1, <1>2, PTL DEF Spec

(***************************************************************************)
(* Chains.                                                                 *)
(***************************************************************************)
\* What a request has passed and what it has still to pass.
ChainOf(r) ==
  CASE pc[r] = "global" -> handler # Nil /\ passed[r] \o chain[r] = globals
    [] pc[r] = "route" -> /\ handler # Nil /\ route[r] \in Entries
                          /\ passed[r] \o chain[r] = globals \o route[r].chain
    [] pc[r] = "handler" -> /\ handler # Nil /\ route[r] \in Entries \ {Ping}
                            /\ passed[r] = globals \o route[r].chain
    [] OTHER -> TRUE

ChainInv ==
  /\ pc \in [Req -> Place] /\ DOMAIN route = Req
  /\ chain \in [Req -> Seq(STRING)] /\ passed \in [Req -> Seq(STRING)]
  /\ \A r \in Req : pc[r] = "idle" => passed[r] = <<>>
  /\ \A r \in Req : pc[r] # "idle" => handler # Nil
  /\ \A r \in Req : ChainOf(r)

\* A middleware that is passed moves from one end to the other.
LEMMA PassedOn ==
  ASSUME NEW S, NEW p \in Seq(S), NEW c \in Seq(S), c # <<>>
  PROVE  /\ Append(p, Head(c)) \in Seq(S) /\ Tail(c) \in Seq(S)
         /\ Append(p, Head(c)) \o Tail(c) = p \o c
<1>1. PICK h \in S, t \in Seq(S) : h = Head(c) /\ t = Tail(c)
  BY HeadTailProperties
<1>2. PICK u \in Seq(S) : u = <<h>>
  <2>1. <<h>> \in Seq(S)
    OBVIOUS
  <2>2. QED
    BY <2>1
<1>3. Append(p, h) \in Seq(S) /\ Append(p, h) = p \o u
  BY <1>2, AppendProperties, AppendIsConcat
<1>4. c = u \o t
  <2>1. 1 \in 1 .. Len(c) /\ Len(c) \in 1 .. Len(c)
    BY EmptySeq
  <2>2. SubSeq(c, 1, Len(c)) = <<c[1]>> \o SubSeq(c, 1 + 1, Len(c))
    BY <2>1, SubSeqRecursiveFirst
  <2>3. Tail(c) = SubSeq(c, 2, Len(c)) /\ SubSeq(c, 1, Len(c)) = c /\ Head(c) = c[1]
    BY TailIsSubSeq, SubSeqFull
  <2>4. QED
    BY <1>1, <1>2, <2>2, <2>3
<1>5. (p \o u) \o t = p \o (u \o t)
  BY ConcatAssociative
<1>6. QED
  BY <1>1, <1>3, <1>4, <1>5

\* The middlewares of an entry.
LEMMA EntryChain ==
  ASSUME NEW e \in Entries
  PROVE  e.chain \in Seq(STRING)
<1>1. CASE e = Ping
  BY <1>1, EmptySeq DEF Ping
<1>2. ASSUME NEW s \in Scope, NEW t \in Range(s.routes), e \in EntriesOf(s, t)
      PROVE  e.chain \in Seq(STRING)
  <2>1. s.mws \in Seq(STRING) /\ IsRoute(t, s.mws)
    BY FastAssumption
  <2>2. t.mws \in Seq(STRING)
    BY <2>1 DEF IsRoute
  <2>3. s.mws \o t.mws \in Seq(STRING)
    BY <2>1, <2>2, ConcatProperties
  <2>4. QED
    BY <1>2, <2>3 DEF EntriesOf
<1>3. QED
  BY <1>1, <1>2, EntryIs

\* A request changes nothing of the others.
LEMMA OthersKeepChains ==
  ASSUME ChainInv, SetupInv, NEW r \in Req, Serve(r), NEW s \in Req, s # r
  PROVE  /\ pc'[s] = pc[s] /\ chain'[s] = chain[s] /\ passed'[s] = passed[s]
         /\ route'[s] = route[s]
<1>1. DOMAIN pc = Req /\ DOMAIN chain = Req /\ DOMAIN passed = Req /\ DOMAIN route = Req
  BY DEF ChainInv
<1>2. CASE Dispatch(r)
  <2>1. /\ UNCHANGED passed
        /\ \/ \E e : /\ pc' = [pc EXCEPT ![r] = "route"]
                     /\ route' = [route EXCEPT ![r] = e]
                     /\ chain' = [chain EXCEPT ![r] = e.chain]
           \/ /\ UNCHANGED <<route, chain>>
              /\ \E l : pc' = [pc EXCEPT ![r] = l]
    BY <1>2 DEF Dispatch
  <2>2. QED
    BY <1>1, <2>1
<1>3. CASE (\E q \in Ask : Arrive(r, q)) \/ Pass(r) \/ Reject(r)
  BY <1>1, <1>3 DEF Arrive, Pass, Reject, Move
<1>4. CASE AnswerPing(r) \/ Obtain(r) \/ Return(r)
  BY <1>1, <1>4 DEF AnswerPing, Obtain, Return, Move
<1>5. QED
  BY <1>2, <1>3, <1>4 DEF Serve

\* What a request has still to pass is what it has not passed.
LEMMA ServeKeepsChain ==
  ASSUME ChainInv, SetupInv, SetupInv', NEW r \in Req, Serve(r),
         handler # Nil, UNCHANGED <<globals, handler>>
  PROVE  /\ pc' \in [Req -> Place] /\ DOMAIN route' = Req
         /\ chain' \in [Req -> Seq(STRING)] /\ passed' \in [Req -> Seq(STRING)]
         /\ pc'[r] # "idle" /\ ChainOf(r)'
<1>1. /\ pc \in [Req -> Place] /\ DOMAIN route = Req
      /\ chain \in [Req -> Seq(STRING)] /\ passed \in [Req -> Seq(STRING)]
      /\ chain[r] \in Seq(STRING) /\ passed[r] \in Seq(STRING)
      /\ globals \in Seq(STRING) /\ handler = globals
  BY DEF ChainInv, SetupInv
<1>2. passed[r] \o <<>> = passed[r] /\ <<>> \o globals = globals
  BY <1>1, ConcatEmptySeq
<1>3. ASSUME NEW q \in Ask, Arrive(r, q)
      PROVE  /\ pc' \in [Req -> Place] /\ DOMAIN route' = Req
             /\ chain' \in [Req -> Seq(STRING)] /\ passed' \in [Req -> Seq(STRING)]
             /\ pc'[r] # "idle" /\ ChainOf(r)'
  <2>1. /\ pc[r] = "idle" /\ pc' = [pc EXCEPT ![r] = "global"]
        /\ chain' = [chain EXCEPT ![r] = globals] /\ UNCHANGED <<passed, route>>
    BY <1>1, <1>3 DEF Arrive, Move
  <2>2. passed[r] = <<>>
    BY <2>1 DEF ChainInv
  <2>3. /\ pc'[r] = "global" /\ chain'[r] = globals /\ passed'[r] = <<>>
        /\ pc' \in [Req -> Place] /\ chain' \in [Req -> Seq(STRING)]
    BY <1>1, <2>1, <2>2 DEF Place
  <2>4. QED
    BY <1>1, <1>2, <2>1, <2>3 DEF ChainOf
<1>4. CASE Pass(r)
  <2>1. /\ pc[r] \in {"global", "route"} /\ chain[r] # <<>> /\ UNCHANGED <<pc, route>>
        /\ chain' = [chain EXCEPT ![r] = Tail(chain[r])]
        /\ passed' = [passed EXCEPT ![r] = Append(passed[r], Head(chain[r]))]
    BY <1>4 DEF Pass
  <2>2. /\ Append(passed[r], Head(chain[r])) \in Seq(STRING)
        /\ Tail(chain[r]) \in Seq(STRING)
        /\ Append(passed[r], Head(chain[r])) \o Tail(chain[r]) = passed[r] \o chain[r]
    BY <1>1, <2>1, PassedOn
  <2>3. /\ chain' \in [Req -> Seq(STRING)] /\ passed' \in [Req -> Seq(STRING)]
        /\ passed'[r] \o chain'[r] = passed[r] \o chain[r]
    BY <1>1, <2>1, <2>2
  <2>4. ChainOf(r)
    BY DEF ChainInv
  <2>5. QED
    BY <1>1, <2>1, <2>3, <2>4 DEF ChainOf
<1>5. CASE Reject(r) \/ AnswerPing(r) \/ Return(r)
  <2>1. /\ pc' = [pc EXCEPT ![r] = "rejected"] \/ pc' = [pc EXCEPT ![r] = "done"]
        /\ UNCHANGED <<chain, passed, route>>
    BY <1>5 DEF Reject, AnswerPing, Return, Move
  <2>2. pc'[r] \in {"rejected", "done"} /\ pc' \in [Req -> Place]
    BY <1>1, <2>1 DEF Place
  <2>3. QED
    BY <1>1, <2>1, <2>2 DEF ChainOf
<1>6. CASE Dispatch(r)
  <2>1. /\ pc[r] = "global" /\ chain[r] = <<>> /\ UNCHANGED passed
        /\ \/ \E e \in Entries : /\ pc' = [pc EXCEPT ![r] = "route"]
                                 /\ route' = [route EXCEPT ![r] = e]
                                 /\ chain' = [chain EXCEPT ![r] = e.chain]
           \/ /\ UNCHANGED <<route, chain>>
              /\ pc' = [pc EXCEPT ![r] = "none"] \/ pc' = [pc EXCEPT ![r] = "panic"]
    <3>1. /\ \A k \in DOMAIN exact : exact[k] \in Entries
          /\ \A i \in DOMAIN params : params[i] \in Entries
      BY ElementOfSeq, LenProperties DEF SetupInv, TableInv
    <3>2. QED
      BY <1>6, <3>1 DEF Dispatch, Hits
  <2>2. passed[r] = globals
    <3>1. ChainOf(r)
      BY DEF ChainInv
    <3>2. QED
      BY <1>1, <1>2, <2>1, <3>1 DEF ChainOf
  <2>3. CASE \E e \in Entries : /\ pc' = [pc EXCEPT ![r] = "route"]
                                /\ route' = [route EXCEPT ![r] = e]
                                /\ chain' = [chain EXCEPT ![r] = e.chain]
    <3>1. PICK e \in Entries : /\ pc' = [pc EXCEPT ![r] = "route"]
                               /\ route' = [route EXCEPT ![r] = e]
                               /\ chain' = [chain EXCEPT ![r] = e.chain]
      BY <2>3
    <3>2. e.chain \in Seq(STRING)
      BY EntryChain
    <3>3. /\ pc'[r] = "route" /\ route'[r] = e /\ chain'[r] = e.chain
          /\ pc' \in [Req -> Place] /\ chain' \in [Req -> Seq(STRING)]
          /\ DOMAIN route' = Req
      BY <1>1, <3>1, <3>2 DEF Place
    <3>4. QED
      BY <1>1, <2>1, <2>2, <3>3 DEF ChainOf
  <2>4. CASE /\ UNCHANGED <<route, chain>>
             /\ pc' = [pc EXCEPT ![r] = "none"] \/ pc' = [pc EXCEPT ![r] = "panic"]
    <3>1. pc'[r] \in {"none", "panic"} /\ pc' \in [Req -> Place]
      BY <1>1, <2>4 DEF Place
    <3>2. QED
      BY <1>1, <2>1, <2>4, <3>1 DEF ChainOf
  <2>5. QED
    BY <2>1, <2>3, <2>4
<1>7. CASE Obtain(r)
  <2>1. /\ pc[r] = "route" /\ pc' = [pc EXCEPT ![r] = "handler"] /\ chain[r] = <<>>
        /\ route[r].kind # "ping" /\ UNCHANGED <<chain, passed, route>>
    BY <1>7 DEF Obtain, Move
  <2>2. route[r] \in Entries \ {Ping} /\ passed[r] = globals \o route[r].chain
    <3>1. ChainOf(r)
      BY DEF ChainInv
    <3>2. QED
      BY <1>2, <2>1, <3>1 DEF ChainOf, Ping
  <2>3. pc'[r] = "handler" /\ pc' \in [Req -> Place]
    BY <1>1, <2>1 DEF Place
  <2>4. QED
    BY <1>1, <2>1, <2>2, <2>3 DEF ChainOf
<1>8. QED
  BY <1>3, <1>4, <1>5, <1>6, <1>7 DEF Serve

LEMMA ChainInvariant == Spec => []ChainInv
<1>1. Init => ChainInv
  BY EmptySeq DEF Init, ChainInv, ChainOf, Place
<1>2. SetupInv /\ SetupInv' /\ ChainInv /\ [Next]_vars => ChainInv'
  <2> SUFFICES ASSUME SetupInv, SetupInv', ChainInv, [Next]_vars
               PROVE  ChainInv'
    OBVIOUS
  <2>1. CASE UNCHANGED serving
    <3>1. UNCHANGED <<pc, chain, passed, route>>
      BY <2>1 DEF serving
    <3>2. CASE handler = Nil
      <4>1. \A r \in Req : pc[r] = "idle"
        BY <3>2 DEF ChainInv
      <4>2. QED
        BY <3>1, <4>1 DEF ChainInv, ChainOf
    <3>3. CASE handler # Nil
      <4>1. UNCHANGED <<globals, handler>>
        BY <3>3, SetupSteps
      <4>2. QED
        BY <3>1, <4>1 DEF ChainInv, ChainOf
    <3>4. QED
      BY <3>2, <3>3
  <2>2. ASSUME NEW r \in Req, Serve(r)
        PROVE  ChainInv'
    <3>1. handler # Nil
      <4>1. handler # Nil \/ pc[r] # "idle"
        BY <2>2 DEF Serve, Arrive, Pass, Reject, Dispatch, AnswerPing, Obtain, Return, Move
      <4>2. QED
        BY <4>1 DEF ChainInv
    <3>2. UNCHANGED <<globals, handler>>
      BY <3>1, SetupSteps
    <3>3. /\ pc' \in [Req -> Place] /\ DOMAIN route' = Req
          /\ chain' \in [Req -> Seq(STRING)] /\ passed' \in [Req -> Seq(STRING)]
          /\ pc'[r] # "idle" /\ ChainOf(r)'
      BY <2>2, <3>1, <3>2, ServeKeepsChain
    <3>4. ASSUME NEW s \in Req, s # r
          PROVE  /\ pc'[s] = "idle" => passed'[s] = <<>>
                 /\ ChainOf(s)'
      <4>1. /\ pc'[s] = pc[s] /\ chain'[s] = chain[s] /\ passed'[s] = passed[s]
            /\ route'[s] = route[s]
        BY <2>2, <3>4, OthersKeepChains
      <4>2. ChainOf(s) /\ (pc[s] = "idle" => passed[s] = <<>>)
        BY DEF ChainInv
      <4>3. QED
        BY <3>2, <4>1, <4>2 DEF ChainOf
    <3>5. QED
      BY <3>1, <3>2, <3>3, <3>4 DEF ChainInv
  <2>3. QED
    BY <2>1, <2>2, SetupSteps
<1>3. QED
  BY <1>1, <1>2, SetupInvariant, PTL DEF Spec

\* Before a handler runs, all global middlewares and those of its controller,
\* its groups and its route have passed, in this order, and no others, whatever
\* the groups, the capacities of slices and the order of registration.
THEOREM ChainsAreOwn == Spec => []ChainIsOwn
<1>1. SetupInv /\ ChainInv => ChainIsOwn
  <2> SUFFICES ASSUME SetupInv, ChainInv, NEW r \in Req, pc[r] = "handler"
               PROVE  \E s \in Scope : \E t \in Range(s.routes) :
                        /\ t.subs = Nil /\ t.name = route[r].name
                        /\ passed[r] = globals \o s.mws \o t.mws
    BY DEF ChainIsOwn
  <2>1. route[r] \in Entries /\ route[r] # Ping /\ passed[r] = globals \o route[r].chain
    <3>1. ChainOf(r)
      BY DEF ChainInv
    <3>2. QED
      BY <3>1 DEF ChainOf
  <2>2. PICK s \in Scope :
          \E t \in Range(s.routes) : t.subs = Nil /\ route[r] \in EntriesOf(s, t)
    BY <2>1, EntryIs
  <2>3. PICK t \in Range(s.routes) : t.subs = Nil /\ route[r] \in EntriesOf(s, t)
    BY <2>2
  <2>4. t.name = route[r].name /\ route[r].chain = s.mws \o t.mws
    BY <2>3 DEF EntriesOf
  <2>5. s.mws \in Seq(STRING) /\ t.mws \in Seq(STRING) /\ globals \in Seq(STRING)
    <3>1. s.mws \in Seq(STRING) /\ IsRoute(t, s.mws)
      BY FastAssumption
    <3>2. QED
      BY <3>1 DEF IsRoute, SetupInv
  <2>6. (globals \o s.mws) \o t.mws = globals \o (s.mws \o t.mws)
    <3>1. PICK g \in Seq(STRING), m \in Seq(STRING), n \in Seq(STRING) :
            g = globals /\ m = s.mws /\ n = t.mws
      BY <2>5
    <3>2. (g \o m) \o n = g \o (m \o n)
      BY ConcatAssociative
    <3>3. QED
      BY <3>1, <3>2
  <2>7. QED
    BY <2>1, <2>3, <2>4, <2>6
<1>2. QED
  BY <1>1, SetupInvariant, ChainInvariant, PTL

(***************************************************************************)
(* Matching.                                                               *)
(***************************************************************************)
Blank(x) == x = ""

\* No parameter is "".
LEMMA BlankIsNoParameter == \A x \in Params : ~Blank(x)
BY FastAssumption DEF Blank

\* n is the length of s without a last segment that is blank.
TrimsTo(s, n) ==
  /\ n \in Nat /\ n <= Len(s) /\ Trimmed(s) \in Seq(Word) /\ Len(Trimmed(s)) = n
  /\ \A i \in 1 .. n : Trimmed(s)[i] = s[i] /\ ~Blank(s[i])
  /\ n = Len(s) \/ (n = Len(s) - 1 /\ Blank(s[Len(s)]))

LEMMA TrimmedIs ==
  ASSUME NEW s \in Seq(Word), Filled(s, Len(s) - 1)
  PROVE  \E n \in Nat : TrimsTo(s, n)
<1>1. Len(s) \in Nat
  BY LenProperties
<1>2. CASE s # <<>> /\ Last(s) = ""
  <2>1. PICK n \in Nat : n = Len(s) - 1 /\ n \in 0 .. Len(s)
    <3>1. s # <<>>
      BY <1>2
    <3>2. Len(s) \in Nat \ {0}
      BY <3>1, EmptySeq
    <3>3. QED
      BY <3>2
  <2>2. /\ SubSeq(s, 1, n) \in Seq(Word) /\ Len(SubSeq(s, 1, n)) = n
        /\ \A i \in 1 .. n : SubSeq(s, 1, n)[i] = s[i]
    BY <2>1, PrefixIs
  <2>3. Trimmed(s) = SubSeq(s, 1, n)
    BY <1>2, <2>1 DEF Trimmed, Front
  <2>4. Blank(s[Len(s)])
    BY <1>2 DEF Last, Blank
  <2>5. \A i \in 1 .. n : ~Blank(s[i])
    BY <2>1 DEF Filled, Blank
  <2>6. QED
    BY <1>1, <2>1, <2>2, <2>3, <2>4, <2>5 DEF TrimsTo
<1>3. CASE ~(s # <<>> /\ Last(s) = "")
  <2>1. Trimmed(s) = s
    BY <1>3 DEF Trimmed
  <2>2. ASSUME NEW i \in 1 .. Len(s)
        PROVE  ~Blank(s[i])
    <3>1. CASE i = Len(s)
      <4>1. s # <<>>
        BY <1>1, <3>1, EmptySeq
      <4>2. QED
        BY <1>3, <3>1, <4>1 DEF Last, Blank
    <3>2. CASE i # Len(s)
      <4>1. i \in 1 .. Len(s) - 1
        BY <1>1, <3>2
      <4>2. QED
        BY <4>1 DEF Filled, Blank
    <3>3. QED
      BY <3>1, <3>2
  <2>3. TrimsTo(s, Len(s))
    BY <1>1, <2>1, <2>2 DEF TrimsTo
  <2>4. QED
    BY <1>1, <2>3
<1>4. QED
  BY <1>2, <1>3

\* A pattern and a path are alike up to n.
Like(p, path, n) == \A i \in 1 .. n : p[i] \in Params \/ p[i] = path[i]

\* What it is to fit, by the lengths of both.
LEMMA FitsIs ==
  ASSUME NEW p \in Seq(Word), NEW path \in Seq(Word), NEW n \in Nat, NEW m \in Nat,
         TrimsTo(p, n), TrimsTo(path, m)
  PROVE  Fits(p, path) <=> \/ Len(p) = Len(path) /\ Like(p, path, Len(p))
                           \/ n \in {m, Len(path)} /\ Like(p, path, n)
<1>1. PICK tp \in Seq(Word), tq \in Seq(Word) :
        /\ tp = Trimmed(p) /\ tq = Trimmed(path) /\ Len(tp) = n /\ Len(tq) = m
        /\ n <= Len(p) /\ m <= Len(path)
        /\ \A i \in 1 .. n : tp[i] = p[i]
        /\ \A i \in 1 .. m : tq[i] = path[i]
  BY DEF TrimsTo
<1>2. /\ DOMAIN p = 1 .. Len(p) /\ DOMAIN tp = 1 .. n
  BY <1>1, LenProperties
<1>3. Alike(p, path) <=> Len(p) = Len(path) /\ Like(p, path, Len(p))
  BY <1>2 DEF Alike, Like
<1>4. Alike(tp, path) <=> n = Len(path) /\ Like(p, path, n)
  BY <1>1, <1>2 DEF Alike, Like
<1>5. Alike(tp, tq) <=> n = m /\ Like(p, path, n)
  BY <1>1, <1>2 DEF Alike, Like
<1>6. QED
  BY <1>1, <1>3, <1>4, <1>5 DEF Fits

\* What it is to match.
Sound(p, path) ==
  \A i \in 1 .. Len(path) : i <= Len(p) => p[i] \in Params \/ p[i] = path[i] \/ Blank(p[i])
Within(p, path) ==
  \A i \in 1 .. Len(path) : Blank(path[i]) \/ (i <= Len(p) /\ ~Blank(p[i]))
Whole(p, path) == \A i \in Len(path) + 1 .. Len(p) : Blank(p[i])

LEMMA MatchesIs ==
  ASSUME NEW p \in Seq(Word), NEW path \in Seq(Word)
  PROVE  /\ Differs(p, path) = {} <=> Sound(p, path)
         /\ Overruns(p, path) = {} <=> Within(p, path)
         /\ Matches(p, path) <=> Sound(p, path) /\ Within(p, path) /\ Whole(p, path)
<1>1. Differs(p, path) = {} <=> Sound(p, path)
  <2>1. ASSUME NEW i \in 1 .. Len(path)
        PROVE  i \in Differs(p, path) <=>
                 i <= Len(p) /\ ~(p[i] \in Params \/ p[i] = path[i] \/ Blank(p[i]))
    BY DEF Differs, Blank
  <2>2. \A i \in Differs(p, path) : i \in 1 .. Len(path)
    BY DEF Differs
  <2>3. Differs(p, path) = {} <=> \A i \in 1 .. Len(path) : i \notin Differs(p, path)
    BY <2>2
  <2>4. Sound(p, path) <=> \A i \in 1 .. Len(path) : i \notin Differs(p, path)
    BY <2>1 DEF Sound
  <2>5. QED
    BY <2>3, <2>4
<1>2. Overruns(p, path) = {} <=> Within(p, path)
  <2>1. ASSUME NEW i \in 1 .. Len(path)
        PROVE  i \in Overruns(p, path) <=>
                 ~(Blank(path[i]) \/ (i <= Len(p) /\ ~Blank(p[i])))
    <3>1. i <= Len(p) <=> ~(i > Len(p))
      BY LenProperties
    <3>2. QED
      BY <3>1 DEF Overruns, Blank
  <2>2. \A i \in Overruns(p, path) : i \in 1 .. Len(path)
    BY DEF Overruns
  <2>3. Overruns(p, path) = {} <=> \A i \in 1 .. Len(path) : i \notin Overruns(p, path)
    BY <2>2
  <2>4. Within(p, path) <=> \A i \in 1 .. Len(path) : i \notin Overruns(p, path)
    BY <2>1 DEF Within
  <2>5. QED
    BY <2>3, <2>4
<1>3. (\A i \in Len(path) + 1 .. Len(p) : p[i] = "") <=> Whole(p, path)
  BY DEF Whole, Blank
<1>4. QED
  BY <1>1, <1>2, <1>3 DEF Matches

\* A match finds that a pattern fits a path just when it does.
LEMMA MatchesIffFits ==
  ASSUME NEW p \in Seq(Word), NEW path \in Seq(Word),
         Filled(p, Len(p) - 1), Filled(path, Len(path) - 1)
  PROVE  Matches(p, path) <=> Fits(p, path)
<1>1. PICK n \in Nat : TrimsTo(p, n)
  BY TrimmedIs
<1>2. PICK m \in Nat : TrimsTo(path, m)
  BY TrimmedIs
<1>3. PICK np \in Nat, nq \in Nat : np = Len(p) /\ nq = Len(path)
  BY LenProperties
<1>4. /\ n <= np /\ m <= nq
      /\ \A i \in 1 .. n : ~Blank(p[i])
      /\ \A i \in 1 .. m : ~Blank(path[i])
      /\ n = np \/ (n = np - 1 /\ Blank(p[np]))
      /\ m = nq \/ (m = nq - 1 /\ Blank(path[nq]))
  BY <1>1, <1>2, <1>3 DEF TrimsTo
<1>5. Fits(p, path) <=> \/ np = nq /\ Like(p, path, np)
                        \/ n \in {m, nq} /\ Like(p, path, n)
  BY <1>1, <1>2, <1>3, FitsIs
<1>6. ASSUME Matches(p, path)
      PROVE  Fits(p, path)
  <2>1. /\ \A i \in 1 .. nq : i <= np => p[i] \in Params \/ p[i] = path[i] \/ Blank(p[i])
        /\ \A i \in 1 .. nq : Blank(path[i]) \/ (i <= np /\ ~Blank(p[i]))
        /\ \A i \in nq + 1 .. np : Blank(p[i])
    BY <1>3, <1>6, MatchesIs DEF Sound, Within, Whole
  <2>2. m <= n
    <3>1. CASE m = 0
      BY <3>1
    <3>2. CASE m # 0
      <4>1. m \in 1 .. m /\ m \in 1 .. nq
        BY <1>4, <3>2
      <4>2. m <= np /\ ~Blank(p[m])
        BY <1>4, <2>1, <4>1
      <4>3. QED
        BY <1>4, <4>2
    <3>3. QED
      BY <3>1, <3>2
  <2>3. n <= nq
    <3>1. CASE n > nq
      <4>1. n \in 1 .. n /\ n \in nq + 1 .. np
        BY <1>4, <3>1
      <4>2. QED
        BY <1>4, <2>1, <4>1
    <3>2. QED
      BY <3>1
  <2>4. n \in {m, nq}
    BY <1>4, <2>2, <2>3
  <2>5. \A i \in 1 .. n : i \in 1 .. nq /\ i <= np
    BY <1>4, <2>3
  <2>6. Like(p, path, n)
    BY <1>4, <2>1, <2>5 DEF Like
  <2>7. QED
    BY <1>5, <2>4, <2>6
<1>7. ASSUME Fits(p, path)
      PROVE  Matches(p, path)
  <2>1. ASSUME np = nq, Like(p, path, np)
        PROVE  Matches(p, path)
    <3>1. Sound(p, path)
      BY <1>3, <2>1 DEF Sound, Like
    <3>2. Within(p, path)
      <4>1. ASSUME NEW i \in 1 .. nq, Blank(p[i])
            PROVE  Blank(path[i])
        <5>1. p[i] = path[i]
          BY <2>1, <4>1, BlankIsNoParameter DEF Like
        <5>2. QED
          BY <4>1, <5>1
      <4>2. \A i \in 1 .. nq : i <= np
        BY <2>1
      <4>3. QED
        BY <1>3, <4>1, <4>2 DEF Within
    <3>3. Whole(p, path)
      BY <1>3, <2>1 DEF Whole
    <3>4. QED
      BY <3>1, <3>2, <3>3, MatchesIs
  <2>2. ASSUME n \in {m, nq}, Like(p, path, n)
        PROVE  Matches(p, path)
    <3>1. ASSUME NEW i \in 1 .. nq, i <= np
          PROVE  p[i] \in Params \/ p[i] = path[i] \/ Blank(p[i])
      <4>1. CASE i <= n
        <5>1. i \in 1 .. n
          BY <4>1
        <5>2. QED
          BY <2>2, <5>1 DEF Like
      <4>2. CASE ~(i <= n)
        <5>1. i = np /\ n = np - 1
          BY <1>4, <3>1, <4>2
        <5>2. QED
          BY <1>4, <5>1
      <4>3. QED
        BY <4>1, <4>2
    <3>2. ASSUME NEW i \in 1 .. nq
          PROVE  Blank(path[i]) \/ (i <= np /\ ~Blank(p[i]))
      <4>1. CASE i <= n
        <5>1. i \in 1 .. n /\ i <= np
          BY <1>4, <4>1
        <5>2. QED
          BY <1>4, <5>1
      <4>2. CASE ~(i <= n)
        <5>1. i = nq /\ m = nq - 1
          BY <1>4, <2>2, <3>2, <4>2
        <5>2. QED
          BY <1>4, <5>1
      <4>3. QED
        BY <4>1, <4>2
    <3>3. ASSUME NEW i \in nq + 1 .. np
          PROVE  Blank(p[i])
      <4>1. i = np /\ n = np - 1
        BY <1>4, <2>2, <3>3
      <4>2. QED
        BY <1>4, <4>1
    <3>4. QED
      BY <1>3, <3>1, <3>2, <3>3, MatchesIs DEF Sound, Within, Whole
  <2>3. QED
    BY <1>5, <1>7, <2>1, <2>2
<1>8. QED
  BY <1>6, <1>7

\* A match panics only for a path that goes on after it has fitted.
LEMMA PanicsFits ==
  ASSUME NEW p \in Pattern, NEW path \in Seq(Word), Panics(p, path)
  PROVE  \E n \in 1 .. Len(path) - 1 : Fits(p, SubSeq(path, 1, n))
<1>1. p \in Seq(Word) /\ p # <<>> /\ Filled(p, 1) /\ Filled(p, Len(p) - 1)
  BY DEF Pattern
<1>2. PICK n \in Nat : TrimsTo(p, n)
  BY <1>1, TrimmedIs
<1>3. PICK np \in Nat, nq \in Nat : np = Len(p) /\ nq = Len(path) /\ np >= 1
  BY <1>1, LenProperties, EmptySeq
<1>4. /\ n <= np /\ \A i \in 1 .. n : ~Blank(p[i])
      /\ n = np \/ (n = np - 1 /\ Blank(p[np]))
  BY <1>2, <1>3 DEF TrimsTo
<1>5. n >= 1
  <2>1. 1 \in 1 .. 1
    OBVIOUS
  <2>2. ~Blank(p[1])
    BY <1>1, <2>1 DEF Filled, Blank
  <2>3. QED
    BY <1>3, <1>4, <2>2
<1>6. PICK i \in 1 .. nq : /\ i > np \/ Blank(p[i])
                          /\ \A j \in Differs(p, path) : i < j
  BY <1>3 DEF Panics, Overruns, Blank
<1>7. n < i
  <2>1. CASE i <= n
    <3>1. i \in 1 .. n
      BY <2>1
    <3>2. QED
      BY <1>4, <1>6, <2>1, <3>1
  <2>2. QED
    BY <2>1
<1>8. Like(p, path, n)
  <2>1. ASSUME NEW j \in 1 .. n
        PROVE  p[j] \in Params \/ p[j] = path[j]
    <3>1. j \notin Differs(p, path)
      BY <1>6, <1>7
    <3>2. j \in 1 .. nq /\ j <= np /\ ~Blank(p[j])
      BY <1>4, <1>6, <1>7
    <3>3. QED
      BY <1>3, <3>1, <3>2 DEF Differs, Blank
  <2>2. QED
    BY <2>1 DEF Like
<1>9. PICK q \in Seq(Word) : /\ q = SubSeq(path, 1, n) /\ Len(q) = n
                            /\ \A j \in 1 .. n : q[j] = path[j]
  <2>1. n \in 0 .. Len(path)
    BY <1>3, <1>6, <1>7
  <2>2. /\ SubSeq(path, 1, n) \in Seq(Word) /\ Len(SubSeq(path, 1, n)) = n
        /\ \A j \in 1 .. n : SubSeq(path, 1, n)[j] = path[j]
    BY <2>1, PrefixIs
  <2>3. QED
    BY <2>2
<1>10. PICK t \in Seq(Word) : /\ t = Trimmed(p) /\ Len(t) = n /\ DOMAIN t = 1 .. n
                             /\ \A j \in 1 .. n : t[j] = p[j]
  <2>1. /\ Trimmed(p) \in Seq(Word) /\ Len(Trimmed(p)) = n
        /\ \A j \in 1 .. n : Trimmed(p)[j] = p[j]
    BY <1>2 DEF TrimsTo
  <2>2. QED
    BY <2>1, LenProperties
<1>11. Alike(t, q)
  BY <1>8, <1>9, <1>10 DEF Alike, Like
<1>12. n \in 1 .. nq - 1
  BY <1>5, <1>6, <1>7
<1>13. QED
  BY <1>3, <1>9, <1>10, <1>11, <1>12 DEF Fits

(***************************************************************************)
(* Dispatch.                                                               *)
(***************************************************************************)
LEMMA EntryPattern ==
  ASSUME NEW e \in Entries
  PROVE  e.pattern \in Pattern
<1>1. CASE e = Ping
  <2>1. PICK w \in Word : w = "ping" /\ w # ""
    BY DEF Word
  <2>2. <<w>> \in Seq(Word) /\ <<w>> # <<>> /\ Len(<<w>>) = 1 /\ <<w>>[1] = w
    OBVIOUS
  <2>3. PICK p \in Seq(Word) : p = <<w>> /\ p # <<>> /\ Len(p) = 1 /\ p[1] = w
    BY <2>2
  <2>4. Filled(p, 1) /\ Filled(p, Len(p) - 1)
    <3>1. (\A i \in 1 .. 1 : i = 1) /\ (\A i \in 1 .. Len(p) - 1 : i = 1)
      BY <2>3
    <3>2. QED
      BY <2>1, <2>3, <3>1 DEF Filled
  <2>5. e.pattern = p
    BY <1>1, <2>1, <2>3 DEF Ping
  <2>6. QED
    BY <2>3, <2>4, <2>5 DEF Pattern
<1>2. ASSUME NEW s \in Scope, NEW t \in Range(s.routes), e \in EntriesOf(s, t)
      PROVE  e.pattern \in Pattern
  BY <1>2 DEF EntriesOf
<1>3. QED
  BY <1>1, <1>2, EntryIs

\* The path of a request, in the words of patterns.
LEMMA PathIs ==
  ASSUME NEW q \in Ask
  PROVE  q.path \in Seq(Word) /\ Filled(q.path, Len(q.path) - 1)
<1>1. IsPath(q.path)
  BY FastAssumption
<1>2. q.path \in Seq(STRING) /\ Filled(q.path, Len(q.path) - 1)
  BY <1>1 DEF IsPath, Filled
<1>3. QED
  BY <1>2, SeqMonotonic DEF Word

\* The routes that suit a request are those that match, and the loop ends at
\* one of these or of those whose match panics.
LEMMA HitsAre ==
  ASSUME TableInv, NEW q \in Ask, NEW i \in DOMAIN params
  PROVE  /\ i \in 1 .. Len(params) /\ params[i] \in Entries
         /\ i \in Suitable(q) <=>
              params[i].method = q.method /\ Matches(params[i].pattern, q.path)
         /\ i \in Suitable(q) => i \in Hits(q)
<1>1. i \in 1 .. Len(params) /\ params[i] \in Entries
  BY ElementOfSeq, LenProperties DEF TableInv
<1>2. PICK p \in Seq(Word) : p = params[i].pattern /\ Filled(p, Len(p) - 1)
  BY <1>1, EntryPattern DEF Pattern
<1>3. Matches(p, q.path) <=> Fits(p, q.path)
  BY <1>2, PathIs, MatchesIffFits
<1>4. QED
  BY <1>1, <1>2, <1>3 DEF Suitable, Hits

\* The largest of a set of numbers.
LEMMA MaxIs ==
  ASSUME NEW S, S \subseteq Nat, NEW m \in S, \A x \in S : x <= m
  PROVE  Max(S) = m
<1>1. \A x \in S : m >= x
  OBVIOUS
<1>2. Max(S) \in S /\ \A x \in S : Max(S) >= x
  BY <1>1 DEF Max
<1>3. Max(S) \in Nat /\ m \in Nat /\ Max(S) <= m /\ Max(S) >= m
  BY <1>2
<1>4. QED
  BY <1>3

\* The values that are left for a match are its own, and not those of a route
\* that was tried before it.
LEMMA ValuesAreOwn ==
  ASSUME TableInv, NEW q \in Ask, NEW i \in Hits(q), \A j \in Hits(q) : i <= j,
         Matches(params[i].pattern, q.path), NEW old
  PROVE  OwnValues(params[i].pattern, q.path, SetUserValues(q, old))
<1>1. PICK p \in Seq(Word) : p = params[i].pattern
  <2>1. i \in DOMAIN params
    BY DEF Hits
  <2>2. QED
    BY <2>1, HitsAre, EntryPattern DEF Pattern
<1>2. PICK path \in Seq(Word) : path = q.path
  BY PathIs
<1>3. DOMAIN p = 1 .. Len(p) /\ Len(p) \in Nat
  BY LenProperties
<1>4. Differs(p, path) \cup Overruns(p, path) = {}
  BY <1>1, <1>2 DEF Matches
<1>5. ASSUME NEW k \in DOMAIN p \cap DOMAIN path, p[k] \in Params,
             \A l \in k + 1 .. Len(p) : p[l] # p[k]
      PROVE  SetUserValues(q, old)[p[k]] = path[k]
  <2> DEFINE setters ==
        {j \in Tried(q) : Captures(params[j].pattern, path, p[k]) # {}}
  <2>1. /\ \A j : j \in Captures(p, path, p[k]) <=> j \in DOMAIN p \cap DOMAIN path /\ p[j] = p[k]
    BY <1>4 DEF Captures
  <2>2. Max(Captures(p, path, p[k])) = k
    <3>1. PICK C : C = Captures(p, path, p[k])
      OBVIOUS
    <3>2. C \subseteq Nat /\ k \in C
      BY <1>3, <2>1, <3>1
    <3>3. ASSUME NEW j \in C
          PROVE  j <= k
      <4>1. j \in 1 .. Len(p) /\ p[j] = p[k] /\ k \in 1 .. Len(p)
        BY <1>3, <2>1, <3>1
      <4>2. ~(j \in k + 1 .. Len(p))
        BY <1>5, <4>1
      <4>3. QED
        BY <1>3, <4>1, <4>2
    <3>4. QED
      BY <3>1, <3>2, <3>3, MaxIs
  <2>3. Captures(p, path, p[k]) # {}
    BY <2>1
  <2>4. Max(setters) = i /\ setters # {}
    <3>1. PICK T : T = setters
      OBVIOUS
    <3>2. i \in T
      BY <1>1, <2>3, <3>1 DEF Tried, Hits
    <3>3. T \subseteq Nat
      <4>1. \A j \in Tried(q) : j \in DOMAIN params
        BY DEF Tried
      <4>2. \A j \in DOMAIN params : j \in Nat
        BY HitsAre
      <4>3. QED
        BY <3>1, <4>1, <4>2
    <3>4. \A j \in T : j <= i
      BY <3>1 DEF Tried
    <3>5. QED
      BY <3>1, <3>2, <3>3, <3>4, MaxIs
  <2>5. SetUserValues(q, old)[p[k]] =
          IF setters = {} THEN old[p[k]]
          ELSE path[Max(Captures(params[Max(setters)].pattern, path, p[k]))]
    BY <1>2, <1>5 DEF SetUserValues
  <2> HIDE DEF setters
  <2>6. QED
    BY <1>1, <2>2, <2>4, <2>5
<1>6. QED
  BY <1>1, <1>2, <1>5 DEF OwnValues

\* The exact routes of a path are those under the key, if it is not cut off.
LEMMA ExactlyIs ==
  ASSUME TableInv, NEW q \in Ask
  PROVE  /\ Key(q) \in DOMAIN exact =>
              \/ exact[Key(q)] \in Exactly(q)
              \/ /\ TooLong(q) /\ exact[Key(q)] \in Range(exact)
                 /\ IsPrefix(exact[Key(q)].pattern, q.path)
         /\ Key(q) \notin DOMAIN exact => Exactly(q) = {} \/ TooLong(q)
<1>1. PICK path \in Seq(Word) : path = q.path
  BY PathIs
<1>2. Len(path) \in Nat /\ KeySize \in Nat /\ SubSeq(path, 1, Len(path)) = path
  BY BoundIs, LenProperties, SubSeqFull
<1>3. CASE ~TooLong(q)
  <2>1. Key(q) = <<q.method, path>>
    <3>1. Len(path) <= KeySize
      <4>1. ~(Len(path) > KeySize)
        BY <1>1, <1>3 DEF TooLong
      <4>2. QED
        BY <1>2, <4>1
    <3>2. (IF Len(path) < KeySize THEN Len(path) ELSE KeySize) = Len(path)
      <4>1. PICK n \in Nat, k \in Nat : n = Len(path) /\ k = KeySize /\ n <= k
        BY <1>2, <3>1
      <4>2. (IF n < k THEN n ELSE k) = n
        BY <4>1
      <4>3. QED
        BY <4>1, <4>2
    <3>3. QED
      BY <1>1, <1>2, <3>2 DEF Key
  <2>2. ASSUME Key(q) \in DOMAIN exact
        PROVE  exact[Key(q)] \in Exactly(q)
    <3>1. Key(q) = <<exact[Key(q)].method, exact[Key(q)].pattern>>
      BY <2>2 DEF TableInv
    <3>2. exact[Key(q)].method = q.method /\ exact[Key(q)].pattern = q.path
      BY <1>1, <2>1, <3>1
    <3>3. QED
      BY <2>2, <3>2 DEF Exactly, Range
  <2>3. ASSUME NEW e \in Exactly(q)
        PROVE  Key(q) \in DOMAIN exact
    <3>1. PICK k \in DOMAIN exact : e = exact[k]
      BY <2>3 DEF Exactly, Range
    <3>2. k = <<e.method, e.pattern>>
      BY <3>1 DEF TableInv
    <3>3. QED
      BY <1>1, <2>1, <2>3, <3>2 DEF Exactly
  <2>4. QED
    BY <2>2, <2>3
<1>4. CASE TooLong(q)
  <2>1. Len(path) > KeySize /\ KeySize \in 0 .. Len(path)
    BY <1>1, <1>2, <1>4 DEF TooLong
  <2>2. Key(q) = <<q.method, SubSeq(path, 1, KeySize)>>
    BY <1>1, <1>2, <2>1 DEF Key
  <2>3. ASSUME Key(q) \in DOMAIN exact
        PROVE  IsPrefix(exact[Key(q)].pattern, q.path) /\ exact[Key(q)] \in Range(exact)
    <3>1. Key(q) = <<exact[Key(q)].method, exact[Key(q)].pattern>>
      BY <2>3 DEF TableInv
    <3>2. PICK s \in Seq(Word) : s = SubSeq(path, 1, KeySize) /\ Len(s) = KeySize
      <4>1. SubSeq(path, 1, KeySize) \in Seq(Word) /\ Len(SubSeq(path, 1, KeySize)) = KeySize
        BY <2>1, PrefixIs
      <4>2. QED
        BY <4>1
    <3>3. SubSeq(s, 1, Len(s)) = s
      BY SubSeqFull
    <3>4. exact[Key(q)].pattern = s
      <4>1. <<exact[Key(q)].method, exact[Key(q)].pattern>> = <<q.method, s>>
        BY <2>2, <3>1, <3>2
      <4>2. QED
        BY <4>1
    <3>5. IsPrefix(s, path)
      BY <1>2, <2>1, <3>2, <3>3 DEF IsPrefix
    <3>6. QED
      BY <1>1, <2>3, <3>4, <3>5 DEF Range
  <2>4. QED
    BY <1>4, <2>3
<1>5. QED
  BY <1>3, <1>4

\* A request q is at l by right, with the route e and the values v.
RightAt(l, q, e, v) ==
  /\ l \in {"route", "handler"} => IsServed(q, e, v)
  /\ l = "none" => Suitable(q) = {} /\ (Exactly(q) = {} \/ TooLong(q))
  /\ l = "panic" =>
       \E i \in DOMAIN params :
         /\ params[i].method = q.method
         /\ \E n \in 1 .. Len(q.path) - 1 :
              Fits(params[i].pattern, SubSeq(q.path, 1, n))

Right(r) == RightAt(pc[r], ask[r], route[r], values[r])

\* Rights stay while the table does.
LEMMA RightStays ==
  ASSUME NEW r \in Req, NEW l, NEW q, NEW e, NEW v, UNCHANGED <<exact, params>>,
         pc'[r] = l, ask'[r] = q, route'[r] = e, values'[r] = v, RightAt(l, q, e, v)
  PROVE  Right(r)'
BY DEF Right, RightAt, IsServed, Exactly, Suitable

ServedInv ==
  /\ DOMAIN ask = Req /\ DOMAIN route = Req /\ DOMAIN values = Req
  /\ pc \in [Req -> Place]
  /\ \A r \in Req : (pc[r] # "idle" => handler # Nil /\ ask[r] \in Ask) /\ Right(r)

\* Wherever dispatch takes a request, it is by right.
LEMMA DispatchIsRight ==
  ASSUME SetupInv, ServedInv, NEW r \in Req, Dispatch(r)
  PROVE  Right(r)'
<1>1. PICK q \in Ask : q = ask[r]
  BY DEF ServedInv, Dispatch
<1>2. /\ UNCHANGED <<ask, exact, params>> /\ TableInv
      /\ DOMAIN ask = Req /\ DOMAIN route = Req /\ DOMAIN values = Req /\ DOMAIN pc = Req
  BY DEF Dispatch, setup, SetupInv, ServedInv
<1>3. ASSUME NEW e, NEW v, pc'[r] = "route", route'[r] = e, values'[r] = v, IsServed(q, e, v)
      PROVE  Right(r)'
  <2>1. RightAt("route", q, e, v)
    BY <1>3 DEF RightAt
  <2>2. ask'[r] = q
    BY <1>1, <1>2
  <2>3. QED
    BY <1>2, <1>3, <2>1, <2>2, RightStays
<1>4. CASE Key(q) \in DOMAIN exact
  <2>1. pc'[r] = "route" /\ route'[r] = exact[Key(q)]
    BY <1>1, <1>2, <1>4 DEF Dispatch
  <2>2. PICK e, v : e = exact[Key(q)] /\ v = values'[r]
    OBVIOUS
  <2>3. IsServed(q, e, v)
    BY <1>2, <1>4, <2>2, ExactlyIs DEF IsServed
  <2>4. QED
    BY <1>3, <2>1, <2>2, <2>3
<1>5. CASE Key(q) \notin DOMAIN exact
  <2>1. Exactly(q) = {} \/ TooLong(q)
    BY <1>2, <1>5, ExactlyIs
  <2>2. CASE Hits(q) = {}
    <3>1. pc'[r] = "none"
      BY <1>1, <1>2, <1>5, <2>2 DEF Dispatch
    <3>2. Suitable(q) = {}
      <4>1. \A i \in Suitable(q) : i \in DOMAIN params
        BY DEF Suitable
      <4>2. QED
        BY <1>2, <2>2, <4>1, HitsAre
    <3>3. PICK e, v : e = route'[r] /\ v = values'[r]
      OBVIOUS
    <3>4. RightAt("none", q, e, v)
      BY <2>1, <3>2 DEF RightAt
    <3>5. ask'[r] = q
      BY <1>1, <1>2
    <3>6. QED
      BY <1>2, <3>1, <3>3, <3>4, <3>5, RightStays
  <2>3. ASSUME NEW i \in Hits(q), \A j \in Hits(q) : i <= j,
               Matches(params[i].pattern, q.path),
               pc'[r] = "route", route'[r] = params[i],
               values'[r] = SetUserValues(q, values[r])
        PROVE  Right(r)'
    <3>1. i \in DOMAIN params /\ params[i].method = q.method
      BY DEF Hits
    <3>2. i \in Suitable(q)
      BY <1>2, <2>3, <3>1, HitsAre
    <3>3. \A j \in Suitable(q) : i <= j
      <4>1. \A j \in Suitable(q) : j \in DOMAIN params
        BY DEF Suitable
      <4>2. QED
        BY <1>2, <2>3, <4>1, HitsAre
    <3>4. PICK e, v : e = params[i] /\ v = values'[r]
      OBVIOUS
    <3>5. OwnValues(e.pattern, q.path, v)
      BY <1>2, <2>3, <3>4, ValuesAreOwn
    <3>6. IsServed(q, e, v)
      BY <2>1, <3>2, <3>3, <3>4, <3>5 DEF IsServed
    <3>7. QED
      BY <1>3, <2>3, <3>4, <3>6
  <2>4. ASSUME NEW i \in Hits(q), ~Matches(params[i].pattern, q.path), pc'[r] = "panic"
        PROVE  Right(r)'
    <3>1. /\ i \in DOMAIN params /\ params[i].method = q.method
          /\ Panics(params[i].pattern, q.path)
      BY <2>4 DEF Hits
    <3>2. params[i].pattern \in Pattern /\ q.path \in Seq(Word)
      BY <1>2, <3>1, HitsAre, EntryPattern, PathIs
    <3>3. \E n \in 1 .. Len(q.path) - 1 : Fits(params[i].pattern, SubSeq(q.path, 1, n))
      BY <3>1, <3>2, PanicsFits
    <3>4. PICK e, v : e = route'[r] /\ v = values'[r]
      OBVIOUS
    <3>5. RightAt("panic", q, e, v)
      BY <3>1, <3>3 DEF RightAt
    <3>6. ask'[r] = q
      BY <1>1, <1>2
    <3>7. QED
      BY <1>2, <2>4, <3>4, <3>5, <3>6, RightStays
  <2>5. \/ Hits(q) = {}
        \/ \E i \in Hits(q) :
             /\ \A j \in Hits(q) : i <= j
             /\ Matches(params[i].pattern, q.path)
             /\ pc'[r] = "route" /\ route'[r] = params[i]
             /\ values'[r] = SetUserValues(q, values[r])
        \/ \E i \in Hits(q) : ~Matches(params[i].pattern, q.path) /\ pc'[r] = "panic"
    BY <1>1, <1>2, <1>5 DEF Dispatch
  <2>6. QED
    BY <2>2, <2>3, <2>4, <2>5
<1>6. QED
  BY <1>4, <1>5

LEMMA ServedInvariant == Spec => []ServedInv
<1>1. Init => ServedInv
  BY DEF Init, ServedInv, Place, Right, RightAt
<1>2. SetupInv /\ ServedInv /\ [Next]_vars => ServedInv'
  <2> SUFFICES ASSUME SetupInv, ServedInv, [Next]_vars
               PROVE  ServedInv'
    OBVIOUS
  <2>1. CASE UNCHANGED serving
    <3>1. UNCHANGED <<ask, pc, route, values>>
      BY <2>1 DEF serving
    <3>2. ASSUME NEW r \in Req
          PROVE  (pc'[r] # "idle" => handler' # Nil /\ ask'[r] \in Ask) /\ Right(r)'
      <4>1. CASE pc[r] = "idle"
        BY <3>1, <4>1 DEF Right, RightAt
      <4>2. CASE pc[r] # "idle"
        <5>1. handler # Nil /\ ask[r] \in Ask /\ Right(r)
          BY <4>2 DEF ServedInv
        <5>2. UNCHANGED <<exact, params, handler>>
          BY <5>1, SetupSteps
        <5>3. PICK l, q, e, v : l = pc[r] /\ q = ask[r] /\ e = route[r] /\ v = values[r]
          OBVIOUS
        <5>4. RightAt(l, q, e, v)
          BY <5>1, <5>3 DEF Right
        <5>5. pc'[r] = l /\ ask'[r] = q /\ route'[r] = e /\ values'[r] = v
          BY <3>1, <5>3
        <5>6. Right(r)'
          BY <5>2, <5>4, <5>5, RightStays
        <5>7. QED
          BY <3>1, <5>1, <5>2, <5>6
      <4>3. QED
        BY <4>1, <4>2
    <3>3. QED
      BY <3>1, <3>2 DEF ServedInv
  <2>2. ASSUME NEW r \in Req, Serve(r)
        PROVE  ServedInv'
    <3>1. handler # Nil /\ UNCHANGED <<exact, params, handler>>
      <4>1. handler # Nil \/ pc[r] # "idle"
        BY <2>2 DEF Serve, Arrive, Pass, Reject, Dispatch, AnswerPing, Obtain, Return, Move
      <4>2. QED
        BY <4>1, SetupSteps DEF ServedInv
    <3>2. /\ DOMAIN ask' = Req /\ DOMAIN route' = Req /\ DOMAIN values' = Req
          /\ pc' \in [Req -> Place] /\ ask'[r] \in Ask
          /\ \A s \in Req \ {r} : /\ pc'[s] = pc[s] /\ ask'[s] = ask[s]
                                  /\ route'[s] = route[s] /\ values'[s] = values[s]
      <4> DEFINE Apart ==
            /\ DOMAIN ask' = Req /\ DOMAIN route' = Req /\ DOMAIN values' = Req
            /\ pc' \in [Req -> Place] /\ ask'[r] \in Ask
            /\ \A s \in Req \ {r} : /\ pc'[s] = pc[s] /\ ask'[s] = ask[s]
                                    /\ route'[s] = route[s] /\ values'[s] = values[s]
      <4>1. /\ DOMAIN ask = Req /\ DOMAIN route = Req /\ DOMAIN values = Req
            /\ pc \in [Req -> Place] /\ (pc[r] # "idle" => ask[r] \in Ask)
        BY DEF ServedInv
      <4>2. CASE Dispatch(r)
        <5>1. /\ pc[r] = "global" /\ UNCHANGED ask
              /\ \E l \in {"route", "none", "panic"} : pc' = [pc EXCEPT ![r] = l]
              /\ UNCHANGED route \/ \E e : route' = [route EXCEPT ![r] = e]
              /\ UNCHANGED values \/ \E v : values' = [values EXCEPT ![r] = v]
          BY <4>2 DEF Dispatch
        <5>2. QED
          BY <4>1, <5>1 DEF Place
      <4>3. ASSUME NEW q \in Ask, Arrive(r, q)
            PROVE  Apart
        BY <4>1, <4>3 DEF Arrive, Move, Place
      <4>4. CASE Pass(r) \/ Reject(r)
        BY <4>1, <4>4 DEF Pass, Reject, Place
      <4>5. CASE AnswerPing(r) \/ Obtain(r) \/ Return(r)
        BY <4>1, <4>5 DEF AnswerPing, Obtain, Return, Move, Place
      <4>6. QED
        BY <2>2, <4>2, <4>3, <4>4, <4>5 DEF Serve
    <3>3. Right(r)'
      <4>1. CASE Dispatch(r)
        BY <4>1, DispatchIsRight
      <4>2. CASE /\ pc[r] \in {"route", "handler"} /\ pc'[r] \in {"route", "handler"}
                 /\ UNCHANGED <<ask, route, values>>
        <5>1. PICK q, e, v : q = ask[r] /\ e = route[r] /\ v = values[r]
          OBVIOUS
        <5>2. Right(r)
          BY DEF ServedInv
        <5>3. RightAt(pc'[r], q, e, v)
          BY <4>2, <5>1, <5>2 DEF Right, RightAt
        <5>4. PICK l : l = pc'[r]
          OBVIOUS
        <5>5. QED
          BY <3>1, <4>2, <5>1, <5>3, <5>4, RightStays
      <4>3. CASE pc'[r] \in {"global", "rejected", "done"}
        BY <4>3 DEF Right, RightAt
      <4>4. QED
        <5>1. pc \in [Req -> Place]
          BY DEF ServedInv
        <5>2. CASE (\E q \in Ask : Arrive(r, q)) \/ Pass(r) \/ Reject(r)
          BY <4>2, <4>3, <5>1, <5>2 DEF Arrive, Pass, Reject, Move
        <5>3. CASE AnswerPing(r) \/ Obtain(r) \/ Return(r)
          BY <4>2, <4>3, <5>1, <5>3 DEF AnswerPing, Obtain, Return, Move
        <5>4. QED
          BY <2>2, <4>1, <5>2, <5>3 DEF Serve
    <3>4. ASSUME NEW s \in Req, s # r
          PROVE  (pc'[s] # "idle" => handler' # Nil /\ ask'[s] \in Ask) /\ Right(s)'
      <4>1. PICK l, q, e, v : l = pc[s] /\ q = ask[s] /\ e = route[s] /\ v = values[s]
        OBVIOUS
      <4>2. Right(s) /\ (l # "idle" => q \in Ask)
        BY <4>1 DEF ServedInv
      <4>3. RightAt(l, q, e, v)
        BY <4>1, <4>2 DEF Right
      <4>4. pc'[s] = l /\ ask'[s] = q /\ route'[s] = e /\ values'[s] = v
        BY <3>2, <3>4, <4>1
      <4>5. QED
        BY <3>1, <4>2, <4>3, <4>4, RightStays
    <3>5. QED
      BY <3>1, <3>2, <3>3, <3>4 DEF ServedInv
  <2>3. QED
    BY <2>1, <2>2, SetupSteps
<1>3. QED
  BY <1>1, <1>2, SetupInvariant, PTL DEF Spec

\* A request gets the route of its path, with the path's parameters, for any
\* controllers and paths; no other is found for it, and "not found" is right.
THEOREM RoutesAreRight == Spec => []ServedByItsRoute
<1>1. ServedInv => ServedByItsRoute
  BY DEF ServedInv, Right, RightAt, ServedByItsRoute
<1>2. QED
  BY <1>1, ServedInvariant, PTL
=============================================================================
