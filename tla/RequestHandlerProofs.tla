------------------------ MODULE RequestHandlerProofs ------------------------
(***************************************************************************)
(* Theorems about RequestHandler, for any number of requests, Responses,   *)
(* clients and parameters, and any choice of modes and outcomes.           *)
(***************************************************************************)
EXTENDS RequestHandler, FiniteSetTheorems, TLAPS

(***************************************************************************)
(* The pool.                                                               *)
(***************************************************************************)
\* NewResponse and the setters give a Response with r's data.  One that is
\* fresh, or as reset left it, then has exactly what r's handler put in.
LEMMA NewResponseFills ==
  ASSUME NEW o \in Object, NEW r \in Req, NEW err \in BOOLEAN,
         NEW internal \in BOOLEAN, TypeOK, NewResponse(o, r, err, internal)
  PROVE  /\ content' \in [Object -> Fields \cup {Nil}]
         /\ content'[o] \in Fields
         /\ content'[o].data = r
         /\ content[o] \in {Zero, Nil} =>
              content'[o] = [trace |-> Nil, data |-> r, err |-> err,
                             internal |-> internal]
         /\ \A u \in Object : u # o => content'[u] = content[u]
         /\ pooled' \in [Object -> Nat]
         /\ pooled'[o] = IF pooled[o] > 0 THEN pooled[o] - 1 ELSE 0
         /\ \A u \in Object : u # o => pooled'[u] = pooled[u]
         /\ o \in Obtainable
<1> USE RequestAssumption DEF TypeOK
<1> DEFINE got == IF content[o] = Nil THEN Zero ELSE content[o]
           full == [trace |-> got.trace, data |-> r, err |-> got.err \/ err,
                    internal |-> got.internal \/ internal]
<1>1. got \in Fields
  BY DEF Zero, Fields
<1>3. full \in Fields
  BY <1>1 DEF Fields
<1>4. content' = [content EXCEPT ![o] = full]
  BY DEF NewResponse
<1>5. content[o] \in {Zero, Nil} => got = Zero
  OBVIOUS
<1>6. got = Zero => full = [trace |-> Nil, data |-> r, err |-> err,
                             internal |-> internal]
  BY DEF Zero
<1>7. content'[o] = full /\ full.data = r
  BY <1>4
<1>8. /\ content' \in [Object -> Fields \cup {Nil}]
      /\ \A u \in Object : u # o => content'[u] = content[u]
  <2> HIDE DEF full
  <2>1. QED
    BY <1>3, <1>4
<1>9. /\ pooled' \in [Object -> Nat]
      /\ pooled'[o] = IF pooled[o] > 0 THEN pooled[o] - 1 ELSE 0
      /\ \A u \in Object : u # o => pooled'[u] = pooled[u]
      /\ o \in Obtainable
  BY DEF NewResponse
<1>10. QED
  <2> HIDE DEF full, got
  <2>1. QED
    BY <1>3, <1>5, <1>6, <1>7, <1>8, <1>9

\* ReleaseResponse resets the Response and puts it back, once more.
LEMMA ReleaseResets ==
  ASSUME NEW o \in Object, TypeOK, ReleaseResponse(o)
  PROVE  /\ content' \in [Object -> Fields \cup {Nil}]
         /\ content'[o] = Zero
         /\ Zero \in Fields
         /\ \A u \in Object : u # o => content'[u] = content[u]
         /\ pooled' \in [Object -> Nat]
         /\ pooled'[o] = pooled[o] + 1
         /\ \A u \in Object : u # o => pooled'[u] = pooled[u]
<1>1. Zero \in Fields
  BY DEF Zero, Fields
<1> HIDE DEF Zero
<1>2. QED
  BY <1>1 DEF TypeOK, ReleaseResponse

\* The result of a handler: no Response, or the same new one for everybody in
\* Q, with an error unless the outcome is "ok".
LEMMA ReturnsOne ==
  ASSUME NEW r \in Req, NEW Q \in SUBSET Req, NEW outcome \in Outcomes,
         TypeOK, Returns(r, Q, outcome)
  PROVE  /\ made' = [made EXCEPT ![r] = outcome]
         /\ \/ /\ outcome \in {"ok", "fail", "bare"}
               /\ \E o \in Object :
                    /\ NewResponse(o, r, outcome # "ok", outcome = "fail")
                    /\ resp' = [q \in Req |-> IF q \in Q THEN o ELSE resp[q]]
            \/ /\ outcome \in {"nil", "panic"}
               /\ UNCHANGED <<resp, content, pooled>>
BY DEF Returns

(***************************************************************************)
(* Type correctness.                                                       *)
(***************************************************************************)
\* What a handler returns is well-typed, and is a Response that exists.
LEMMA ReturnsTyped ==
  ASSUME NEW r \in Req, NEW Q \in SUBSET Req, NEW outcome \in Outcomes,
         TypeOK, Returns(r, Q, outcome)
  PROVE  /\ made' \in [Req -> Outcomes \cup {Nil}]
         /\ resp' \in [Req -> Object \cup {Nil}]
         /\ content' \in [Object -> Fields \cup {Nil}]
         /\ pooled' \in [Object -> Nat]
         /\ \A q \in Req : resp'[q] # Nil => content'[resp'[q]] # Nil
         /\ \A q \in Req : resp[q] # Nil => resp'[q] # Nil
<1> USE RequestAssumption
<1>1. made' \in [Req -> Outcomes \cup {Nil}]
  BY ReturnsOne DEF TypeOK
<1>2. CASE outcome \in {"nil", "panic"}
  BY <1>1, <1>2, ReturnsOne DEF TypeOK
<1>3. CASE outcome \in {"ok", "fail", "bare"}
  <2>1. PICK o \in Object :
          /\ NewResponse(o, r, outcome # "ok", outcome = "fail")
          /\ resp' = [q \in Req |-> IF q \in Q THEN o ELSE resp[q]]
    BY <1>3, ReturnsOne
  <2>2. /\ content' \in [Object -> Fields \cup {Nil}]
        /\ content'[o] # Nil
        /\ \A u \in Object : u # o => content'[u] = content[u]
        /\ pooled' \in [Object -> Nat]
    BY <2>1, NewResponseFills
  <2>3. QED
    BY <1>1, <2>1, <2>2 DEF TypeOK
<1>4. QED
  BY <1>2, <1>3, ReturnsOne

\* Every variable keeps its type; in particular a request that is being
\* answered has a Response, and one that was allocated.
THEOREM TypeCorrect == Spec => []TypeOK
<1> USE RequestAssumption DEF ServingStates, WorkerStates, Using, Over
<1>1. Init => TypeOK
  <2> SUFFICES ASSUME Init
               PROVE  TypeOK
    OBVIOUS
  <2>1. /\ mode \in Modes
        /\ serving \in [Req -> ServingStates]
        /\ worker \in [Req -> WorkerStates]
        /\ resp \in [Req -> Object \cup {Nil}]
        /\ pooled \in [Object -> Nat]
        /\ notifier \in [Req -> {"none", "error", "nil", "done"}]
        /\ shared \in BOOLEAN
        /\ crashed \in BOOLEAN
        /\ \A r \in Req : serving[r] = "none" /\ resp[r] = Nil
    BY DEF Init
  <2>2. /\ content \in [Object -> Fields \cup {Nil}]
        /\ made \in [Req -> Outcomes \cup {Nil}]
    BY DEF Init
  <2>3. written \in [Req -> [trace : Req, data : Req \cup {Nil}, err : BOOLEAN]
                             \cup {Nil}]
    BY DEF Init
  <2>4. QED
    BY <2>1, <2>2, <2>3 DEF TypeOK
<1>2. TypeOK /\ [Next]_vars => TypeOK'
  <2> SUFFICES ASSUME TypeOK, [Next]_vars
               PROVE  TypeOK'
    OBVIOUS
  <2> USE DEF fixed
  <2>1. ASSUME NEW r \in Req, StartWork(r)
        PROVE  TypeOK'
    <3>1. /\ worker' \in [Req -> WorkerStates]
          /\ shared' \in BOOLEAN
      BY <2>1 DEF StartWork, TypeOK
    <3>2. QED
      BY <2>1, <3>1 DEF StartWork, TypeOK
  <2>2. ASSUME NEW r \in Req, HandlerReturns(r)
        PROVE  TypeOK'
    <3>1. PICK outcome \in Outcomes : Returns(r, Sharing(r), outcome)
      BY <2>2 DEF HandlerReturns
    <3>2. Sharing(r) \in SUBSET Req
      BY DEF Sharing
    <3>3. worker' \in [Req -> WorkerStates]
      BY <2>2 DEF HandlerReturns, TypeOK
    <3>4. QED
      BY <2>2, <3>1, <3>2, <3>3, ReturnsTyped DEF HandlerReturns, TypeOK
  <2>3. ASSUME NEW r \in Req, ReplaceNil(r)
        PROVE  TypeOK'
    <3>1. PICK o \in Object : /\ NewResponse(o, r, TRUE, TRUE)
                              /\ resp' = [resp EXCEPT ![r] = o]
      BY <2>3 DEF ReplaceNil
    <3>2. /\ content' \in [Object -> Fields \cup {Nil}]
          /\ content'[o] # Nil
          /\ \A u \in Object : u # o => content'[u] = content[u]
          /\ pooled' \in [Object -> Nat]
      BY <3>1, NewResponseFills
    <3>3. QED
      BY <2>3, <3>1, <3>2 DEF ReplaceNil, TypeOK
  <2>4. ASSUME NEW r \in Req, HandOver(r)
        PROVE  TypeOK'
    BY <2>4 DEF HandOver, TypeOK
  <2>5. ASSUME NEW r \in Req, Arrive(r)
        PROVE  TypeOK'
    <3>1. /\ serving' \in [Req -> ServingStates]
          /\ worker' \in [Req -> WorkerStates]
          /\ \A q \in Req : serving'[q] \in Using => serving[q] \in Using
      BY <2>5 DEF Arrive, Move, TypeOK
    <3>2. QED
      BY <2>5, <3>1 DEF Arrive, TypeOK
  <2>6. ASSUME NEW r \in Req, SyncHandlerReturns(r)
        PROVE  TypeOK'
    <3>1. PICK outcome \in Outcomes :
            /\ Returns(r, {r}, outcome)
            /\ IF resp'[r] = Nil
               THEN Move(r, "handler", "empty")
               ELSE Move(r, "handler", "received")
      BY <2>6 DEF SyncHandlerReturns
    <3>2. /\ serving' \in [Req -> ServingStates]
          /\ \A q \in Req : serving'[q] \in Using =>
               serving[q] \in Using \/ resp'[q] # Nil
      BY <3>1 DEF Move, TypeOK
    <3>3. QED
      BY <2>6, <3>1, <3>2, ReturnsTyped DEF SyncHandlerReturns, TypeOK
  <2>7. ASSUME NEW r \in Req, TimeOut(r) \/ Cancel(r)
        PROVE  TypeOK'
    BY <2>7 DEF TimeOut, Cancel, Move, TypeOK
  <2>8. ASSUME NEW r \in Req, SetTrace(r)
        PROVE  TypeOK'
    <3> DEFINE o == resp[r]
               traced == [content[o] EXCEPT !.trace = r]
    <3>1. o \in Object /\ content[o] \in Fields
      BY <2>8 DEF SetTrace, Move, TypeOK
    <3>2. traced \in Fields /\ content' = [content EXCEPT ![o] = traced]
      BY <2>8, <3>1 DEF SetTrace, Fields
    <3>3. serving' = [serving EXCEPT ![r] = "traced"] /\ serving[r] = "received"
      BY <2>8 DEF SetTrace, Move
    <3> HIDE DEF traced
    <3>4. /\ content' \in [Object -> Fields \cup {Nil}]
          /\ \A u \in Object : content[u] # Nil => content'[u] # Nil
      BY <3>1, <3>2 DEF TypeOK
    <3>5. QED
      BY <2>8, <3>3, <3>4 DEF SetTrace, TypeOK
  <2>9. ASSUME NEW r \in Req, CheckError(r) \/ ReadError(r)
        PROVE  TypeOK'
    <3>1. /\ serving' \in [Req -> ServingStates]
          /\ \A q \in Req : serving'[q] \in Using => serving[q] \in Using
      BY <2>9 DEF CheckError, ReadError, Move, TypeOK
    <3>2. QED
      BY <2>9, <3>1 DEF CheckError, ReadError, TypeOK
  <2>10. ASSUME NEW r \in Req, ReportError(r)
         PROVE  TypeOK'
    BY <2>10 DEF ReportError, Move, TypeOK
  <2>11. ASSUME NEW r \in Req, Send(r)
         PROVE  TypeOK'
    <3> DEFINE c == content[resp[r]]
    <3>1. resp[r] \in Object /\ c \in Fields
      BY <2>11 DEF Send, Move, TypeOK
    <3>2. [trace |-> IF c.trace = Nil THEN r ELSE c.trace, data |-> c.data,
           err |-> c.err] \in [trace : Req, data : Req \cup {Nil}, err : BOOLEAN]
      BY <3>1 DEF Fields
    <3>3. written' = [written EXCEPT ![r] =
             [trace |-> IF c.trace = Nil THEN r ELSE c.trace, data |-> c.data,
              err |-> c.err]]
      BY <2>11 DEF Send
    <3>4. written' \in [Req -> [trace : Req, data : Req \cup {Nil}, err : BOOLEAN]
                                \cup {Nil}]
      BY <3>2, <3>3 DEF TypeOK
    <3>5. serving' = [serving EXCEPT ![r] = "sent"] /\ serving[r] = "sending"
      BY <2>11 DEF Send, Move
    <3>6. QED
      BY <2>11, <3>4, <3>5 DEF Send, TypeOK
  <2>12. ASSUME NEW r \in Req, Release(r)
         PROVE  TypeOK'
    <3>1. resp[r] \in Object /\ ReleaseResponse(resp[r])
      BY <2>12 DEF Release, Move, TypeOK
    <3>2. /\ content' \in [Object -> Fields \cup {Nil}]
          /\ \A u \in Object : content[u] # Nil => content'[u] # Nil
          /\ pooled' \in [Object -> Nat]
      BY <3>1, ReleaseResets
    <3>3. serving' = [serving EXCEPT ![r] = "answered"]
      BY <2>12 DEF Release, Move
    <3>4. QED
      BY <2>12, <3>2, <3>3 DEF Release, TypeOK
  <2>13. ASSUME NEW r \in Req, Notify(r)
         PROVE  TypeOK'
    BY <2>13 DEF Notify, TypeOK
  <2>14. CASE UNCHANGED vars
    BY <2>14 DEF vars, TypeOK
  <2>15. QED
    BY <2>1, <2>2, <2>3, <2>4, <2>5, <2>6, <2>7, <2>8, <2>9, <2>10, <2>11,
       <2>12, <2>13, <2>14 DEF Next, Work, Serve
<1>3. QED
  BY <1>1, <1>2, PTL DEF Spec

(***************************************************************************)
(* Ownership, as long as no call of a handler is shared.                   *)
(***************************************************************************)
\* What the pool hands out is held by nobody, and is fresh or as reset left it.
LEMMA ObtainableIsFree ==
  ASSUME TypeOK, Unshared, NEW o \in Obtainable
  PROVE  /\ o \in Object
         /\ \A q \in Req : Holds(q) => resp[q] # o
         /\ content[o] \in {Zero, Nil}
         /\ pooled[o] \in {0, 1}
         /\ pooled[o] = 1 => content[o] = Zero
BY RequestAssumption DEF TypeOK, Unshared, Obtainable, Holds

\* A request that holds a Response has one.
LEMMA HoldsOne ==
  ASSUME TypeOK, NEW q \in Req, Holds(q)
  PROVE  resp[q] \in Object /\ content[resp[q]] \in Fields
BY DEF TypeOK, Holds

\* A step of r's goroutines that moves no Response keeps the invariant when it
\* keeps what the invariant says of r.
LEMMA OwnStep ==
  ASSUME TypeOK, TypeOK', OwnerInv, ~shared, ~shared', NEW r \in Req,
         UNCHANGED <<resp, pooled, made>>,
         \A q \in Req : q # r => /\ serving'[q] = serving[q]
                                /\ worker'[q] = worker[q]
                                /\ written'[q] = written[q]
                                /\ notifier'[q] = notifier[q],
         \A o \in Object : o # resp[r] \/ ~Holds(r) => content'[o] = content[o],
         Holds(r)' => Holds(r), worker'[r] # "follower",
         BeforeAndAfter(r)', OwnContent(r)',
         written'[r] # Nil => /\ serving'[r] \in {"sent", "answered"}
                              /\ written'[r].trace = r /\ written'[r].data = r
                              /\ (written'[r].err <=> made[r] # "ok"),
         "bare" \notin Outcomes => ~crashed' /\ notifier'[r] # "nil"
  PROVE  OwnerInv'
<1> USE DEF OwnerInv
<1>1. \A q \in Req : q # r => (Holds(q)' <=> Holds(q))
  BY DEF Holds
<1>2. Unshared'
  <2>1. \A q \in Req : Holds(q)' => Holds(q)
    BY <1>1
  <2>2. \A o \in Object : pooled[o] # 0 => content'[o] = content[o]
    BY DEF Unshared
  <2>3. QED
    BY <1>1, <2>1, <2>2 DEF Unshared, Zero
<1>3. ASSUME NEW q \in Req, q # r
      PROVE  /\ BeforeAndAfter(q)'
             /\ OwnContent(q)'
             /\ written'[q] # Nil => serving'[q] \in {"sent", "answered"}
  <2>1. Holds(q) => content'[resp[q]] = content[resp[q]]
    BY <1>3, HoldsOne DEF Unshared
  <2>2. OwnContent(q)'
    BY <1>1, <1>3, <2>1 DEF OwnContent
  <2>3. QED
    BY <1>3, <2>2 DEF BeforeAndAfter
<1>4. AnswerIsOwn'
  BY DEF AnswerIsOwn
<1>5. "bare" \notin Outcomes => \A q \in Req : notifier'[q] # "nil"
  OBVIOUS
<1>6. QED
  BY <1>2, <1>3, <1>4, <1>5

\* So does a step that gives r the Response its outcome calls for.
LEMMA TakeStep ==
  ASSUME TypeOK, TypeOK', OwnerInv, ~shared, ~shared', NEW r \in Req, NEW o \in Object,
         NEW err \in BOOLEAN, NEW internal \in BOOLEAN,
         NewResponse(o, r, err, internal), resp[r] = Nil,
         resp' = [resp EXCEPT ![r] = o], UNCHANGED <<notifier, written, crashed>>,
         \A q \in Req : q # r => /\ serving'[q] = serving[q]
                                /\ worker'[q] = worker[q]
                                /\ made'[q] = made[q],
         written[r] = Nil, worker'[r] # "follower", BeforeAndAfter(r)',
         serving'[r] \notin Using \ {"received"},
         err <=> made'[r] # "ok", err /\ "bare" \notin Outcomes => internal
  PROVE  OwnerInv'
<1> USE DEF OwnerInv
<1>1. /\ o \in Obtainable
      /\ pooled'[o] = IF pooled[o] > 0 THEN pooled[o] - 1 ELSE 0
      /\ \A u \in Object : u # o => /\ pooled'[u] = pooled[u]
                                    /\ content'[u] = content[u]
      /\ content'[o].data = r
      /\ content[o] \in {Zero, Nil} =>
           content'[o] = [trace |-> Nil, data |-> r, err |-> err,
                          internal |-> internal]
  BY NewResponseFills
<1>2. /\ \A q \in Req : Holds(q) => resp[q] # o
      /\ content[o] \in {Zero, Nil}
      /\ pooled[o] \in {0, 1}
  BY <1>1, ObtainableIsFree
<1>3. /\ pooled'[o] = 0
      /\ content'[o] = [trace |-> Nil, data |-> r, err |-> err,
                        internal |-> internal]
  BY <1>1, <1>2
<1>4. resp'[r] = o /\ \A q \in Req : q # r => resp'[q] = resp[q]
  BY DEF TypeOK
<1>5. \A q \in Req : q # r => (Holds(q)' <=> Holds(q))
  BY <1>4 DEF Holds
<1>6. Unshared'
  <2>1. \A q \in Req : worker'[q] # "follower"
    BY DEF Unshared
  <2>2. \A q, k \in Req : Holds(q)' /\ Holds(k)' /\ resp'[q] = resp'[k] => q = k
    BY <1>2, <1>4, <1>5 DEF Unshared
  <2>3. \A q \in Req : Holds(q)' => pooled'[resp'[q]] = 0
    BY <1>1, <1>2, <1>3, <1>4, <1>5, HoldsOne DEF Unshared
  <2>4. \A u \in Object : pooled'[u] = 0 \/ (pooled'[u] = 1 /\ content'[u] = Zero')
    BY <1>1, <1>3 DEF Unshared, Zero
  <2>5. QED
    BY <2>1, <2>2, <2>3, <2>4 DEF Unshared
<1>7. ASSUME NEW q \in Req, q # r
      PROVE  /\ BeforeAndAfter(q)'
             /\ OwnContent(q)'
             /\ written'[q] # Nil => serving'[q] \in {"sent", "answered"}
  <2>1. Holds(q) => content'[resp[q]] = content[resp[q]]
    BY <1>1, <1>2, HoldsOne
  <2>2. OwnContent(q)'
    BY <1>4, <1>5, <1>7, <2>1 DEF OwnContent
  <2>3. QED
    BY <1>4, <1>7, <2>2 DEF BeforeAndAfter
<1>8. OwnContent(r)'
  BY <1>3, <1>4 DEF OwnContent, Using
<1>9. AnswerIsOwn'
  BY DEF AnswerIsOwn
<1>10. QED
  BY <1>6, <1>7, <1>8, <1>9

\* And one by which the handler of r returns: nobody else shares its result.
LEMMA ReturnStep ==
  ASSUME TypeOK, TypeOK', OwnerInv, ~shared, ~shared', NEW r \in Req,
         NEW outcome \in Outcomes, Returns(r, {r}, outcome), resp[r] = Nil,
         UNCHANGED <<notifier, written, crashed>>,
         \A q \in Req : q # r => /\ serving'[q] = serving[q]
                                /\ worker'[q] = worker[q],
         written[r] = Nil, worker'[r] # "follower",
         serving'[r] \notin Using \ {"received"},
         resp'[r] = Nil => serving'[r] \notin Using,
         made'[r] = outcome => BeforeAndAfter(r)'
  PROVE  OwnerInv'
<1> USE RequestAssumption
<1>0. /\ made' = [made EXCEPT ![r] = outcome]
      /\ \/ /\ outcome \in {"ok", "fail", "bare"}
            /\ \E o \in Object :
                 /\ NewResponse(o, r, outcome # "ok", outcome = "fail")
                 /\ resp' = [q \in Req |-> IF q \in {r} THEN o ELSE resp[q]]
         \/ /\ outcome \in {"nil", "panic"}
            /\ UNCHANGED <<resp, content, pooled>>
  <2>1. {r} \in SUBSET Req
    OBVIOUS
  <2>2. QED
    BY <2>1, ReturnsOne
<1>1. /\ made'[r] = outcome
      /\ \A q \in Req : q # r => made'[q] = made[q]
      /\ made' = [made EXCEPT ![r] = outcome]
  BY <1>0 DEF TypeOK
<1>2. CASE outcome \in {"ok", "fail", "bare"}
  <2>1. PICK o \in Object :
          /\ NewResponse(o, r, outcome # "ok", outcome = "fail")
          /\ resp' = [q \in Req |-> IF q \in {r} THEN o ELSE resp[q]]
    BY <1>0, <1>2
  <2>2. resp' = [resp EXCEPT ![r] = o]
    BY <2>1 DEF TypeOK
  <2> DEFINE err == outcome # "ok"
             internal == outcome = "fail"
  <2>3. /\ err \in BOOLEAN /\ internal \in BOOLEAN
        /\ NewResponse(o, r, err, internal)
        /\ err <=> made'[r] # "ok"
        /\ err /\ "bare" \notin Outcomes => internal
    BY <1>1, <1>2, <2>1
  <2> HIDE DEF err, internal
  <2>4. QED
    BY <1>1, <2>2, <2>3, TakeStep
<1>3. CASE outcome \in {"nil", "panic"}
  <2>1. UNCHANGED <<resp, content, pooled>>
    BY <1>0, <1>3
  <2>2. ~Holds(r)' /\ \A q \in Req : q # r => (Holds(q)' <=> Holds(q))
    BY <2>1 DEF Holds
  <2>3. Unshared'
    BY <2>1, <2>2 DEF Unshared, OwnerInv, Zero
  <2>4. ASSUME NEW q \in Req, q # r
        PROVE  /\ BeforeAndAfter(q)'
               /\ OwnContent(q)'
               /\ written'[q] # Nil => serving'[q] \in {"sent", "answered"}
    BY <1>1, <2>1, <2>2, <2>4 DEF OwnerInv, OwnContent, BeforeAndAfter
  <2>5. OwnContent(r)'
    BY <2>2 DEF OwnContent
  <2>6. AnswerIsOwn'
    BY <1>1 DEF AnswerIsOwn, OwnerInv
  <2>7. QED
    BY <1>1, <2>3, <2>4, <2>5, <2>6 DEF OwnerInv
<1>4. QED
  BY <1>0, <1>2, <1>3

\* The invariant is inductive: once a call is shared nothing more is claimed,
\* and until then every step keeps it.
LEMMA Ownership == Spec => []OwnerInv
<1> USE DEF Using, Over
<1>1. Init => OwnerInv
  BY DEF Init, OwnerInv, Unshared, BeforeAndAfter, OwnContent, Holds, AnswerIsOwn
<1>2. TypeOK /\ TypeOK' /\ OwnerInv /\ [Next]_vars => OwnerInv'
  <2> SUFFICES ASSUME TypeOK, TypeOK', OwnerInv, [Next]_vars, ~shared'
               PROVE  OwnerInv'
    BY DEF OwnerInv
  <2>a. ~shared
    <3>1. \A r \in Req : StartWork(r) /\ shared => shared'
      BY DEF StartWork
    <3>2. QED
      BY <3>1 DEF Next, vars, Work, Serve, HandlerReturns, ReplaceNil, HandOver,
                  SyncHandlerReturns, TimeOut, Cancel, SetTrace, CheckError,
                  ReadError, ReportError, Send, Release, Arrive, Notify
  \* What the invariant says now.
  <2>b. /\ Unshared
        /\ \A q \in Req : BeforeAndAfter(q) /\ OwnContent(q)
        /\ \A q \in Req : written[q] # Nil =>
             /\ serving[q] \in {"sent", "answered"}
             /\ written[q].trace = q /\ written[q].data = q
             /\ (written[q].err <=> made[q] # "ok")
        /\ "bare" \notin Outcomes =>
             ~crashed /\ \A q \in Req : notifier[q] # "nil"
    BY <2>a DEF OwnerInv, AnswerIsOwn
  <2>c. \A q \in Req : worker[q] # "follower"
    BY <2>b DEF Unshared
  <2>1. ASSUME NEW r \in Req, Arrive(r)
        PROVE  OwnerInv'
    <3>1. /\ serving[r] = "none" /\ serving'[r] \in {"handler", "waiting"}
          /\ serving'[r] = "handler" => worker'[r] = "none"
          /\ worker'[r] \in {"none", "started"} /\ resp'[r] = Nil
      BY <2>1, <2>b DEF Arrive, Move, BeforeAndAfter, TypeOK
    <3>2. ~Holds(r)' /\ BeforeAndAfter(r)' /\ OwnContent(r)'
      BY <3>1 DEF Holds, BeforeAndAfter, OwnContent
    <3>3. QED
      BY <2>1, <2>a, <2>b, <3>1, <3>2, OwnStep DEF Arrive, Move, TypeOK
  <2>2. ASSUME NEW r \in Req, StartWork(r)
        PROVE  OwnerInv'
    <3>1. worker[r] = "started" /\ worker'[r] = "handler"
      BY <2>2, <2>a DEF StartWork, TypeOK
    <3>2. ~Holds(r)' /\ BeforeAndAfter(r)' /\ OwnContent(r)'
      BY <2>2, <2>b, <3>1 DEF StartWork, Holds, BeforeAndAfter, OwnContent
    <3>3. QED
      BY <2>2, <2>a, <2>b, <3>1, <3>2, OwnStep DEF StartWork, TypeOK
  <2>3. ASSUME NEW r \in Req, HandlerReturns(r)
        PROVE  OwnerInv'
    <3>1. Sharing(r) = {r}
      BY <2>c DEF Sharing
    <3>2. PICK outcome \in Outcomes : Returns(r, {r}, outcome)
      BY <2>3, <3>1 DEF HandlerReturns
    <3>3. /\ worker[r] = "handler" /\ worker'[r] = "offering"
          /\ \A q \in Req : q # r => worker'[q] = worker[q]
          /\ UNCHANGED <<serving, notifier, written, crashed>>
      BY <2>3, <3>1 DEF HandlerReturns
    <3>4. /\ resp[r] = Nil /\ written[r] = Nil
          /\ serving[r] \notin Using \cup {"none", "handler", "answered"}
      BY <2>b, <3>3 DEF BeforeAndAfter
    <3>5. resp'[r] = Nil => outcome \in {"nil", "panic"}
      <4>1. {r} \in SUBSET Req
        OBVIOUS
      <4>2. CASE outcome \notin {"nil", "panic"}
        <5>1. PICK o \in Object : resp' = [q \in Req |-> IF q \in {r} THEN o ELSE resp[q]]
          BY <3>2, <4>2, Zenon DEF Returns
        <5>2. QED
          BY <5>1, RequestAssumption
      <4>3. QED
        BY <4>2
    <3>6. made'[r] = outcome => BeforeAndAfter(r)'
      BY <3>3, <3>4, <3>5 DEF BeforeAndAfter
    <3>7. QED
      BY <2>a, <3>2, <3>3, <3>4, <3>6, ReturnStep
  <2>4. ASSUME NEW r \in Req, ReplaceNil(r)
        PROVE  OwnerInv'
    <3>1. PICK o \in Object : /\ NewResponse(o, r, TRUE, TRUE)
                              /\ resp' = [resp EXCEPT ![r] = o]
      BY <2>4 DEF ReplaceNil
    <3>2. /\ worker[r] = "offering" /\ resp[r] = Nil /\ made[r] \in {"nil", "panic"}
          /\ serving[r] \notin Using \cup {"none", "handler", "answered"}
          /\ written[r] = Nil
          /\ UNCHANGED <<serving, worker, notifier, written, made, crashed>>
      BY <2>4, <2>b DEF ReplaceNil, BeforeAndAfter
    <3>3. BeforeAndAfter(r)'
      BY <3>2 DEF BeforeAndAfter
    <3>4. TRUE <=> made'[r] # "ok"
      BY <3>2
    <3>5. QED
      BY <2>a, <3>1, <3>2, <3>3, <3>4, TakeStep
  <2>5. ASSUME NEW r \in Req, HandOver(r)
        PROVE  OwnerInv'
    <3>1. Holds(r) /\ worker'[r] = "done" /\ serving'[r] = "received"
      BY <2>5 DEF HandOver, Holds, TypeOK
    <3>2. BeforeAndAfter(r)' /\ OwnContent(r)'
      BY <2>5, <2>b, <3>1 DEF HandOver, BeforeAndAfter, OwnContent
    <3>3. QED
      BY <2>5, <2>a, <2>b, <3>1, <3>2, OwnStep DEF HandOver, TypeOK
  <2>6. ASSUME NEW r \in Req, SyncHandlerReturns(r)
        PROVE  OwnerInv'
    <3>1. PICK outcome \in Outcomes :
            /\ Returns(r, {r}, outcome)
            /\ IF resp'[r] = Nil
               THEN Move(r, "handler", "empty")
               ELSE Move(r, "handler", "received")
      BY <2>6 DEF SyncHandlerReturns
    <3>2. /\ serving[r] = "handler"
          /\ serving'[r] = IF resp'[r] = Nil THEN "empty" ELSE "received"
          /\ \A q \in Req : q # r => serving'[q] = serving[q]
          /\ UNCHANGED <<worker, notifier, written, crashed>>
      BY <2>6, <3>1 DEF SyncHandlerReturns, Move, TypeOK
    <3>3. resp[r] = Nil /\ written[r] = Nil /\ worker[r] = "none"
      BY <2>b, <3>2 DEF BeforeAndAfter
    <3>4. BeforeAndAfter(r)'
      BY <3>2, <3>3 DEF BeforeAndAfter
    <3>5. QED
      BY <2>a, <3>1, <3>2, <3>3, <3>4, ReturnStep
  <2>7. ASSUME NEW r \in Req, TimeOut(r) \/ Cancel(r)
        PROVE  OwnerInv'
    <3>1. /\ serving[r] = "waiting" /\ serving'[r] \in {"timedout", "gone"}
          /\ \A q \in Req : q # r => serving'[q] = serving[q]
          /\ UNCHANGED <<worker, resp, content, pooled, notifier, written, made, crashed>>
      BY <2>7 DEF TimeOut, Cancel, Move, TypeOK
    <3>2. /\ Holds(r)' <=> Holds(r)
          /\ BeforeAndAfter(r)' /\ OwnContent(r)' /\ written[r] = Nil
      BY <2>b, <3>1 DEF Holds, BeforeAndAfter, OwnContent
    <3>3. QED
      BY <2>a, <2>b, <2>c, <3>1, <3>2, OwnStep
  <2>8. ASSUME NEW r \in Req, SetTrace(r)
        PROVE  OwnerInv'
    <3> DEFINE o == resp[r]
    <3>1. Holds(r) /\ serving[r] = "received" /\ o \in Object /\ content[o] \in Fields
      BY <2>8, HoldsOne DEF SetTrace, Move, Holds
    <3>2. /\ serving'[r] = "traced" /\ resp'[r] = o
          /\ \A q \in Req : q # r => serving'[q] = serving[q]
          /\ content' = [content EXCEPT ![o].trace = r]
          /\ UNCHANGED <<worker, resp, pooled, notifier, written, made, crashed>>
      BY <2>8 DEF SetTrace, Move, TypeOK
    <3>3. /\ content'[o] = [content[o] EXCEPT !.trace = r]
          /\ \A u \in Object : u # o => content'[u] = content[u]
      BY <3>1, <3>2 DEF TypeOK
    <3>4. /\ content'[o].trace = r /\ content'[o].data = content[o].data
          /\ content'[o].err = content[o].err
          /\ content'[o].internal = content[o].internal
      BY <3>1, <3>3 DEF Fields
    <3>5. OwnContent(r)'
      BY <2>b, <3>1, <3>2, <3>4 DEF OwnContent
    <3>6. Holds(r)' /\ BeforeAndAfter(r)' /\ written[r] = Nil
      BY <2>b, <3>1, <3>2 DEF Holds, BeforeAndAfter
    <3>7. QED
      BY <2>a, <2>b, <2>c, <3>1, <3>2, <3>3, <3>5, <3>6, OwnStep
  <2>9. ASSUME NEW r \in Req, CheckError(r) \/ ReadError(r)
        PROVE  OwnerInv'
    <3>1. /\ Holds(r) /\ serving[r] \in {"traced", "failed"}
          /\ \/ serving'[r] \in {"failed", "reporting"} /\ content[resp[r]].err
             \/ serving'[r] = "sending"
          /\ \A q \in Req : q # r => serving'[q] = serving[q]
          /\ UNCHANGED <<worker, resp, content, pooled, notifier, written, made, crashed>>
      BY <2>9, <2>b DEF CheckError, ReadError, Move, TypeOK, Holds, OwnContent
    <3>2. /\ Holds(r)' /\ BeforeAndAfter(r)' /\ OwnContent(r)' /\ written[r] = Nil
      BY <2>b, <3>1 DEF Holds, BeforeAndAfter, OwnContent
    <3>3. QED
      BY <2>a, <2>b, <2>c, <3>1, <3>2, OwnStep
  <2>10. ASSUME NEW r \in Req, ReportError(r)
         PROVE  OwnerInv'
    <3>1. /\ Holds(r) /\ serving[r] = "reporting" /\ serving'[r] = "sending"
          /\ \A q \in Req : q # r => serving'[q] = serving[q]
          /\ UNCHANGED <<worker, resp, content, pooled, written, made, crashed>>
          /\ notifier'[r] = IF content[resp[r]].internal THEN "error" ELSE "nil"
          /\ \A q \in Req : q # r => notifier'[q] = notifier[q]
      BY <2>10 DEF ReportError, Move, TypeOK, Holds
    <3>2. /\ Holds(r)' /\ BeforeAndAfter(r)' /\ OwnContent(r)' /\ written[r] = Nil
      BY <2>b, <3>1 DEF Holds, BeforeAndAfter, OwnContent
    <3>3. "bare" \notin Outcomes => content[resp[r]].internal
      BY <2>b, <3>1 DEF OwnContent
    <3>4. QED
      BY <2>a, <2>b, <2>c, <3>1, <3>2, <3>3, OwnStep
  <2>11. ASSUME NEW r \in Req, Send(r)
         PROVE  OwnerInv'
    <3> DEFINE c == content[resp[r]]
    <3>1. /\ Holds(r) /\ serving[r] = "sending" /\ serving'[r] = "sent"
          /\ \A q \in Req : q # r => serving'[q] = serving[q]
          /\ UNCHANGED <<worker, resp, content, pooled, notifier, made, crashed>>
          /\ written'[r] = [trace |-> IF c.trace = Nil THEN r ELSE c.trace,
                            data |-> c.data, err |-> c.err]
          /\ \A q \in Req : q # r => written'[q] = written[q]
      BY <2>11 DEF Send, Move, TypeOK, Holds
    <3>2. /\ Holds(r)' /\ BeforeAndAfter(r)' /\ OwnContent(r)'
      BY <2>b, <3>1 DEF Holds, BeforeAndAfter, OwnContent
    <3>3. /\ c.trace = r /\ c.data = r /\ (c.err <=> made[r] # "ok")
      BY <2>b, <3>1 DEF OwnContent
    <3>4. QED
      BY <2>a, <2>b, <2>c, <3>1, <3>2, <3>3, OwnStep
  <2>12. ASSUME NEW r \in Req, Release(r)
         PROVE  OwnerInv'
    <3> DEFINE o == resp[r]
    <3>1. Holds(r) /\ serving[r] = "sent" /\ o \in Object /\ ReleaseResponse(o)
      BY <2>12, HoldsOne DEF Release, Move, Holds
    <3>2. /\ serving'[r] = "answered"
          /\ \A q \in Req : q # r => serving'[q] = serving[q]
          /\ UNCHANGED <<worker, resp, notifier, written, made, crashed>>
      BY <2>12 DEF Release, Move, TypeOK
    <3>3. /\ content'[o] = Zero /\ pooled'[o] = pooled[o] + 1
          /\ \A u \in Object : u # o => /\ content'[u] = content[u]
                                        /\ pooled'[u] = pooled[u]
      BY <3>1, ReleaseResets
    <3>4. worker[r] \in {"none", "done"} /\ pooled[o] = 0
      BY <2>b, <3>1 DEF BeforeAndAfter, Unshared
    <3>5. ~Holds(r)' /\ \A q \in Req : q # r => (Holds(q)' <=> Holds(q)) /\
                                           (Holds(q) => resp[q] # o)
      BY <2>b, <3>1, <3>2, <3>4 DEF Holds, Unshared
    <3>6. Unshared'
      <4>1. \A q \in Req : Holds(q)' => Holds(q) /\ resp[q] \in Object /\ resp[q] # o
        BY <3>5, HoldsOne
      <4>2. Zero' = Zero
        BY DEF Zero
      <4>3. \A u \in Object : pooled'[u] = 0 \/ (pooled'[u] = 1 /\ content'[u] = Zero')
        BY <2>b, <3>3, <3>4, <4>2 DEF Unshared
      <4>4. \A q \in Req : Holds(q)' => pooled'[resp'[q]] = 0
        BY <2>b, <3>2, <3>3, <4>1 DEF Unshared
      <4>5. QED
        BY <2>b, <3>2, <4>1, <4>3, <4>4 DEF Unshared
    <3>7. ASSUME NEW q \in Req
          PROVE  /\ BeforeAndAfter(q)'
                 /\ OwnContent(q)'
                 /\ written'[q] # Nil => serving'[q] \in {"sent", "answered"}
      <4>1. CASE q = r
        BY <3>2, <3>4, <3>5, <4>1 DEF BeforeAndAfter, OwnContent
      <4>2. CASE q # r
        <5>1. Holds(q) => content'[resp[q]] = content[resp[q]]
          BY <3>3, <3>5, <4>2, HoldsOne
        <5>2. OwnContent(q)'
          BY <2>b, <3>2, <3>5, <4>2, <5>1 DEF OwnContent
        <5>3. QED
          BY <2>b, <3>2, <4>2, <5>2 DEF BeforeAndAfter
      <4>3. QED
        BY <4>1, <4>2
    <3>8. AnswerIsOwn'
      BY <2>b, <3>2 DEF AnswerIsOwn
    <3>9. QED
      BY <2>b, <3>2, <3>6, <3>7, <3>8 DEF OwnerInv
  <2>13. ASSUME NEW r \in Req, Notify(r)
         PROVE  OwnerInv'
    <3>1. /\ UNCHANGED <<serving, worker, resp, content, pooled, written, made>>
          /\ notifier'[r] = "done" /\ crashed' = (notifier[r] = "nil")
          /\ \A q \in Req : q # r => notifier'[q] = notifier[q]
      BY <2>13 DEF Notify, TypeOK
    <3>2. (Holds(r)' <=> Holds(r)) /\ BeforeAndAfter(r)' /\ OwnContent(r)'
      BY <2>b, <3>1 DEF Holds, BeforeAndAfter, OwnContent
    <3>3. QED
      BY <2>a, <2>b, <2>c, <3>1, <3>2, OwnStep
  <2>14. CASE UNCHANGED vars
    <3>1. \A q \in Req : Holds(q)' <=> Holds(q)
      BY <2>14 DEF vars, Holds
    <3>2. Unshared'
      BY <2>14, <2>b, <3>1 DEF vars, Unshared, Zero
    <3>3. \A q \in Req : BeforeAndAfter(q)' /\ OwnContent(q)'
      BY <2>14, <2>b, <3>1 DEF vars, BeforeAndAfter, OwnContent
    <3>4. QED
      BY <2>14, <2>b, <3>2, <3>3 DEF vars, OwnerInv, AnswerIsOwn
  <2>15. QED
    BY <2>1, <2>2, <2>3, <2>4, <2>5, <2>6, <2>7, <2>8, <2>9, <2>10, <2>11,
       <2>12, <2>13, <2>14 DEF Next, Work, Serve
<1>3. QED
  BY <1>1, <1>2, TypeCorrect, PTL DEF Spec

\* Until a call of a handler is shared, a recycled Response is in the pool
\* once, or one request uses it, and never both.
THEOREM OneOwner == Spec => []ResponseHasOneOwner
<1>1. TypeOK /\ OwnerInv => ResponseHasOneOwner
  <2> SUFFICES ASSUME TypeOK, OwnerInv, ~shared, NEW o \in Object
               PROVE  pooled[o] + Cardinality(Serving(o) \cup Offering(o)) <= 1
    BY DEF ResponseHasOneOwner
  <2> DEFINE H == Serving(o) \cup Offering(o)
  <2>1. Unshared
    BY DEF OwnerInv
  <2>2. \A r \in H : r \in Req /\ resp[r] = o /\ Holds(r)
    BY RequestAssumption DEF Serving, Offering, Holds
  <2>3. pooled[o] \in {0, 1}
    BY <2>1 DEF Unshared
  <2>4. CASE H = {}
    BY <2>3, <2>4, FS_EmptySet
  <2>5. CASE H # {}
    <3>1. PICK r \in H : TRUE
      BY <2>5
    <3>2. pooled[o] = 0
      BY <2>1, <2>2, <3>1 DEF Unshared
    <3>3. H = {r}
      BY <2>1, <2>2, <3>1 DEF Unshared
    <3>4. Cardinality(H) = 1
      BY <3>3, FS_Singleton
    <3>5. QED
      BY <3>2, <3>4
  <2>6. QED
    BY <2>4, <2>5
<1>2. QED
  BY <1>1, TypeCorrect, Ownership, PTL

\* Until a call is shared, a client is sent what its own handler made.
THEOREM AnswersAreOwn == Spec => []AnswerIsOwn
<1>1. OwnerInv => AnswerIsOwn
  BY DEF OwnerInv, AnswerIsOwn
<1>2. QED
  BY <1>1, Ownership, PTL

\* Without handlers that return an error by SetHTTPError alone, reporting an
\* error does not bring the process down before a call has been shared.
THEOREM ReportingIsSafe ==
  ASSUME "bare" \notin Outcomes
  PROVE  Spec => []ProcessSurvives
<1>1. OwnerInv => ProcessSurvives
  BY DEF OwnerInv, ProcessSurvives
<1>2. QED
  BY <1>1, Ownership, PTL
=============================================================================
