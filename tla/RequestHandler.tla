--------------------------- MODULE RequestHandler ---------------------------
(***************************************************************************)
(* Serving requests (App.wrapHandler and handleResponseError in            *)
(* api/app.go, the pool of Responses in api/response.go).  A request has   *)
(* a serving goroutine, which writes the answer, and, unless the app is in *)
(* sync mode, a worker goroutine that runs the handler and offers its      *)
(* *Response on an unbuffered channel.  With singleflight, workers whose   *)
(* requests have the same key share one call of the handler, and so share  *)
(* its *Response.  Responses are recycled through a sync.Pool.             *)
(* A handler may return a Response ("ok"), one made by SetError ("fail")   *)
(* or by SetHTTPError alone ("bare"), nil, or panic.                       *)
(***************************************************************************)
EXTENDS Naturals, FiniteSets, SequencesExt

CONSTANTS
  Req,      \* requests; each is also its own request ID
  Origin,   \* client address, method, path and authorization
  Query,    \* sets of query parameters
  Body,     \* request bodies
  Object,   \* the Responses that New of the pool can make
  Modes,    \* among "sync", "async" and "singleflight"
  Outcomes, \* what handlers may do
  Nil

\* What the fields of a Response that was allocated may hold.
Fields == [trace : Req \cup {Nil}, data : Req \cup {Nil},
           err : BOOLEAN, internal : BOOLEAN]

ASSUME RequestAssumption ==
  /\ \A q \in Query : IsFiniteSet(q)
  /\ Modes \subseteq {"sync", "async", "singleflight"}
  /\ Outcomes \subseteq {"ok", "fail", "bare", "nil", "panic"}
  /\ Nil \notin Req \cup Object
  /\ Nil \notin Fields

VARIABLES
  mode,     \* App.syncMode and App.sfActive, fixed before serving
  ask,      \* what each request is, see Ask
  serving,  \* where the serving goroutine of each request is
  worker,   \* where its worker is
  key,      \* the singleflight key its worker made
  resp,     \* the *Response of its worker, and then of its server
  content,  \* the fields of each Response; Nil when it was never allocated
  pooled,   \* how many times the pool holds each Response
  notifier, \* the goroutine that reports the error of each request
  written,  \* history: what was written to each client
  made,     \* history: the outcome of each request's call of its handler
  shared,   \* history: some worker has followed the call of another
  crashed   \* a goroutine without recover panicked: the process is dead

vars == <<mode, ask, serving, worker, key, resp, content, pooled, notifier,
          written, made, shared, crashed>>

fixed == <<mode, ask>>

Ask == [origin : Origin, query : Query, body : Body]

Zero == [trace |-> Nil, data |-> Nil, err |-> FALSE, internal |-> FALSE]

-----------------------------------------------------------------------------
(* The pool of Responses *)

\* sync.Pool.Get hands out any Response it holds, or a new one.
Obtainable == {o \in Object : pooled[o] > 0 \/ content[o] = Nil}

\* NewResponse, then the setters with which r's handler fills the Response.
NewResponse(o, r, err, internal) ==
  LET got == IF content[o] = Nil THEN Zero ELSE content[o]
  IN /\ o \in Obtainable
     /\ pooled' = [pooled EXCEPT ![o] = IF @ > 0 THEN @ - 1 ELSE 0]
     /\ content' = [content EXCEPT
                      ![o] = [trace |-> got.trace, data |-> r,
                              err |-> got.err \/ err,
                              internal |-> got.internal \/ internal]]

\* Mutant: reset forgets Err.
ReleaseKeepsErr(o) ==
  /\ content' = [content EXCEPT ![o] = [Zero EXCEPT !.err = content[o].err]]
  /\ pooled' = [pooled EXCEPT ![o] = @ + 1]

\* ReleaseResponse: reset, then back to the pool, whoever else still holds it.
ReleaseResponse(o) ==
  /\ content' = [content EXCEPT ![o] = Zero]
  /\ pooled' = [pooled EXCEPT ![o] = @ + 1]

\* The Response that a call of r's handler returns: resp'[q] for each q in Q.
Returns(r, Q, outcome) ==
  /\ made' = [made EXCEPT ![r] = outcome]
  /\ \/ /\ outcome \in {"ok", "fail", "bare"}
        /\ \E o \in Object :
             /\ NewResponse(o, r, outcome # "ok", outcome = "fail")
             /\ resp' = [q \in Req |-> IF q \in Q THEN o ELSE resp[q]]
     \/ /\ outcome \in {"nil", "panic"}
        /\ UNCHANGED <<resp, content, pooled>>

-----------------------------------------------------------------------------
(* The worker *)

\* generateUniqueRequestKey ranges over the map of query parameters, so their
\* order in the key is any order; the body is not part of it.
UniqueKeys(r) == {<<ask[r].origin, q>> : q \in SetToSeqs(ask[r].query)}

Flight(k) == {r \in Req : worker[r] = "handler" /\ key[r] = k}

\* The worker calls the handler, through sf.Do when singleflight is on.
StartWork(r) ==
  /\ worker[r] = "started"
  /\ IF mode = "singleflight"
     THEN \E k \in UniqueKeys(r) :
            /\ key' = [key EXCEPT ![r] = k]
            /\ worker' = [worker EXCEPT
                            ![r] = IF Flight(k) = {} THEN "handler"
                                                     ELSE "follower"]
            /\ shared' = (shared \/ Flight(k) # {})
     ELSE /\ worker' = [worker EXCEPT ![r] = "handler"]
          /\ UNCHANGED <<key, shared>>
  /\ UNCHANGED <<fixed, serving, resp, content, pooled, notifier, written,
                 made, crashed>>

\* Mutant: the duplicates of a call are left waiting.
SharingWithNobody(r) == {r}

\* The workers that get the result of the call r's worker makes.
Sharing(r) ==
  {r} \cup {q \in Req : worker[q] = "follower" /\ key[q] = key[r]}

\* The handler returns or panics; the panic is recovered and the result nil.
HandlerReturns(r) ==
  /\ worker[r] = "handler"
  /\ \E outcome \in Outcomes : Returns(r, Sharing(r), outcome)
  /\ worker' = [q \in Req |-> IF q \in Sharing(r) THEN "offering"
                                                  ELSE worker[q]]
  /\ UNCHANGED <<fixed, serving, key, notifier, written, shared, crashed>>

\* Mutant: the Response that replaces nil has no InternalError.
ReplaceNilBare(r) ==
  /\ worker[r] = "offering" /\ resp[r] = Nil
  /\ \E o \in Object :
       /\ NewResponse(o, r, TRUE, FALSE)
       /\ resp' = [resp EXCEPT ![r] = o]
  /\ UNCHANGED <<fixed, serving, worker, key, notifier, written, made,
                 shared, crashed>>

\* `if resp == nil' of the deferred function: an internal error is offered.
ReplaceNil(r) ==
  /\ worker[r] = "offering" /\ resp[r] = Nil
  /\ \E o \in Object :
       /\ NewResponse(o, r, TRUE, TRUE)
       /\ resp' = [resp EXCEPT ![r] = o]
  /\ UNCHANGED <<fixed, serving, worker, key, notifier, written, made,
                 shared, crashed>>

\* `respChan <- resp' meets the select of the serving goroutine.
HandOver(r) ==
  /\ worker[r] = "offering" /\ resp[r] # Nil
  /\ serving[r] = "waiting"
  /\ worker' = [worker EXCEPT ![r] = "done"]
  /\ serving' = [serving EXCEPT ![r] = "received"]
  /\ UNCHANGED <<fixed, key, resp, content, pooled, notifier, written,
                 made, shared, crashed>>

-----------------------------------------------------------------------------
(* The serving goroutine *)

Move(r, from, to) ==
  /\ serving[r] = from
  /\ serving' = [serving EXCEPT ![r] = to]

\* A request arrives; its worker starts, or its handler in sync mode.
Arrive(r) ==
  /\ Move(r, "none", IF mode = "sync" THEN "handler" ELSE "waiting")
  /\ worker' = [worker EXCEPT ![r] = IF mode = "sync" THEN @ ELSE "started"]
  /\ UNCHANGED <<fixed, key, resp, content, pooled, notifier, written,
                 made, shared, crashed>>

\* Sync mode.  On a panic, or a nil Response, panicRecover writes nothing:
\* net/http answers with an empty 200.
SyncHandlerReturns(r) ==
  /\ serving[r] = "handler"
  /\ \E outcome \in Outcomes :
       /\ Returns(r, {r}, outcome)
       /\ IF resp'[r] = Nil
          THEN Move(r, "handler", "empty")
          ELSE Move(r, "handler", "received")
  /\ UNCHANGED <<fixed, worker, key, notifier, written, shared, crashed>>

\* Mutant: an expired deadline does not end the request.
NeverTimesOut(r) == FALSE /\ UNCHANGED vars

\* The deadline passes; the worker and its Response are abandoned.
TimeOut(r) ==
  /\ Move(r, "waiting", "timedout")
  /\ UNCHANGED <<fixed, worker, key, resp, content, pooled, notifier,
                 written, made, shared, crashed>>

\* The client goes away: the context is cancelled, and nothing is written.
Cancel(r) ==
  /\ Move(r, "waiting", "gone")
  /\ UNCHANGED <<fixed, worker, key, resp, content, pooled, notifier,
                 written, made, shared, crashed>>

\* TraceId and the X-Trace-ID header of the Response are set.
SetTrace(r) ==
  /\ Move(r, "received", "traced")
  /\ content' = [content EXCEPT ![resp[r]].trace = r]
  /\ UNCHANGED <<fixed, worker, key, resp, pooled, notifier, written, made,
                 shared, crashed>>

\* handleResponseError, first test: `if response.Err == nil'.
CheckError(r) ==
  /\ Move(r, "traced", IF content[resp[r]].err THEN "failed" ELSE "sending")
  /\ UNCHANGED <<fixed, worker, key, resp, content, pooled, notifier,
                 written, made, shared, crashed>>

\* Then Err is read again: when it is nil by now, the request panics.
ReadError(r) ==
  /\ Move(r, "failed", IF content[resp[r]].err THEN "reporting" ELSE "panicked")
  /\ UNCHANGED <<fixed, worker, key, resp, content, pooled, notifier,
                 written, made, shared, crashed>>

\* snapshotInternalError := response.InternalError, for the goroutine that
\* reports it and that starts here.
ReportError(r) ==
  /\ Move(r, "reporting", "sending")
  /\ notifier' = [notifier EXCEPT
                    ![r] = IF content[resp[r]].internal THEN "error" ELSE "nil"]
  /\ UNCHANGED <<fixed, worker, key, resp, content, pooled, written, made,
                 shared, crashed>>

\* Send: headers and body come from the Response; a header it does not set
\* keeps the value that wrapHandler gave it first.
Send(r) ==
  LET c == content[resp[r]]
  IN /\ Move(r, "sending", "sent")
     /\ written' = [written EXCEPT
                      ![r] = [trace |-> IF c.trace = Nil THEN r ELSE c.trace,
                              data |-> c.data, err |-> c.err]]
     /\ UNCHANGED <<fixed, worker, key, resp, content, pooled, notifier,
                    made, shared, crashed>>

\* Mutant: the Response is released before it is sent.
ReleaseBeforeSend(r) ==
  \/ /\ Move(r, "sending", "sent")
     /\ ReleaseResponse(resp[r])
     /\ UNCHANGED <<fixed, worker, key, resp, notifier, written, made,
                    shared, crashed>>
  \/ /\ Move(r, "sent", "answered")
     /\ written' = [written EXCEPT
                      ![r] = [trace |-> r, data |-> content[resp[r]].data,
                              err |-> content[resp[r]].err]]
     /\ UNCHANGED <<fixed, worker, key, resp, content, pooled, notifier,
                    made, shared, crashed>>

Release(r) ==
  /\ Move(r, "sent", "answered")
  /\ ReleaseResponse(resp[r])
  /\ UNCHANGED <<fixed, worker, key, resp, notifier, written, made, shared,
                 crashed>>

\* The goroutine of handleResponseError reads snapshotInternalError.Status.
Notify(r) ==
  /\ notifier[r] \in {"error", "nil"}
  /\ notifier' = [notifier EXCEPT ![r] = "done"]
  /\ crashed' = (notifier[r] = "nil")
  /\ UNCHANGED <<fixed, serving, worker, key, resp, content, pooled,
                 written, made, shared>>

-----------------------------------------------------------------------------
Init ==
  /\ mode \in Modes
  /\ ask \in [Req -> Ask]
  /\ serving = [r \in Req |-> "none"]
  /\ worker = [r \in Req |-> "none"]
  /\ key = [r \in Req |-> Nil]
  /\ resp = [r \in Req |-> Nil]
  /\ content = [o \in Object |-> Nil]
  /\ pooled = [o \in Object |-> 0]
  /\ notifier = [r \in Req |-> "none"]
  /\ written = [r \in Req |-> Nil]
  /\ made = [r \in Req |-> Nil]
  /\ shared = FALSE
  /\ crashed = FALSE

Work(r) == StartWork(r) \/ HandlerReturns(r) \/ ReplaceNil(r) \/ HandOver(r)
Serve(r) == \/ SyncHandlerReturns(r) \/ TimeOut(r) \/ SetTrace(r) \/ CheckError(r)
            \/ ReadError(r) \/ ReportError(r) \/ Send(r) \/ Release(r)

Next == /\ ~crashed
        /\ \E r \in Req : \/ Arrive(r) \/ Work(r) \/ Serve(r) \/ Cancel(r)
                          \/ Notify(r)

Spec == Init /\ [][Next]_vars

\* Goroutines that can run do run, and the timer of context.WithTimeout fires;
\* a handler need not return.
Fairness ==
  \A r \in Req :
    /\ WF_vars(~crashed /\ (StartWork(r) \/ ReplaceNil(r) \/ HandOver(r)))
    /\ WF_vars(~crashed /\ TimeOut(r))
    /\ WF_vars(~crashed /\ (\/ SetTrace(r) \/ CheckError(r) \/ ReadError(r)
                            \/ ReportError(r) \/ Send(r) \/ Release(r)))

FairSpec == Spec /\ Fairness

-----------------------------------------------------------------------------
(* Properties *)

Using == {"received", "traced", "failed", "reporting", "sending", "sent"}
Over == {"answered", "empty", "timedout", "gone", "panicked"}
Serving(o) ==
  {r \in Req : resp[r] = o
                 /\ serving[r] \in Using}
Offering(o) == {r \in Req : resp[r] = o /\ worker[r] = "offering"}

ServingStates == {"none", "waiting", "handler"} \cup Using \cup Over
WorkerStates == {"none", "started", "handler", "follower", "offering", "done"}

TypeOK ==
  /\ mode \in Modes
  /\ serving \in [Req -> ServingStates]
  /\ worker \in [Req -> WorkerStates]
  /\ resp \in [Req -> Object \cup {Nil}]
  /\ content \in [Object -> Fields \cup {Nil}]
  /\ pooled \in [Object -> Nat]
  /\ notifier \in [Req -> {"none", "error", "nil", "done"}]
  /\ written \in [Req -> [trace : Req, data : Req \cup {Nil}, err : BOOLEAN]
                            \cup {Nil}]
  /\ made \in [Req -> Outcomes \cup {Nil}]
  /\ shared \in BOOLEAN
  /\ crashed \in BOOLEAN
  /\ \A r \in Req : serving[r] \in Using => resp[r] # Nil
  /\ \A r \in Req : resp[r] # Nil => content[resp[r]] # Nil

\* A Response has one owner, as long as no call of a handler was shared: it is
\* in the pool once, or one request is using it, and never both (NewResponse
\* and ReleaseResponse).
ResponseHasOneOwner ==
  ~shared =>
    \A o \in Object :
      pooled[o] + Cardinality(Serving(o) \cup Offering(o)) <= 1

\* What is written to a client is what its own handler made, under its own
\* trace ID, and an error exactly when its handler made one: no field of a
\* Response survives from the request that used it before.
AnswerIsOwn ==
  ~shared =>
    \A r \in Req : written[r] # Nil =>
      /\ written[r].trace = r /\ written[r].data = r
      /\ (written[r].err <=> made[r] # "ok")

\* A handler that returns a complete Response, nil, or panics does not bring
\* the process down, unless its call was shared (handleResponseError).
ProcessSurvives == crashed => shared

\* Every request that has arrived is over in the end, even when its handler
\* never returns, or its worker waits for one that does not (the timeout).
EveryRequestEnds ==
  \A r \in Req : serving[r] = "waiting" ~> serving[r] \in Over \/ crashed

\* Why the three hold (the inductive invariant).  A request holds its Response
\* from the moment its handler returned it until it is released or leaked; no
\* other request holds it, and the pool does not have it.  A Response in the
\* pool is as reset left it, so that the one that is held has what its own
\* handler put in.  A request has no Response before its handler has returned,
\* and is past its worker when it serves one.
Holds(r) ==
  serving[r] \in Using \/ (worker[r] = "offering" /\ resp[r] # Nil)

Unshared ==
  /\ \A r \in Req : worker[r] # "follower"
  /\ \A r, q \in Req : Holds(r) /\ Holds(q) /\ resp[r] = resp[q] => r = q
  /\ \A r \in Req : Holds(r) => pooled[resp[r]] = 0
  /\ \A o \in Object : pooled[o] = 0 \/ (pooled[o] = 1 /\ content[o] = Zero)

BeforeAndAfter(r) ==
  /\ serving[r] \in {"none", "handler"} => worker[r] = "none" /\ resp[r] = Nil
  /\ worker[r] \in {"started", "handler"} => resp[r] = Nil
  /\ serving[r] \in Using \cup {"answered"} => worker[r] \in {"none", "done"}
  /\ worker[r] = "offering" /\ resp[r] = Nil => made[r] \in {"nil", "panic"}

OwnContent(r) ==
  LET c == content[resp[r]]
  IN Holds(r) =>
       /\ c.data = r
       /\ c.err <=> made[r] # "ok"
       /\ c.err /\ "bare" \notin Outcomes => c.internal
       /\ serving[r] \in Using \ {"received"} => c.trace = r
       /\ serving[r] \in {"failed", "reporting"} => c.err

OwnerInv ==
  /\ ~shared =>
       /\ Unshared
       /\ \A r \in Req : /\ BeforeAndAfter(r)
                         /\ OwnContent(r)
                         /\ written[r] # Nil => serving[r] \in {"sent", "answered"}
       /\ AnswerIsOwn
       /\ "bare" \notin Outcomes =>
            ~crashed /\ \A r \in Req : notifier[r] # "nil"

\* What the next property assumes of the application.
HandlersReturn == \A r \in Req : WF_vars(~crashed /\ HandlerReturns(r))

\* When handlers return, the duplicates of a call are not left waiting, also
\* when it panics or returns nil (the singleflight of wrapHandler).
FollowerIsServed ==
  HandlersReturn =>
    \A r \in Req : worker[r] = "follower" ~> worker[r] # "follower" \/ crashed
=============================================================================
