----------------------------- MODULE CacheStore -----------------------------
(***************************************************************************)
(* The Redis cache (cache/redis.go) in front of the application's data.    *)
(* Each call takes a connection of a bounded pool, and retries when it is  *)
(* exhausted.  A Get or HGet that misses runs its fallback in a            *)
(* singleflight, stores what it returns, and keeps its connection          *)
(* meanwhile.  A writer first changes the data, then calls Del, HDel, Set, *)
(* HSet or HSetBulk.                                                       *)
(* A target is what a call names: a plain key, or a field of a hash; a     *)
(* value is a version of the data.  Redis is external: it is modelled by   *)
(* what its commands do to the entries and to the expiry of a key.         *)
(***************************************************************************)
EXTENDS Naturals, FiniteSets

CONSTANTS
  Call,      \* calls of the cache
  Asks,      \* what a call may ask: an operation on a target
  Target,
  Key, KeyOf, \* the Redis key of each target
  Hash,      \* the keys that are hashes
  FlightKey, \* the singleflight key of each target
  MaxActive, \* connections of the pool
  MaxRetry,  \* Store.maxRetry
  CanFail,   \* whether commands and fallbacks may fail
  Nil

VARIABLES
  ask,     \* what each call asks; "get" is Get or HGet
  data,    \* the version of the data behind each target
  cached,  \* the version Redis holds, or Nil
  expires, \* the Redis keys that have a time to live
  pc,      \* where each call is
  tries,   \* attempts to get a connection
  val,     \* the version a call has loaded, is writing, or returns
  from,    \* history: the target whose fallback made val
  hadTTL,  \* isHSETTTLAlreadyExist of a fallback
  prefixes, \* how often HSet put the prefix before its key
  raced    \* history: targets invalidated while a call held an older version

redisVars == <<cached, expires>>
callVars == <<tries, val, from, hadTTL, prefixes>>
vars == <<ask, data, cached, expires, pc, tries, val, from, hadTTL, prefixes,
          raced>>

Goto(c, l) == pc' = [pc EXCEPT ![c] = l]
T(c) == ask[c].target
K(c) == KeyOf[T(c)]
IsHash(c) == K(c) \in Hash

NoConn == {"idle", "connecting", "done", "failed"}
Leading == {"loading", "checkingTTL", "storing", "expiring"}
Connected == {c \in Call : pc[c] \notin NoConn}
\* Mutant: the field of a hash is left out of the key.
SameHash(c, d) == K(c) = K(d)

\* Two calls have the same singleflight key.
SameFlight(c, d) == FlightKey[T(c)] = FlightKey[T(d)]

Leaders(c) == {d \in Call : pc[d] \in Leading /\ SameFlight(c, d)}
Followers(c) == {d \in Call : pc[d] = "following" /\ SameFlight(c, d)}

-----------------------------------------------------------------------------
(* Redis *)

Fields(k) == {t \in Target : KeyOf[t] = k}
Exists(k) == \E t \in Fields(k) : cached[t] # Nil

Remove(S) ==
  /\ cached' = [t \in Target |-> IF t \in S THEN Nil ELSE cached[t]]
  /\ expires' = expires \ {k \in Key : \A t \in Fields(k) :
                                          t \in S \/ cached[t] = Nil}

\* SET t v EX e.
SetEx(t, v) ==
  /\ cached' = [cached EXCEPT ![t] = v]
  /\ expires' = expires \cup {KeyOf[t]}

\* HSET k f v keeps the expiry of the key, if it has one.
HSetField(t, v) ==
  /\ cached' = [cached EXCEPT ![t] = v]
  /\ UNCHANGED expires

\* A key reaches the end of its time to live.
Expire(k) ==
  /\ k \in expires
  /\ Remove(Fields(k))
  /\ UNCHANGED <<ask, data, pc, callVars, raced>>

-----------------------------------------------------------------------------
(* Every call *)

\* A writer changes the data before it calls the cache.
Begin(c) ==
  /\ pc[c] = "idle"
  /\ IF ask[c].op = "get"
     THEN UNCHANGED <<data, val>>
     ELSE /\ data' = [data EXCEPT ![T(c)] = @ + 1]
          /\ val' = [val EXCEPT ![c] = data[T(c)] + 1]
  /\ Goto(c, "connecting")
  /\ UNCHANGED <<ask, redisVars, tries, from, hadTTL, prefixes, raced>>

\* One round of wrapWithRetries up to Pool.GetContext.  HSet puts the prefix
\* before its key inside of the function that is retried.
Connect(c) ==
  /\ pc[c] = "connecting"
  /\ IF Cardinality(Connected) < MaxActive
     THEN /\ Goto(c, IF ask[c].op = "get" THEN "reading" ELSE "writing")
          /\ UNCHANGED tries
     ELSE /\ tries' = [tries EXCEPT ![c] = @ + 1]
          /\ Goto(c, IF tries[c] + 1 < MaxRetry THEN "connecting" ELSE "failed")
  /\ prefixes' = [prefixes EXCEPT ![c] = IF ask[c].op = "hset" THEN @ + 1 ELSE 1]
  /\ UNCHANGED <<ask, data, redisVars, val, from, hadTTL, raced>>

\* A command of a call outside a flight fails.
Fail(c) ==
  /\ CanFail
  /\ pc[c] \in {"reading", "writing"}
  /\ Goto(c, "failed")
  /\ UNCHANGED <<ask, data, redisVars, callVars, raced>>

-----------------------------------------------------------------------------
(* Get and HGet *)

Read(c) ==
  /\ pc[c] = "reading"
  /\ IF cached[T(c)] # Nil
     THEN /\ val' = [val EXCEPT ![c] = cached[T(c)]]
          /\ from' = [from EXCEPT ![c] = T(c)]
          /\ Goto(c, "done")
     ELSE Goto(c, "missed") /\ UNCHANGED <<val, from>>
  /\ UNCHANGED <<ask, data, redisVars, tries, hadTTL, prefixes, raced>>

\* sf.Do: lead a flight, or follow the one that is under way.
JoinFlight(c) ==
  /\ pc[c] = "missed"
  /\ Goto(c, IF Leaders(c) = {} THEN "loading" ELSE "following")
  /\ UNCHANGED <<ask, data, redisVars, callVars, raced>>

\* fallbackFn reads the data.
Load(c) ==
  /\ pc[c] = "loading"
  /\ val' = [val EXCEPT ![c] = data[T(c)]]
  /\ from' = [from EXCEPT ![c] = T(c)]
  /\ Goto(c, IF IsHash(c) THEN "checkingTTL" ELSE "storing")
  /\ UNCHANGED <<ask, data, redisVars, tries, hadTTL, prefixes, raced>>

CheckTTL(c) ==
  /\ pc[c] = "checkingTTL"
  /\ hadTTL' = [hadTTL EXCEPT ![c] = K(c) \in expires]
  /\ Goto(c, "storing")
  /\ UNCHANGED <<ask, data, redisVars, tries, val, from, prefixes, raced>>

\* The flight of c lands: its callers return what it made.
Land(c) ==
  /\ pc' = [d \in Call |-> IF d \in Followers(c) \cup {c} THEN "done"
                                                          ELSE pc[d]]
  /\ val' = [d \in Call |-> IF d \in Followers(c) THEN val[c] ELSE val[d]]
  /\ from' = [d \in Call |-> IF d \in Followers(c) THEN from[c] ELSE from[d]]

StoreLoaded(c) ==
  /\ pc[c] = "storing"
  /\ IF IsHash(c) THEN HSetField(T(c), val[c]) ELSE SetEx(T(c), val[c])
  /\ IF IsHash(c) /\ ~hadTTL[c]
     THEN Goto(c, "expiring") /\ UNCHANGED <<val, from>>
     ELSE Land(c)
  /\ UNCHANGED <<ask, data, tries, hadTTL, prefixes, raced>>

\* EXPIRE, whose failure is logged only.
ExpireLoaded(c) ==
  /\ pc[c] = "expiring"
  /\ \/ expires' = expires \cup {k \in {K(c)} : Exists(k)}
     \/ CanFail /\ UNCHANGED expires
  /\ Land(c)
  /\ UNCHANGED <<ask, data, cached, tries, hadTTL, prefixes, raced>>

\* The fallback or a command fails: every caller of the flight gets the error.
FlightFails(c) ==
  /\ CanFail
  /\ pc[c] \in {"loading", "checkingTTL", "storing"}
  /\ pc' = [d \in Call |-> IF d \in Followers(c) \cup {c} THEN "failed"
                                                          ELSE pc[d]]
  /\ UNCHANGED <<ask, data, redisVars, callVars, raced>>

-----------------------------------------------------------------------------
(* The writers *)

\* Flights, and other writers, that hold a version older than the data.
Behind(S) ==
  {t \in S : \E d \in Call :
     T(d) = t /\ val[d] # Nil /\ val[d] < data[t]
       /\ pc[d] \in {"checkingTTL", "storing", "connecting", "writing"}
       /\ ask[d].op \in {"get", "set", "hset", "hsetbulk"}}

\* Mutant: Del leaves the prefix out, and deletes nothing.
InvalidateUnprefixed(c) ==
  /\ pc[c] = "writing"
  /\ ask[c].op \in {"del", "hdel"}
  /\ raced' = raced \cup Behind({T(c)})
  /\ Goto(c, "done")
  /\ UNCHANGED <<ask, data, redisVars, callVars>>

\* DEL removes the key, HDEL the field.
Invalidate(c) ==
  LET S == IF ask[c].op = "del" THEN Fields(K(c)) ELSE {T(c)}
  IN /\ pc[c] = "writing"
     /\ ask[c].op \in {"del", "hdel"}
     /\ Remove(S)
     /\ raced' = raced \cup Behind(S)
     /\ Goto(c, "done")
     /\ UNCHANGED <<ask, data, callVars>>

\* SET ... EX; a prefix too many, and it is another key that is written.
\* HSet and HSetBulk set an expiry when they are given one.
Write(c) ==
  /\ pc[c] = "writing"
  /\ ask[c].op \in {"set", "hset", "hsetbulk"}
  /\ IF prefixes[c] # 1 THEN UNCHANGED redisVars
     ELSE IF ask[c].op = "set" THEN SetEx(T(c), val[c])
     ELSE HSetField(T(c), val[c]) \/ SetEx(T(c), val[c])
  /\ raced' = raced \cup Behind({T(c)})
                 \cup {t \in {T(c)} : val[c] < data[t]}
  /\ Goto(c, "done")
  /\ UNCHANGED <<ask, data, callVars>>

-----------------------------------------------------------------------------
Init ==
  /\ ask \in [Call -> Asks]
  /\ data = [t \in Target |-> 0]
  /\ cached = [t \in Target |-> Nil]
  /\ expires = {}
  /\ pc = [c \in Call |-> "idle"]
  /\ tries = [c \in Call |-> 0]
  /\ val = [c \in Call |-> Nil]
  /\ from = [c \in Call |-> Nil]
  /\ hadTTL = [c \in Call |-> FALSE]
  /\ prefixes = [c \in Call |-> 0]
  /\ raced = {}

Run(c) ==
  \/ Connect(c) \/ Fail(c)
  \/ Read(c) \/ JoinFlight(c) \/ Load(c) \/ CheckTTL(c) \/ StoreLoaded(c)
  \/ ExpireLoaded(c) \/ FlightFails(c)
  \/ Invalidate(c) \/ Write(c)

Next == \/ \E c \in Call : Begin(c) \/ Run(c)
        \/ \E k \in Key : Expire(k)

Spec == Init /\ [][Next]_vars

-----------------------------------------------------------------------------
(* Properties *)

Answered(c) == pc[c] = "done" /\ ask[c].op = "get"
Writers(t) == {c \in Call : T(c) = t /\ ask[c].op # "get"}

\* A Get or HGet that succeeds returns a value of its own target, also when it
\* shared the flight of another call (fallbackAction).
AnswerIsForTarget ==
  \A c \in Call : Answered(c) => from[c] = T(c) /\ val[c] # Nil

\* Redis holds an outdated version only while a writer has yet to invalidate
\* it, or failed to, or when an older version was on its way at the time it
\* did, or when a retried HSet wrote another key.
StaleOnlyByRace ==
  \A t \in Target : cached[t] # Nil /\ cached[t] < data[t] =>
    \/ t \in raced
    \/ \E c \in Writers(t) : \/ pc[c] \in {"connecting", "writing", "failed"}
                             \/ prefixes[c] > 1
=============================================================================
