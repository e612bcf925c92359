-------------------------------- MODULE Stores --------------------------------
(* The bounded stores, side by side: a behaviour is one of the map of      *)
(* rebound queries (BoundedSyncMap), of an LRU cache (LRUStmtCache), of    *)
(* the calls that share prepared statements (StmtCache), of the buffer of  *)
(* recent messages (MessageBuffer) or of the Redis cache (CacheStore).     *)
EXTENDS BoundedSyncMap, Sequences

CONSTANTS
  LRUKey, LRUValue, LRUCap, LRUOps,  \* of LRUStmtCache
  Caller, QueryOf, Query, OnMaster, Stmt, StmtCap,  \* of StmtCache
  MessageID, NoID, MaxSize, TTL, MaxClock,  \* of MessageBuffer
  Call, Asks, Target, RedisKey, KeyOf, Hash, FlightKey, MaxActive,
  MaxRetry,  \* of CacheStore
  CanFail

Operations == {"get", "del", "set", "hdel", "hset", "hsetbulk"}

ASSUME StoresAssumption ==
  /\ LRUCap \in Nat \ {0} /\ StmtCap \in Nat \ {0}
  /\ QueryOf \in [Caller -> Query]
  /\ Nil \notin Stmt
  /\ Nil \notin [query : Query, db : {"master", "follower"}]
  /\ MaxSize \in Nat /\ TTL \in Nat
  /\ Asks \subseteq [op : Operations, target : Target]
  /\ KeyOf \in [Target -> RedisKey]
  /\ Nil \notin Nat

VARIABLES
  live,  \* the store of this behaviour
  ll, items, now, used,
  sharedLL, sharedItems, prepared, closed, callAt, stmt, own, dropped, failed,
  messages, clock, replay,
  ask, data, cached, expires, askedAt, tries, val, from, hadTTL, prefixes, raced

LRU == INSTANCE LRUStmtCache WITH
  Key <- LRUKey, Value <- LRUValue, Cap <- LRUCap, MaxOps <- LRUOps

Stmts == INSTANCE StmtCache WITH
  Cap <- StmtCap, ll <- sharedLL, items <- sharedItems, pc <- callAt

Buffer == INSTANCE MessageBuffer

Cache == INSTANCE CacheStore WITH Key <- RedisKey, pc <- askedAt

-----------------------------------------------------------------------------
mapVars == <<m, count, pc, victim, ops, missed>>
lruVars == <<ll, items, now, used>>
stmtVars == <<sharedLL, sharedItems, prepared, closed, callAt, stmt, own, dropped,
              failed>>
bufferVars == <<messages, clock, replay>>
cacheVars == <<ask, data, cached, expires, askedAt, tries, val, from, hadTTL,
               prefixes, raced>>
storeVars == <<live, mapVars, lruVars, stmtVars, bufferVars, cacheVars>>

StoresInit ==
  /\ live \in {"map", "lru", "statements", "buffer", "cache"}
  /\ Init /\ LRU!Init /\ Stmts!Init /\ Buffer!Init /\ Cache!Init
  /\ live # "cache" => \A c \in Call : ask[c] = CHOOSE a \in Asks : a.op = "get"

StoresNext ==
  \/ /\ live = "map" /\ Next
     /\ UNCHANGED <<live, lruVars, stmtVars, bufferVars, cacheVars>>
  \/ /\ live = "lru" /\ LRU!Next
     /\ UNCHANGED <<live, mapVars, stmtVars, bufferVars, cacheVars>>
  \/ /\ live = "statements" /\ Stmts!Next
     /\ UNCHANGED <<live, mapVars, lruVars, bufferVars, cacheVars>>
  \/ /\ live = "buffer" /\ Buffer!Next
     /\ UNCHANGED <<live, mapVars, lruVars, stmtVars, cacheVars>>
  \/ /\ live = "cache" /\ Cache!Next
     /\ UNCHANGED <<live, mapVars, lruVars, stmtVars, bufferVars>>

StoresSpec == StoresInit /\ [][StoresNext]_storeVars

-----------------------------------------------------------------------------
(* The properties of the stores, by the names they have there, beside      *)
(* CountIsAccounted, which is BoundedSyncMap's.                            *)

\* The list and the map of an LRU cache agree, in the order of last use.
EvictsLeastRecent == LRU!EvictsLeastRecent
\* The statements that are cached are open, and for their query.
CachedIsOpen == Stmts!CachedIsOpen
\* Every open statement has one owner that will close it.
EveryStatementIsOwned == Stmts!EveryStatementIsOwned
\* Only a query whose execution failed meets a closed statement.
ClosedOnlyAfterFailure == Stmts!ClosedOnlyAfterFailure
\* The buffer loses what has expired, everything, or the oldest.
LosesOldestFirst == Buffer!LosesOldestFirst
\* A replay holds what is buffered and not the message it starts from.
ReplayIsOfTheBuffer == Buffer!ReplayIsOfTheBuffer
\* A call gets a value of its own target.
AnswerIsForTarget == Cache!AnswerIsForTarget
\* Redis holds an outdated version only by a race with its invalidation.
StaleOnlyByRace == Cache!StaleOnlyByRace
=============================================================================
