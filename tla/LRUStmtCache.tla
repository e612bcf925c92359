---------------------------- MODULE LRUStmtCache ----------------------------
(***************************************************************************)
(* lruStmtCache of database/sql.go: a list of entries, the most recently   *)
(* used first, and a map from keys to list elements.  A mutex makes each   *)
(* operation one atomic action.  Range, which reads only, and which only   *)
(* tests call, is left out.                                                *)
(***************************************************************************)
EXTENDS Naturals, Sequences, FiniteSets

CONSTANTS Key, Value,
          Cap,    \* lruStmtCache.cap
          MaxOps, \* bound on the number of operations
          Nil

VARIABLES
  ll,    \* the list: records [key, value]
  items, \* keys of the map; the element of a key is its entry in ll
  now,   \* history: number of operations
  used   \* history: when each key was last used

cacheVars == <<ll, items>>
vars == <<ll, items, now, used>>

Entries == [key : Key, value : Value]
\* The list element of a key in the map.
Position(k) == CHOOSE i \in DOMAIN ll : ll[i].key = k
Entry(k) == ll[Position(k)]
\* The list without it.
Others(k) ==
  SubSeq(ll, 1, Position(k) - 1) \o SubSeq(ll, Position(k) + 1, Len(ll))
\* Mutant: an entry that is used stays where it is.
StayInPlace(e) ==
  ll' = [i \in DOMAIN ll |-> IF ll[i].key = e.key THEN e ELSE ll[i]]

MoveToFront(e) == ll' = <<e>> \o Others(e.key)

\* evictLocked, when the list is full, and PushFront.
PushFront(k, v) ==
  LET full == Len(ll) >= Cap
      back == ll[Len(ll)].key
  IN /\ ll' = <<[key |-> k, value |-> v]>>
                \o (IF full THEN SubSeq(ll, 1, Len(ll) - 1) ELSE ll)
     /\ items' = (IF full THEN items \ {back} ELSE items) \cup {k}

Load(k) ==
  IF k \in items THEN MoveToFront(Entry(k)) /\ UNCHANGED items
                 ELSE UNCHANGED cacheVars

LoadOrStore(k, v) ==
  IF k \in items THEN MoveToFront(Entry(k)) /\ UNCHANGED items
                 ELSE PushFront(k, v)

Store(k, v) ==
  IF k \in items
  THEN MoveToFront([key |-> k, value |-> v]) /\ UNCHANGED items
  ELSE PushFront(k, v)

LoadAndDelete(k) ==
  IF k \in items THEN ll' = Others(k) /\ items' = items \ {k}
                 ELSE UNCHANGED cacheVars

-----------------------------------------------------------------------------
(* The cache on its own, with the history of its use *)

Used(k) ==
  /\ now < MaxOps
  /\ now' = now + 1
  /\ used' = [used EXCEPT ![k] = now + 1]

Init ==
  /\ ll = <<>>
  /\ items = {}
  /\ now = 0
  /\ used = [k \in Key |-> 0]

Next ==
  \/ \E k \in Key :
       \/ Load(k) /\ Used(k)
       \/ \E v \in Value : LoadOrStore(k, v) /\ Used(k)
       \/ \E v \in Value : Store(k, v) /\ Used(k)
       \/ LoadAndDelete(k) /\ Used(k)

Spec == Init /\ [][Next]_vars

-----------------------------------------------------------------------------
(* Properties *)

\* The list and the map agree, one entry for each key of the map and no more
\* than the capacity, and the list is in the order of last use, so that the
\* entry evictLocked takes is the least recently used one.
EvictsLeastRecent ==
  /\ Len(ll) <= Cap
  /\ items = {ll[i].key : i \in DOMAIN ll}
  /\ \A i, j \in DOMAIN ll : i < j => used[ll[i].key] > used[ll[j].key]
=============================================================================
