--------------------------- MODULE BoundedSyncMap ---------------------------
(***************************************************************************)
(* boundedSyncMap of database/sql.go: a sync.Map, an atomic count of its   *)
(* entries and a capacity.  No lock covers the two, so an operation is a   *)
(* sequence of atomic steps, between which other goroutines run.  It holds *)
(* the rebind cache, whose value is a function of its key, so only the     *)
(* keys are modelled.                                                      *)
(***************************************************************************)
EXTENDS Integers, FiniteSets

CONSTANTS Proc,   \* goroutines
          Key,
          Cap,    \* boundedSyncMap.cap
          MaxOps, \* bound on the operations of one goroutine
          Nil

ASSUME MapAssumption ==
  /\ IsFiniteSet(Proc) /\ IsFiniteSet(Key)
  /\ Cap \in Nat
  /\ MaxOps \in Nat
  /\ Nil \notin Key

VARIABLES
  m,      \* the keys in the sync.Map
  count,  \* the atomic counter
  pc,     \* where each goroutine is: "idle", "counting" an entry it added,
          \* "evicting", "taking" the key it met, "uncounting" one it removed
  victim, \* the key an eviction met in the map
  ops,    \* operations each goroutine has begun
  missed  \* history: evictions that removed nothing

vars == <<m, count, pc, victim, ops, missed>>

At(l) == {p \in Proc : pc[p] = l}
Goto(p, l) == pc' = [pc EXCEPT ![p] = l]

Begin(p) ==
  /\ pc[p] = "idle"
  /\ ops[p] < MaxOps
  /\ ops' = [ops EXCEPT ![p] = @ + 1]

\* Mutant: an entry that was there is counted again.
StoreCountsAlways(p, k) ==
  /\ Begin(p)
  /\ m' = m \cup {k}
  /\ Goto(p, "counting")
  /\ UNCHANGED <<count, victim, missed>>

\* LoadOrStore and Store: m.LoadOrStore or m.Swap, which tell if it was there.
LoadOrStore(p, k) ==
  /\ Begin(p)
  /\ m' = m \cup {k}
  /\ Goto(p, IF k \in m THEN "idle" ELSE "counting")
  /\ UNCHANGED <<count, victim, missed>>

\* Mutant: the count before the addition is compared.
CountLate(p) ==
  /\ pc[p] = "counting"
  /\ count' = count + 1
  /\ Goto(p, IF count > Cap THEN "evicting" ELSE "idle")
  /\ UNCHANGED <<m, victim, ops, missed>>

\* `if c.count.Add(1) > c.cap'
Count(p) ==
  /\ pc[p] = "counting"
  /\ count' = count + 1
  /\ Goto(p, IF count + 1 > Cap THEN "evicting" ELSE "idle")
  /\ UNCHANGED <<m, victim, ops, missed>>

\* evictOne: Range meets some entry first, if there is one.
Meet(p) ==
  /\ pc[p] = "evicting"
  /\ \/ \E k \in m : victim' = [victim EXCEPT ![p] = k] /\ Goto(p, "taking")
     \/ m = {} /\ Goto(p, "idle") /\ UNCHANGED victim
  /\ UNCHANGED <<m, count, ops, missed>>

\* evictOne: LoadAndDelete of the key it met; Range ends either way.
Take(p) ==
  /\ pc[p] = "taking"
  /\ m' = m \ {victim[p]}
  /\ IF victim[p] \in m
     THEN Goto(p, "uncounting") /\ UNCHANGED missed
     ELSE Goto(p, "idle") /\ missed' = missed + 1
  /\ victim' = [victim EXCEPT ![p] = Nil]
  /\ UNCHANGED <<count, ops>>

LoadAndDelete(p, k) ==
  /\ Begin(p)
  /\ m' = m \ {k}
  /\ Goto(p, IF k \in m THEN "uncounting" ELSE "idle")
  /\ UNCHANGED <<count, victim, missed>>

Uncount(p) ==
  /\ pc[p] = "uncounting"
  /\ count' = count - 1
  /\ Goto(p, "idle")
  /\ UNCHANGED <<m, victim, ops, missed>>

Init ==
  /\ m = {}
  /\ count = 0
  /\ pc = [p \in Proc |-> "idle"]
  /\ victim = [p \in Proc |-> Nil]
  /\ ops = [p \in Proc |-> 0]
  /\ missed = 0

Next == \E p \in Proc :
  \/ \E k \in Key : LoadOrStore(p, k) \/ LoadAndDelete(p, k)
  \/ Count(p) \/ Meet(p) \/ Take(p) \/ Uncount(p)

Spec == Init /\ [][Next]_vars

-----------------------------------------------------------------------------
(* Properties *)

TypeOK ==
  /\ m \subseteq Key
  /\ count \in Int
  /\ pc \in [Proc -> {"idle", "counting", "evicting", "taking",
                      "uncounting"}]
  /\ victim \in [Proc -> Key \cup {Nil}]
  /\ \A p \in Proc : pc[p] = "taking" => victim[p] # Nil
  /\ ops \in [Proc -> 0 .. MaxOps]
  /\ missed \in Nat

\* The counter lags behind the map by exactly the steps that are under way:
\* it is exact whenever no operation runs.
CountIsAccounted ==
  count + Cardinality(At("counting"))
    = Cardinality(m) + Cardinality(At("uncounting"))

\* The map outgrows its capacity only by entries that are being inserted, and
\* by evictions that met a key another goroutine took first.
ExcessIsAccounted ==
  Cardinality(m) <= Cap + missed
                      + Cardinality(At("counting") \cup At("evicting")
                                      \cup At("taking"))
=============================================================================
