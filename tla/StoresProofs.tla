----------------------------- MODULE StoresProofs -----------------------------
(***************************************************************************)
(* Proofs about the bounded stores, for any keys, callers, capacities and  *)
(* clocks.  Each is proved of the store's own specification, which         *)
(* StoresSpec implements.                                                  *)
(***************************************************************************)
EXTENDS Stores, SequenceLemmas, FiniteSetTheorems

(***************************************************************************)
(* The bounded map.                                                        *)
(***************************************************************************)
\* The goroutines that may have added an entry above the capacity.
Inserting == At("counting") \cup At("evicting") \cup At("taking")

\* Adding an element to a finite set, and removing one.
LEMMA Grows ==
  ASSUME NEW S, IsFiniteSet(S), NEW x, x \notin S
  PROVE  /\ IsFiniteSet(S \cup {x})
         /\ Cardinality(S) \in Nat
         /\ Cardinality(S \cup {x}) = Cardinality(S) + 1
BY FS_AddElement, FS_CardinalityType

LEMMA Shrinks ==
  ASSUME NEW S, IsFiniteSet(S), NEW x \in S
  PROVE  /\ IsFiniteSet(S \ {x})
         /\ Cardinality(S) \in Nat
         /\ Cardinality(S \ {x}) \in Nat
         /\ Cardinality(S \ {x}) = Cardinality(S) - 1
BY FS_RemoveElement, FS_CardinalityType

\* When one goroutine goes from one place to another, it is the only one
\* that leaves or joins those who are at a place.
LEMMA Moves ==
  ASSUME TypeOK, NEW p \in Proc, NEW l, Goto(p, l)
  PROVE  \A a : At(a)' = IF a = l THEN At(a) \cup {p}
                         ELSE IF a = pc[p] THEN At(a) \ {p} ELSE At(a)
BY DEF TypeOK, Goto, At

\* The places are finite sets, and a goroutine is at one of them.
LEMMA Places ==
  ASSUME TypeOK
  PROVE  /\ IsFiniteSet(m) /\ Cardinality(m) \in Nat
         /\ \A a : IsFiniteSet(At(a)) /\ Cardinality(At(a)) \in Nat
         /\ IsFiniteSet(Inserting) /\ Cardinality(Inserting) \in Nat
         /\ \A a : \A p \in Proc : p \in At(a) <=> pc[p] = a
         /\ \A p \in Proc : p \in Inserting
                              <=> pc[p] \in {"counting", "evicting", "taking"}
<1>1. /\ m \subseteq Key
      /\ \A a : At(a) \subseteq Proc
      /\ Inserting \subseteq Proc
  BY DEF TypeOK, At, Inserting
<1>2. /\ IsFiniteSet(m)
      /\ \A a : IsFiniteSet(At(a))
      /\ IsFiniteSet(Inserting)
  BY <1>1, FS_Subset, MapAssumption
<1> QED
  BY <1>2, FS_CardinalityType DEF At, Inserting

\* The type invariant.
LEMMA TypeInvariant == Spec => []TypeOK
<1>1. Init => TypeOK
  BY MapAssumption DEF Init, TypeOK
<1>2. TypeOK /\ [Next]_vars => TypeOK'
  <2> SUFFICES ASSUME TypeOK, [Next]_vars
               PROVE  TypeOK'
    OBVIOUS
  <2> USE MapAssumption DEF TypeOK, Goto, Begin
  <2>1. ASSUME NEW p \in Proc, NEW k \in Key, LoadOrStore(p, k)
        PROVE  TypeOK'
    BY <2>1 DEF LoadOrStore
  <2>2. ASSUME NEW p \in Proc, NEW k \in Key, LoadAndDelete(p, k)
        PROVE  TypeOK'
    BY <2>2 DEF LoadAndDelete
  <2>3. ASSUME NEW p \in Proc, Count(p)
        PROVE  TypeOK'
    BY <2>3 DEF Count
  <2>4. ASSUME NEW p \in Proc, Meet(p)
        PROVE  TypeOK'
    BY <2>4 DEF Meet
  <2>5. ASSUME NEW p \in Proc, Take(p)
        PROVE  TypeOK'
    BY <2>5 DEF Take
  <2>6. ASSUME NEW p \in Proc, Uncount(p)
        PROVE  TypeOK'
    BY <2>6 DEF Uncount
  <2>7. CASE UNCHANGED vars
    BY <2>7 DEF vars
  <2> QED
    BY <2>1, <2>2, <2>3, <2>4, <2>5, <2>6, <2>7 DEF Next
<1> QED
  BY <1>1, <1>2, PTL DEF Spec

Accounted == CountIsAccounted /\ ExcessIsAccounted

\* Accounted, with the goroutines that may add to the map named.
LEMMA AccountedIs ==
  Accounted <=>
    /\ count + Cardinality(At("counting"))
         = Cardinality(m) + Cardinality(At("uncounting"))
    /\ Cardinality(m) <= Cap + missed + Cardinality(Inserting)
BY DEF Accounted, CountIsAccounted, ExcessIsAccounted, Inserting

\* Every step keeps the accounts.  A new entry is counted by the goroutine
\* that inserts it; that goroutine stays among those inserting until it has
\* seen the counter within the capacity, removed an entry, or missed one.
LEMMA StepKeepsAccounts ==
  ASSUME TypeOK, TypeOK', Accounted, [Next]_vars
  PROVE  Accounted'
<1> DEFINE Acc == /\ count + Cardinality(At("counting"))
                       = Cardinality(m) + Cardinality(At("uncounting"))
                  /\ Cardinality(m) <= Cap + missed + Cardinality(Inserting)
<1>0. Acc /\ (Acc' => Accounted')
  BY AccountedIs DEF Accounted, CountIsAccounted, ExcessIsAccounted, Inserting
<1> SUFFICES Acc'
  BY <1>0
<1> HIDE DEF Acc
<1>1. /\ Cap \in Nat /\ count \in Int /\ missed \in Nat
      /\ count' \in Int /\ missed' \in Nat
  BY MapAssumption DEF TypeOK
<1>2. /\ Cardinality(m) \in Nat /\ Cardinality(Inserting) \in Nat
      /\ Cardinality(At("counting")) \in Nat
      /\ Cardinality(At("uncounting")) \in Nat
  BY Places
<1>3. ASSUME NEW p \in Proc, NEW k \in Key, LoadOrStore(p, k)
      PROVE  Acc'
  <2>1. CASE k \in m
    <3>1. m' = m /\ count' = count /\ missed' = missed /\ Goto(p, "idle")
      BY <1>3, <2>1 DEF LoadOrStore
    <3>2. pc[p] = "idle"
      BY <1>3 DEF LoadOrStore, Begin
    <3>3. \A a : At(a)' = At(a)
      BY <3>1, <3>2, Moves, Places
    <3> QED
      BY <1>0, <3>1, <3>3 DEF Acc, Inserting
  <2>2. CASE k \notin m
    <3>1. /\ m' = m \cup {k} /\ count' = count /\ missed' = missed
          /\ pc[p] = "idle" /\ Goto(p, "counting")
      BY <1>3, <2>2 DEF LoadOrStore, Begin
    <3>2. /\ At("counting")' = At("counting") \cup {p}
          /\ p \notin At("counting")
          /\ At("uncounting")' = At("uncounting")
          /\ Inserting' = Inserting \cup {p}
          /\ p \notin Inserting
      BY <3>1, Moves, Places DEF Inserting
    <3>3. /\ Cardinality(m') = Cardinality(m) + 1
          /\ Cardinality(At("counting")') = Cardinality(At("counting")) + 1
          /\ Cardinality(Inserting') = Cardinality(Inserting) + 1
      BY <2>2, <3>1, <3>2, Places, Grows
    <3> QED
      BY <1>0, <1>1, <1>2, <3>1, <3>2, <3>3 DEF Acc
  <2> QED
    BY <2>1, <2>2
<1>4. ASSUME NEW p \in Proc, NEW k \in Key, LoadAndDelete(p, k)
      PROVE  Acc'
  <2>1. CASE k \notin m
    <3>1. /\ m' = m /\ count' = count /\ missed' = missed
          /\ pc[p] = "idle" /\ Goto(p, "idle")
      BY <1>4, <2>1 DEF LoadAndDelete, Begin
    <3>2. \A a : At(a)' = At(a)
      BY <3>1, Moves, Places
    <3> QED
      BY <1>0, <3>1, <3>2 DEF Acc, Inserting
  <2>2. CASE k \in m
    <3>1. /\ m' = m \ {k} /\ count' = count /\ missed' = missed
          /\ pc[p] = "idle" /\ Goto(p, "uncounting")
      BY <1>4, <2>2 DEF LoadAndDelete, Begin
    <3>2. /\ At("uncounting")' = At("uncounting") \cup {p}
          /\ p \notin At("uncounting")
          /\ At("counting")' = At("counting")
          /\ Inserting' = Inserting
      BY <3>1, Moves, Places DEF Inserting
    <3>3. /\ Cardinality(m') = Cardinality(m) - 1
          /\ Cardinality(At("uncounting")') = Cardinality(At("uncounting")) + 1
      BY <2>2, <3>1, <3>2, Places, Grows, Shrinks
    <3> QED
      BY <1>0, <1>1, <1>2, <3>1, <3>2, <3>3 DEF Acc
  <2> QED
    BY <2>1, <2>2
<1>5. ASSUME NEW p \in Proc, Count(p)
      PROVE  Acc'
  <2>1. /\ m' = m /\ count' = count + 1 /\ missed' = missed
        /\ pc[p] = "counting"
        /\ Goto(p, IF count + 1 > Cap THEN "evicting" ELSE "idle")
    BY <1>5 DEF Count
  <2>2. /\ At("counting")' = At("counting") \ {p}
        /\ p \in At("counting")
        /\ At("uncounting")' = At("uncounting")
    BY <2>1, Moves, Places
  <2>3. Cardinality(At("counting")') = Cardinality(At("counting")) - 1
    BY <2>2, Places, Shrinks
  <2>4. CASE count + 1 > Cap
    <3>1. Inserting' = Inserting
      BY <2>1, <2>4, Moves, Places DEF Inserting
    <3> QED
      BY <1>0, <1>1, <1>2, <2>1, <2>2, <2>3, <3>1 DEF Acc
  <2>5. CASE ~ (count + 1 > Cap)
    <3>1. Inserting' = Inserting \ {p} /\ p \in Inserting
      BY <2>1, <2>5, Moves, Places DEF Inserting
    <3>2. At("counting")' \subseteq Inserting'
      BY DEF Inserting
    <3>3. IsFiniteSet(Inserting) /\ p \in Inserting
      BY <3>1, Places
    <3>4. IsFiniteSet(Inserting \ {p}) /\ Cardinality(Inserting \ {p}) \in Nat
      BY <3>3, Shrinks
    <3>5. IsFiniteSet(Inserting') /\ Cardinality(Inserting') \in Nat
      BY <3>1, <3>4
    <3>6. Cardinality(At("counting")') <= Cardinality(Inserting')
      BY <3>2, <3>5, FS_Subset
    <3> QED
      BY <1>0, <1>1, <1>2, <2>1, <2>2, <2>3, <2>5, <3>5, <3>6 DEF Acc
  <2> QED
    BY <2>4, <2>5
<1>6. ASSUME NEW p \in Proc, Meet(p)
      PROVE  Acc'
  <2>1. /\ m' = m /\ count' = count /\ missed' = missed
        /\ pc[p] = "evicting"
        /\ Goto(p, "taking") \/ (m = {} /\ Goto(p, "idle"))
    BY <1>6 DEF Meet
  <2>2. /\ At("counting")' = At("counting")
        /\ At("uncounting")' = At("uncounting")
    BY <2>1, Moves, Places
  <2>3. CASE Goto(p, "taking")
    <3>1. Inserting' = Inserting
      BY <2>1, <2>3, Moves, Places DEF Inserting
    <3> QED
      BY <1>0, <2>1, <2>2, <3>1 DEF Acc
  <2>4. CASE m = {} /\ Goto(p, "idle")
    <3>1. Inserting' = Inserting \ {p} /\ p \in Inserting
      BY <2>1, <2>4, Moves, Places DEF Inserting
    <3>2. Cardinality(Inserting') \in Nat /\ Cardinality(m) = 0
      BY <2>4, <3>1, Places, Shrinks, FS_EmptySet
    <3> QED
      BY <1>0, <1>1, <1>2, <2>1, <2>2, <3>2 DEF Acc
  <2> QED
    BY <2>1, <2>3, <2>4
<1>7. ASSUME NEW p \in Proc, Take(p)
      PROVE  Acc'
  <2>1. /\ count' = count /\ pc[p] = "taking"
        /\ m' = m \ {victim[p]}
    BY <1>7 DEF Take
  <2>2. CASE victim[p] \in m
    <3>1. Goto(p, "uncounting") /\ missed' = missed
      BY <1>7, <2>2 DEF Take
    <3>2. /\ At("uncounting")' = At("uncounting") \cup {p}
          /\ p \notin At("uncounting")
          /\ At("counting")' = At("counting")
          /\ Inserting' = Inserting \ {p} /\ p \in Inserting
      BY <2>1, <3>1, Moves, Places DEF Inserting
    <3>3. /\ Cardinality(m') = Cardinality(m) - 1
          /\ Cardinality(At("uncounting")') = Cardinality(At("uncounting")) + 1
          /\ Cardinality(Inserting') = Cardinality(Inserting) - 1
      BY <2>1, <2>2, <3>2, Places, Grows, Shrinks
    <3> QED
      BY <1>0, <1>1, <1>2, <2>1, <3>1, <3>2, <3>3 DEF Acc
  <2>3. CASE victim[p] \notin m
    <3>1. /\ m' = m /\ count' = count /\ missed' = missed + 1
          /\ Goto(p, "idle")
      BY <1>7, <2>1, <2>3 DEF Take
    <3>2. /\ At("counting")' = At("counting")
          /\ At("uncounting")' = At("uncounting")
          /\ Inserting' = Inserting \ {p} /\ p \in Inserting
      BY <2>1, <3>1, Moves, Places DEF Inserting
    <3>3. Cardinality(Inserting') = Cardinality(Inserting) - 1
      BY <3>2, Places, Shrinks
    <3> QED
      BY <1>0, <1>1, <1>2, <3>1, <3>2, <3>3 DEF Acc
  <2> QED
    BY <2>2, <2>3
<1>8. ASSUME NEW p \in Proc, Uncount(p)
      PROVE  Acc'
  <2>1. /\ m' = m /\ count' = count - 1 /\ missed' = missed
        /\ pc[p] = "uncounting" /\ Goto(p, "idle")
    BY <1>8 DEF Uncount
  <2>2. /\ At("uncounting")' = At("uncounting") \ {p}
        /\ p \in At("uncounting")
        /\ At("counting")' = At("counting")
        /\ Inserting' = Inserting
    BY <2>1, Moves, Places DEF Inserting
  <2>3. Cardinality(At("uncounting")') = Cardinality(At("uncounting")) - 1
    BY <2>2, Places, Shrinks
  <2> QED
    BY <1>0, <1>1, <1>2, <2>1, <2>2, <2>3 DEF Acc
<1>9. CASE UNCHANGED vars
  <2>1. m' = m /\ count' = count /\ missed' = missed /\ pc' = pc
    BY <1>9 DEF vars
  <2> QED
    BY <1>0, <2>1 DEF Acc, At, Inserting
<1> QED
  BY <1>3, <1>4, <1>5, <1>6, <1>7, <1>8, <1>9 DEF Next

\* The counter and the excess of boundedSyncMap are accounted for.
THEOREM MapAccounts == Spec => [](CountIsAccounted /\ ExcessIsAccounted)
<1>1. Init => Accounted
  <2> SUFFICES ASSUME Init
               PROVE  Accounted
    OBVIOUS
  <2>1. /\ m = {} /\ count = 0 /\ missed = 0
        /\ At("counting") = {} /\ At("uncounting") = {}
        /\ Inserting = {}
    BY DEF Init, At, Inserting
  <2> QED
    BY <2>1, FS_EmptySet, AccountedIs, MapAssumption
<1>2. TypeOK /\ TypeOK' /\ Accounted /\ [Next]_vars => Accounted'
  BY StepKeepsAccounts
<1>3. Accounted => CountIsAccounted /\ ExcessIsAccounted
  BY DEF Accounted
<1> QED
  BY <1>1, <1>2, <1>3, TypeInvariant, PTL DEF Spec

(***************************************************************************)
(* The LRU cache.                                                          *)
(***************************************************************************)
\* The entries in the order of their last use, by the history u.
LaterUse(u) == {r \in LRU!Entries \X LRU!Entries : u[r[1].key] > u[r[2].key]}

LRUInv ==
  /\ ll \in Seq(LRU!Entries) /\ Len(ll) <= LRUCap
  /\ items = KeysOf(ll)
  /\ now \in Nat /\ used \in [LRUKey -> Nat]
  /\ \A k \in LRUKey : used[k] <= now
  /\ Sorted(ll, LaterUse(used))

\* The element of a key is where its entry is.
LEMMA LRUPosition ==
  ASSUME LRUInv, NEW k \in items
  PROVE  LRU!Position(k) \in 1 .. Len(ll) /\ ll[LRU!Position(k)].key = k
<1>1. DOMAIN ll = 1 .. Len(ll)
  BY LenProperties DEF LRUInv
<1>2. PICK i \in DOMAIN ll : ll[i].key = k
  BY DEF LRUInv, KeysOf, Range
<1>3. QED
  BY <1>1, <1>2 DEF LRU!Position

\* A use makes its key the latest one, and leaves the order of the others.
LEMMA LRUOrder ==
  ASSUME LRUInv, NEW k \in LRUKey, LRU!Used(k)
  PROVE  /\ now' \in Nat /\ used' \in [LRUKey -> Nat]
         /\ \A l \in LRUKey : used'[l] <= now'
         /\ TellsApart(LaterUse(used), LRU!Entries)
         /\ Extends(LaterUse(used'), LaterUse(used), k, LRU!Entries)
         /\ \A e, x \in LRU!Entries : e.key = k /\ x.key # k => <<e, x>> \in LaterUse(used')
<1>1. /\ now' = now + 1 /\ now' \in Nat /\ now \in Nat /\ used'[k] = now + 1
      /\ used' \in [LRUKey -> Nat]
      /\ \A l \in LRUKey : l # k => used'[l] = used[l]
      /\ \A l \in LRUKey : used[l] \in Nat /\ used[l] <= now
  BY DEF LRU!Used, LRUInv
<1>2. \A e \in LRU!Entries : e.key \in LRUKey
  BY DEF LRU!Entries
<1>3. \A u : \A a, b \in LRU!Entries : <<a, b>> \in LaterUse(u) <=> u[a.key] > u[b.key]
  BY DEF LaterUse
<1>4. ASSUME NEW l \in LRUKey
      PROVE  used'[l] <= now'
  <2>1. used[l] \in Nat /\ used[l] <= now /\ now \in Nat
    BY <1>1 DEF LRUInv
  <2>2. used'[l] = IF l = k THEN now + 1 ELSE used[l]
    BY <1>1
  <2>3. QED
    BY <1>1, <2>1, <2>2
<1>5. TellsApart(LaterUse(used), LRU!Entries)
  <2>1. ASSUME NEW a \in LRU!Entries, NEW b \in LRU!Entries,
               <<a, b>> \in LaterUse(used)
        PROVE  a.key # b.key
    <3>1. used[a.key] > used[b.key]
      BY <1>3, <2>1
    <3>2. used[a.key] \in Nat
      BY <1>1, <1>2
    <3>3. QED
      BY <3>1, <3>2
  <2>2. QED
    BY <2>1 DEF TellsApart
<1>6. Extends(LaterUse(used'), LaterUse(used), k, LRU!Entries)
  BY <1>1, <1>2, <1>3 DEF Extends
<1>7. ASSUME NEW e \in LRU!Entries, NEW x \in LRU!Entries, e.key = k, x.key # k
      PROVE  <<e, x>> \in LaterUse(used')
  <2>1. PICK l \in LRUKey : l = x.key
    BY <1>2
  <2>2. used'[k] > used'[l]
    BY <1>1, <1>7, <2>1 DEF LRUInv
  <2>3. QED
    BY <1>3, <1>7, <2>1, <2>2
<1>8. QED
  BY <1>1, <1>4, <1>5, <1>6, <1>7

\* A hit brings the entry of its key, or the new one Store gives it, to the front.
LEMMA LRUHit ==
  ASSUME LRUInv, NEW k \in LRUKey, LRU!Used(k), k \in items,
         NEW e \in LRU!Entries, e.key = k, LRU!MoveToFront(e), items' = items
  PROVE  LRUInv'
<1>1. PICK p \in 1 .. Len(ll) : p = LRU!Position(k) /\ ll[p].key = k
  BY LRUPosition
<1>2. ll' = <<e>> \o Cut(ll, p)
  BY <1>1 DEF LRU!MoveToFront, LRU!Others, Cut
<1>3. /\ ll \in Seq(LRU!Entries) /\ Sorted(ll, LaterUse(used)) /\ Len(ll) <= LRUCap
      /\ \A x \in Range(ll) : x \in LRU!Entries
  BY ElementOfSeq, LenProperties DEF LRUInv, Range
<1>4. /\ ll' \in Seq(LRU!Entries) /\ Len(ll') = Len(ll)
      /\ Sorted(ll', LaterUse(used'))
      /\ \A x : x \in Range(ll') <=> x = e \/ (x \in Range(ll) /\ x.key # k)
  <2>1. PICK R, Q, S : /\ R = LaterUse(used) /\ Q = LaterUse(used')
                       /\ S = LRU!Entries
    OBVIOUS
  <2>2. PICK s \in Seq(S) : s = ll
    BY <1>3, <2>1
  <2>3. /\ p \in 1 .. Len(s) /\ e \in S /\ e.key = k /\ k = s[p].key
        /\ Sorted(s, R) /\ TellsApart(R, S) /\ Extends(Q, R, k, S)
        /\ \A y \in Range(s) : y.key # k => <<e, y>> \in Q
    BY <1>1, <1>3, <2>1, <2>2, LRUOrder
  <2>4. /\ <<e>> \o Cut(s, p) \in Seq(S) /\ Len(<<e>> \o Cut(s, p)) = Len(s)
        /\ Sorted(<<e>> \o Cut(s, p), Q)
        /\ \A x : x \in Range(<<e>> \o Cut(s, p)) <=> x = e \/ (x \in Range(s) /\ x.key # k)
    BY <2>3, ListUse
  <2>5. QED
    BY <1>2, <2>1, <2>2, <2>4
<1>5. KeysOf(ll') = KeysOf(ll)
  <2>1. ll[p] \in Range(ll) /\ ll[p].key = k
    BY <1>1, <1>3, LenProperties DEF Range
  <2>2. QED
    BY <1>4, <2>1 DEF KeysOf
<1>6. QED
  BY <1>3, <1>4, <1>5, LRUOrder DEF LRUInv

\* A miss of a key that is stored puts it in front, and drops the last entry
\* from the list and from the map when there is no room.
LEMMA LRUInsert ==
  ASSUME LRUInv, NEW k \in LRUKey, LRU!Used(k), k \notin items,
         NEW v \in LRUValue, LRU!PushFront(k, v)
  PROVE  LRUInv'
<1> DEFINE e == [key |-> k, value |-> v]
<1>1. e \in LRU!Entries /\ e.key = k
  BY DEF LRU!Entries
<1>2. ll' = Pushed(ll, e, LRUCap)
  BY DEF LRU!PushFront, Pushed
<1>3. items' = (IF Len(ll) >= LRUCap THEN items \ {ll[Len(ll)].key} ELSE items) \cup {k}
  BY DEF LRU!PushFront
<1> HIDE DEF e
<1>4. /\ ll \in Seq(LRU!Entries) /\ Sorted(ll, LaterUse(used)) /\ Len(ll) <= LRUCap
      /\ \A x \in Range(ll) : x \in LRU!Entries
      /\ LRUCap \in Nat \ {0} /\ k \notin KeysOf(ll)
  BY ElementOfSeq, LenProperties, StoresAssumption DEF LRUInv, Range
<1>5. \A y \in Range(ll) : <<e, y>> \in LaterUse(used')
  BY <1>1, <1>4, LRUOrder DEF KeysOf
<1>6. /\ ll' \in Seq(LRU!Entries) /\ Len(ll') <= LRUCap /\ Sorted(ll', LaterUse(used'))
      /\ \A x : x \in Range(ll')
                  <=> \/ x = e
                      \/ /\ x \in Range(ll)
                         /\ Len(ll) >= LRUCap => x.key # ll[Len(ll)].key
  <2>1. PICK R, Q, S : /\ R = LaterUse(used) /\ Q = LaterUse(used')
                       /\ S = LRU!Entries
    OBVIOUS
  <2>2. PICK s \in Seq(S) : s = ll
    BY <1>4, <2>1
  <2>3. PICK d \in S : d = e
    BY <1>1, <2>1
  <2>4. PICK t : t = ll'
    OBVIOUS
  <2>5. /\ d.key = k /\ LRUCap \in Nat \ {0} /\ Len(s) <= LRUCap /\ k \notin KeysOf(s)
        /\ Sorted(s, R) /\ TellsApart(R, S) /\ Extends(Q, R, k, S)
        /\ \A y \in Range(s) : <<d, y>> \in Q
        /\ t = Pushed(s, d, LRUCap)
    BY <1>1, <1>2, <1>4, <1>5, <2>1, <2>2, <2>3, <2>4, LRUOrder
  <2>6. /\ t \in Seq(S) /\ Len(t) <= LRUCap /\ Sorted(t, Q)
        /\ \A x : x \in Range(t) <=> \/ x = d
                                     \/ /\ x \in Range(s)
                                        /\ Len(s) >= LRUCap => x.key # s[Len(s)].key
    BY <2>5, ListInsert
  <2>7. QED
    BY <2>1, <2>2, <2>3, <2>4, <2>6
<1>7. items' = KeysOf(ll')
  BY <1>1, <1>3, <1>6 DEF LRUInv, KeysOf
<1>8. QED
  BY <1>6, <1>7, LRUOrder DEF LRUInv

\* A key that is deleted leaves the list and the map.
LEMMA LRUDelete ==
  ASSUME LRUInv, NEW k \in LRUKey, LRU!Used(k), k \in items,
         ll' = LRU!Others(k), items' = items \ {k}
  PROVE  LRUInv'
<1>1. PICK p \in 1 .. Len(ll) : p = LRU!Position(k) /\ ll[p].key = k
  BY LRUPosition
<1>2. ll' = Cut(ll, p)
  BY <1>1 DEF LRU!Others, Cut
<1>3. /\ ll \in Seq(LRU!Entries) /\ Sorted(ll, LaterUse(used)) /\ Len(ll) <= LRUCap
      /\ Len(ll) \in Nat /\ LRUCap \in Nat
  BY LenProperties, StoresAssumption DEF LRUInv
<1>4. /\ ll' \in Seq(LRU!Entries) /\ Len(ll') = Len(ll) - 1
      /\ Sorted(ll', LaterUse(used'))
      /\ \A x : x \in Range(ll') <=> x \in Range(ll) /\ x.key # k
  <2>1. PICK R, Q, S : /\ R = LaterUse(used) /\ Q = LaterUse(used')
                       /\ S = LRU!Entries
    OBVIOUS
  <2>2. PICK s \in Seq(S) : s = ll
    BY <1>3, <2>1
  <2>3. /\ p \in 1 .. Len(s) /\ k = s[p].key
        /\ Sorted(s, R) /\ TellsApart(R, S) /\ Extends(Q, R, k, S)
    BY <1>1, <1>3, <2>1, <2>2, LRUOrder
  <2>4. /\ Cut(s, p) \in Seq(S) /\ Len(Cut(s, p)) = Len(s) - 1
        /\ Sorted(Cut(s, p), Q)
        /\ \A x : x \in Range(Cut(s, p)) <=> x \in Range(s) /\ x.key # k
    BY <2>3, ListDelete
  <2>5. QED
    BY <1>2, <2>1, <2>2, <2>4
<1>5. items' = KeysOf(ll')
  BY <1>4 DEF LRUInv, KeysOf
<1>6. QED
  BY <1>3, <1>4, <1>5, LRUOrder DEF LRUInv

\* A miss leaves the cache as it is.
LEMMA LRUMiss ==
  ASSUME LRUInv, NEW k \in LRUKey, LRU!Used(k), k \notin items, UNCHANGED <<ll, items>>
  PROVE  LRUInv'
<1>1. \A x \in Range(ll) : x \in LRU!Entries /\ x.key # k
  BY ElementOfSeq, LenProperties DEF LRUInv, Range, KeysOf
<1>2. \A i \in DOMAIN ll : ll[i] \in Range(ll)
  BY DEF Range
<1>3. Sorted(ll, LaterUse(used'))
  BY <1>1, <1>2, LRUOrder DEF LRUInv, Sorted, Extends
<1>4. QED
  BY <1>3, LRUOrder DEF LRUInv

\* The list and the map of an LRU cache agree and stay within the capacity, and
\* the entry an eviction takes is the least recently used one.
THEOREM EvictsInOrder == LRU!Spec => []EvictsLeastRecent
<1>1. LRU!Init => LRUInv
  BY StoresAssumption DEF LRU!Init, LRUInv, KeysOf, Range, Sorted
<1>2. LRUInv /\ [LRU!Next]_(LRU!vars) => LRUInv'
  <2> SUFFICES ASSUME LRUInv, [LRU!Next]_(LRU!vars)
               PROVE  LRUInv'
    OBVIOUS
  <2>1. ASSUME NEW k \in LRUKey, k \in items
        PROVE  LRU!Entry(k) \in LRU!Entries /\ LRU!Entry(k).key = k
    BY <2>1, LRUPosition, ElementOfSeq DEF LRU!Entry, LRUInv
  <2>2. ASSUME NEW k \in LRUKey, LRU!Load(k), LRU!Used(k)
        PROVE  LRUInv'
    BY <2>1, <2>2, LRUHit, LRUMiss DEF LRU!Load, LRU!cacheVars
  <2>3. ASSUME NEW k \in LRUKey, NEW v \in LRUValue, LRU!LoadOrStore(k, v), LRU!Used(k)
        PROVE  LRUInv'
    BY <2>1, <2>3, LRUHit, LRUInsert DEF LRU!LoadOrStore
  <2>4. ASSUME NEW k \in LRUKey, NEW v \in LRUValue, LRU!Store(k, v), LRU!Used(k)
        PROVE  LRUInv'
    <3>1. [key |-> k, value |-> v] \in LRU!Entries
      BY DEF LRU!Entries
    <3>2. QED
      BY <2>4, <3>1, LRUHit, LRUInsert DEF LRU!Store
  <2>5. ASSUME NEW k \in LRUKey, LRU!LoadAndDelete(k), LRU!Used(k)
        PROVE  LRUInv'
    BY <2>5, LRUDelete, LRUMiss DEF LRU!LoadAndDelete, LRU!cacheVars
  <2>6. CASE UNCHANGED LRU!vars
    BY <2>6 DEF LRU!vars, LRUInv
  <2>7. QED
    BY <2>2, <2>3, <2>4, <2>5, <2>6 DEF LRU!Next
<1>3. LRUInv => EvictsLeastRecent
  <2> SUFFICES ASSUME LRUInv
               PROVE  EvictsLeastRecent
    OBVIOUS
  <2>1. items = {ll[i].key : i \in DOMAIN ll}
    BY DEF LRUInv, KeysOf, Range
  <2>2. \A i, j \in DOMAIN ll : i < j => used[ll[i].key] > used[ll[j].key]
    BY DEF LRUInv, Sorted, LaterUse
  <2>3. QED
    BY <2>1, <2>2 DEF LRUInv, EvictsLeastRecent, LRU!EvictsLeastRecent
<1>4. QED
  BY <1>1, <1>2, <1>3, PTL DEF LRU!Spec

(***************************************************************************)
(* The prepared statements.                                                *)
(***************************************************************************)
CacheEntries == [key : Query, value : Stmt]
\* All entries have different keys.
DifferentKeys == {r \in CacheEntries \X CacheEntries : r[1].key # r[2].key}

\* The list and the map of the shared cache agree.
SharedInv ==
  /\ sharedLL \in Seq(CacheEntries) /\ Len(sharedLL) <= StmtCap
  /\ sharedItems = KeysOf(sharedLL)
  /\ Sorted(sharedLL, DifferentKeys)

\* What the lists of the cache are made of.
LEMMA SharedFacts ==
  ASSUME SharedInv
  PROVE  /\ DOMAIN sharedLL = 1 .. Len(sharedLL) /\ Len(sharedLL) \in Nat
         /\ \A i \in 1 .. Len(sharedLL) : sharedLL[i] \in Range(sharedLL)
         /\ \A x \in Range(sharedLL) : x.key \in Query /\ x.value \in Stmt
         /\ \A x, y \in Range(sharedLL) : x.key = y.key => x = y
         /\ TellsApart(DifferentKeys, CacheEntries)
         /\ \A k : Extends(DifferentKeys, DifferentKeys, k, CacheEntries)
<1>1. DOMAIN sharedLL = 1 .. Len(sharedLL) /\ Len(sharedLL) \in Nat
  BY LenProperties DEF SharedInv
<1>2. \A i \in 1 .. Len(sharedLL) : sharedLL[i] \in CacheEntries
  BY ElementOfSeq DEF SharedInv
<1>3. \A a, b : <<a, b>> \in DifferentKeys => a.key # b.key
  BY DEF DifferentKeys
<1>4. \A x \in Range(sharedLL) : x.key \in Query /\ x.value \in Stmt
  BY <1>1, <1>2 DEF Range, CacheEntries
<1>5. ASSUME NEW x \in Range(sharedLL), NEW y \in Range(sharedLL), x.key = y.key
      PROVE  x = y
  <2>1. PICK i \in 1 .. Len(sharedLL), j \in 1 .. Len(sharedLL) :
          sharedLL[i] = x /\ sharedLL[j] = y
    BY <1>1 DEF Range
  <2>2. ~ (i < j) /\ ~ (j < i)
    BY <1>1, <1>3, <1>5, <2>1 DEF SharedInv, Sorted
  <2>3. QED
    BY <2>1, <2>2
<1>6. TellsApart(DifferentKeys, CacheEntries)
  BY <1>3 DEF TellsApart
<1>7. \A k : Extends(DifferentKeys, DifferentKeys, k, CacheEntries)
  BY DEF Extends
<1>8. QED
  BY <1>1, <1>4, <1>5, <1>6, <1>7 DEF Range

\* The element of a key is where its entry is.
LEMMA SharedPosition ==
  ASSUME SharedInv, NEW k \in sharedItems
  PROVE  /\ Stmts!Cache!Position(k) \in 1 .. Len(sharedLL)
         /\ Stmts!Cache!Entry(k) \in Range(sharedLL)
         /\ Stmts!Cache!Entry(k).key = k
         /\ Stmts!Cache!Entry(k) = sharedLL[Stmts!Cache!Position(k)]
<1>1. PICK i \in DOMAIN sharedLL : sharedLL[i].key = k
  BY DEF SharedInv, KeysOf, Range
<1>2. /\ Stmts!Cache!Position(k) \in DOMAIN sharedLL
      /\ sharedLL[Stmts!Cache!Position(k)].key = k
  BY <1>1 DEF Stmts!Cache!Position
<1>3. QED
  BY <1>2, SharedFacts DEF Stmts!Cache!Entry

\* Finding a query changes the order of the entries only.
LEMMA SharedHit ==
  ASSUME SharedInv, NEW k \in sharedItems,
         Stmts!Cache!MoveToFront(Stmts!Cache!Entry(k)), sharedItems' = sharedItems
  PROVE  SharedInv' /\ Range(sharedLL') = Range(sharedLL)
<1>1. PICK p \in 1 .. Len(sharedLL) :
        /\ p = Stmts!Cache!Position(k) /\ Stmts!Cache!Entry(k) = sharedLL[p]
        /\ sharedLL[p].key = k /\ sharedLL[p] \in Range(sharedLL)
  BY SharedPosition
<1>2. PICK R, S : R = DifferentKeys /\ S = CacheEntries
  OBVIOUS
<1>3. PICK s \in Seq(S) : s = sharedLL
  BY <1>2 DEF SharedInv
<1>4. PICK e \in S : e = sharedLL[p]
  BY <1>3, ElementOfSeq
<1>5. sharedLL' = <<e>> \o Cut(s, p)
  BY <1>1, <1>3, <1>4 DEF Stmts!Cache!MoveToFront, Stmts!Cache!Others, Cut
<1>6. /\ p \in 1 .. Len(s) /\ e.key = k /\ k = s[p].key
      /\ Sorted(s, R) /\ TellsApart(R, S) /\ Extends(R, R, k, S)
  BY <1>1, <1>2, <1>3, <1>4, SharedFacts DEF SharedInv
<1>7. \A y \in Range(s) : y \in S /\ (y.key # k => <<e, y>> \in R)
  <2>1. \A y \in Range(s) : y \in S
    BY <1>3, ElementOfSeq, SharedFacts DEF Range
  <2>2. QED
    BY <1>2, <1>4, <1>6, <2>1 DEF DifferentKeys
<1>8. /\ <<e>> \o Cut(s, p) \in Seq(S) /\ Len(<<e>> \o Cut(s, p)) = Len(s)
      /\ Sorted(<<e>> \o Cut(s, p), R)
      /\ \A x : x \in Range(<<e>> \o Cut(s, p)) <=> x = e \/ (x \in Range(s) /\ x.key # k)
  BY <1>6, <1>7, ListUse
<1>9. Range(sharedLL') = Range(sharedLL)
  <2>1. \A x \in Range(s) : x.key = k => x = e
    BY <1>1, <1>3, <1>4, SharedFacts
  <2>2. e \in Range(s)
    BY <1>1, <1>3, <1>4
  <2>3. \A x : x \in Range(<<e>> \o Cut(s, p)) <=> x \in Range(s)
    BY <1>8, <2>1, <2>2
  <2>4. Range(<<e>> \o Cut(s, p)) = Range(s)
    BY <2>3
  <2>5. QED
    BY <1>3, <1>5, <2>4
<1>10. QED
  BY <1>2, <1>3, <1>5, <1>8, <1>9 DEF SharedInv, KeysOf

\* A query that is stored is a new entry; no other entry appears.
LEMMA SharedInsert ==
  ASSUME SharedInv, NEW k \in Query, k \notin sharedItems, NEW v \in Stmt,
         Stmts!Cache!PushFront(k, v)
  PROVE  /\ SharedInv'
         /\ [key |-> k, value |-> v] \in Range(sharedLL')
         /\ \A x \in Range(sharedLL') :
              x \in Range(sharedLL) \/ x = [key |-> k, value |-> v]
<1>1. PICK R, S : R = DifferentKeys /\ S = CacheEntries
  OBVIOUS
<1>2. PICK s \in Seq(S) : s = sharedLL
  BY <1>1 DEF SharedInv
<1>3. PICK e \in S : e = [key |-> k, value |-> v]
  BY <1>1 DEF CacheEntries
<1>4. e.key = k
  BY <1>3
<1>5. sharedLL' = Pushed(s, e, StmtCap)
  BY <1>2, <1>3 DEF Stmts!Cache!PushFront, Pushed
<1>6. sharedItems' = (IF Len(s) >= StmtCap THEN sharedItems \ {s[Len(s)].key}
                                           ELSE sharedItems) \cup {k}
  BY <1>2 DEF Stmts!Cache!PushFront
<1>7. /\ StmtCap \in Nat \ {0} /\ Len(s) <= StmtCap /\ k \notin KeysOf(s)
      /\ Sorted(s, R) /\ TellsApart(R, S) /\ Extends(R, R, k, S)
  BY <1>1, <1>2, StoresAssumption, SharedFacts DEF SharedInv
<1>8. \A y \in Range(s) : <<e, y>> \in R
  <2>1. \A y \in Range(s) : y \in S /\ y.key # k
    BY <1>2, <1>7, ElementOfSeq, LenProperties DEF Range, KeysOf
  <2>2. QED
    BY <1>1, <1>4, <2>1 DEF DifferentKeys
<1>9. /\ Pushed(s, e, StmtCap) \in Seq(S) /\ Len(Pushed(s, e, StmtCap)) <= StmtCap
      /\ Sorted(Pushed(s, e, StmtCap), R)
      /\ \A x : x \in Range(Pushed(s, e, StmtCap))
                  <=> \/ x = e
                      \/ /\ x \in Range(s)
                         /\ Len(s) >= StmtCap => x.key # s[Len(s)].key
  BY <1>4, <1>7, <1>8, ListInsert
<1>10. sharedItems' = KeysOf(sharedLL')
  BY <1>2, <1>4, <1>5, <1>6, <1>9 DEF SharedInv, KeysOf
<1>11. QED
  BY <1>1, <1>2, <1>3, <1>5, <1>9, <1>10 DEF SharedInv

\* A query that is removed takes its entry with it, and no other.
LEMMA SharedDelete ==
  ASSUME SharedInv, NEW k \in sharedItems,
         sharedLL' = Stmts!Cache!Others(k), sharedItems' = sharedItems \ {k}
  PROVE  /\ SharedInv'
         /\ \A x : x \in Range(sharedLL') <=> x \in Range(sharedLL) /\ x.key # k
<1>1. PICK p \in 1 .. Len(sharedLL) : p = Stmts!Cache!Position(k) /\ sharedLL[p].key = k
  BY SharedPosition
<1>2. PICK R, S : R = DifferentKeys /\ S = CacheEntries
  OBVIOUS
<1>3. PICK s \in Seq(S) : s = sharedLL
  BY <1>2 DEF SharedInv
<1>4. sharedLL' = Cut(s, p)
  BY <1>1, <1>3 DEF Stmts!Cache!Others, Cut
<1>5. /\ p \in 1 .. Len(s) /\ k = s[p].key
      /\ Sorted(s, R) /\ TellsApart(R, S) /\ Extends(R, R, k, S)
  BY <1>1, <1>2, <1>3, SharedFacts DEF SharedInv
<1>6. /\ Cut(s, p) \in Seq(S) /\ Len(Cut(s, p)) = Len(s) - 1 /\ Sorted(Cut(s, p), R)
      /\ \A x : x \in Range(Cut(s, p)) <=> x \in Range(s) /\ x.key # k
  BY <1>5, ListDelete
<1>7. Len(s) \in Nat /\ StmtCap \in Nat
  BY LenProperties, StoresAssumption
<1>8. QED
  BY <1>2, <1>3, <1>4, <1>6, <1>7 DEF SharedInv, KeysOf

Prepared == {s \in Stmt : prepared[s] # Nil}
\* The statements the cache holds.
Sharing == {x.value : x \in Range(sharedLL)}

StmtTypes ==
  /\ prepared \in [Stmt -> [query : Query, db : {"master", "follower"}] \cup {Nil}]
  /\ closed \subseteq Prepared
  /\ callAt \in [Caller -> {"idle", "preparing", "storing", "closing", "executing",
                            "evicting", "closingEvicted", "done"}]
  /\ stmt \in [Caller -> Stmt \cup {Nil}]
  /\ own \in [Caller -> Stmt \cup {Nil}]

\* An entry's statement is open, and for its key.
EntriesInv ==
  \A x \in Range(sharedLL) :
    x.value \in Prepared \ closed /\ prepared[x.value].query = x.key

\* A call has a statement to close exactly while it stores one it prepared, or
\* closes one; nobody else has it, it is open, for the call's query, and out of
\* the cache.
OwnInv ==
  /\ \A c \in Caller : own[c] # Nil <=> callAt[c] \in {"storing", "closing", "closingEvicted"}
  /\ \A c \in Caller : own[c] # Nil =>
       /\ own[c] \in Prepared \ closed /\ own[c] \notin Sharing
       /\ prepared[own[c]].query = QueryOf[c]
  /\ \A c, d \in Caller : c # d /\ own[c] # Nil => own[c] # own[d]
  /\ Prepared \ closed \subseteq Sharing \cup dropped \cup {own[c] : c \in Caller}

Uses(c) == callAt[c] \in {"executing", "closing"}

\* The statement a call uses is for its query, none that another call prepared
\* and has not stored, and open, unless an execution of its query failed; and
\* only after such a failure is a statement evicted.
UseInv ==
  /\ \A c \in Caller : Uses(c) =>
       /\ stmt[c] \in Prepared /\ prepared[stmt[c]].query = QueryOf[c]
       /\ stmt[c] \in closed => QueryOf[c] \in failed
       /\ \A d \in Caller : callAt[d] \in {"storing", "closing"} => stmt[c] # own[d]
  /\ \A c \in Caller : callAt[c] \in {"evicting", "closingEvicted"} => QueryOf[c] \in failed

StmtInv == SharedInv /\ StmtTypes /\ EntriesInv /\ OwnInv /\ UseInv

\* The values the cache holds, by entry and by position.
LEMMA SharingIsCached == Stmts!Cached = Sharing
BY DEF Stmts!Cached, Sharing, Range

\* What a call finds under its query is shared, open and for its query.
LEMMA HeldIsShared ==
  ASSUME StmtInv, NEW k \in sharedItems
  PROVE  /\ Stmts!Held(k) \in Sharing /\ Stmts!Held(k) \in Stmt
         /\ Stmts!Held(k) \in Prepared \ closed
         /\ prepared[Stmts!Held(k)].query = k
<1>1. /\ Stmts!Cache!Entry(k) \in Range(sharedLL) /\ Stmts!Cache!Entry(k).key = k
  BY SharedPosition DEF StmtInv
<1>2. QED
  BY <1>1 DEF Stmts!Held, Sharing, StmtInv, EntriesInv, Prepared

\* Looking a query up.
LEMMA LoadKeeps ==
  ASSUME StmtInv, NEW c \in Caller, Stmts!Load(c)
  PROVE  StmtInv'
<1>1. /\ callAt[c] = "idle"
      /\ UNCHANGED <<prepared, closed, own, dropped, failed>>
      /\ QueryOf[c] \in Query
  BY StoresAssumption DEF Stmts!Load
<1>2. SharedInv' /\ Range(sharedLL') = Range(sharedLL)
  <2>1. CASE QueryOf[c] \in sharedItems
    BY <2>1, SharedHit DEF Stmts!Load, Stmts!Cache!Load, StmtInv
  <2>2. CASE QueryOf[c] \notin sharedItems
    BY <2>2 DEF Stmts!Load, Stmts!Cache!Load, Stmts!Cache!cacheVars, StmtInv, SharedInv
  <2>3. QED
    BY <2>1, <2>2
<1>3. Sharing' = Sharing /\ Prepared' = Prepared
  BY <1>1, <1>2 DEF Sharing, Prepared
<1>4. EntriesInv'
  BY <1>1, <1>2, <1>3 DEF StmtInv, EntriesInv
<1>5. CASE /\ QueryOf[c] \in sharedItems
           /\ stmt' = [stmt EXCEPT ![c] = Stmts!Held(QueryOf[c])]
           /\ callAt' = [callAt EXCEPT ![c] = "executing"]
  <2>1. PICK s \in Stmt : /\ s = Stmts!Held(QueryOf[c]) /\ s \in Sharing
                          /\ s \in Prepared \ closed /\ prepared[s].query = QueryOf[c]
    BY <1>5, HeldIsShared
  <2>2. StmtTypes'
    BY <1>1, <1>3, <1>5, <2>1 DEF StmtInv, StmtTypes
  <2>3. OwnInv'
    BY <1>1, <1>3, <1>5 DEF StmtInv, OwnInv, StmtTypes
  <2>4. UseInv'
    <3>1. \A d \in Caller : own[d] # s \/ own[d] = Nil
      BY <2>1 DEF StmtInv, OwnInv
    <3>2. QED
      BY <1>1, <1>3, <1>5, <2>1, <3>1, StoresAssumption
         DEF StmtInv, UseInv, OwnInv, Uses, StmtTypes
  <2>5. QED
    BY <1>2, <1>4, <2>2, <2>3, <2>4 DEF StmtInv
<1>6. CASE UNCHANGED stmt /\ callAt' = [callAt EXCEPT ![c] = "preparing"]
  <2>1. StmtTypes'
    BY <1>1, <1>3, <1>6 DEF StmtInv, StmtTypes
  <2>2. OwnInv'
    BY <1>1, <1>3, <1>6 DEF StmtInv, OwnInv, StmtTypes
  <2>3. UseInv'
    BY <1>1, <1>3, <1>6 DEF StmtInv, UseInv, Uses, StmtTypes
  <2>4. QED
    BY <1>2, <1>4, <2>1, <2>2, <2>3 DEF StmtInv
<1>7. QED
  BY <1>5, <1>6 DEF Stmts!Load, Stmts!Goto

\* Preparing a statement, which nobody has yet, or failing to.
LEMMA PrepareKeeps ==
  ASSUME StmtInv, NEW c \in Caller, Stmts!Prepare(c)
  PROVE  StmtInv'
<1>1. /\ callAt[c] = "preparing" /\ QueryOf[c] \in Query
      /\ UNCHANGED <<sharedLL, sharedItems, closed, stmt, dropped, failed>>
  BY StoresAssumption DEF Stmts!Prepare
<1>2. SharedInv' /\ Sharing' = Sharing
  BY <1>1 DEF StmtInv, SharedInv, Sharing
<1>3. ASSUME NEW s \in Stmt, prepared[s] = Nil,
             prepared' = [prepared EXCEPT ![s] = [query |-> QueryOf[c],
                                                  db |-> Stmts!Database(c)]],
             own' = [own EXCEPT ![c] = s], callAt' = [callAt EXCEPT ![c] = "storing"]
      PROVE  StmtInv'
  <2>1. PICK r \in [query : Query, db : {"master", "follower"}] :
          /\ r = [query |-> QueryOf[c], db |-> Stmts!Database(c)]
          /\ r.query = QueryOf[c] /\ r # Nil
    <3>1. Stmts!Database(c) \in {"master", "follower"}
      BY DEF Stmts!Database
    <3>2. PICK q \in Query, b \in {"master", "follower"} :
            q = QueryOf[c] /\ b = Stmts!Database(c)
      BY <1>1, <3>1
    <3>3. [query |-> q, db |-> b] \in [query : Query, db : {"master", "follower"}]
      OBVIOUS
    <3>4. Nil \notin [query : Query, db : {"master", "follower"}]
      BY StoresAssumption
    <3>5. QED
      BY <3>2, <3>3, <3>4
  <2>2. /\ s \notin Prepared /\ Prepared' = Prepared \cup {s}
        /\ prepared'[s] = r /\ \A x \in Prepared : prepared'[x] = prepared[x]
    BY <1>3, <2>1 DEF StmtInv, StmtTypes, Prepared
  <2>3. own[c] = Nil /\ s \notin closed /\ s \notin Sharing
    BY <1>1, <2>2 DEF StmtInv, StmtTypes, OwnInv, EntriesInv, Sharing
  <2>4. StmtTypes'
    BY <1>1, <1>3, <2>1, <2>2 DEF StmtInv, StmtTypes
  <2>5. EntriesInv'
    BY <1>1, <2>2 DEF StmtInv, EntriesInv
  <2>6. /\ own'[c] = s /\ callAt'[c] = "storing" /\ s # Nil
        /\ \A d \in Caller : d # c => own'[d] = own[d] /\ callAt'[d] = callAt[d]
        /\ \A d \in Caller : own[d] # s
    BY <1>3, <2>2, StoresAssumption DEF StmtInv, StmtTypes, OwnInv
  <2>7. OwnInv'
    <3>1. \A d \in Caller : own'[d] # Nil
            <=> callAt'[d] \in {"storing", "closing", "closingEvicted"}
      BY <2>6 DEF StmtInv, OwnInv
    <3>2. \A d \in Caller : own'[d] # Nil =>
            /\ own'[d] \in Prepared' \ closed' /\ own'[d] \notin Sharing'
            /\ prepared'[own'[d]].query = QueryOf[d]
      BY <1>1, <1>2, <2>1, <2>2, <2>3, <2>6 DEF StmtInv, OwnInv
    <3>3. \A d, e \in Caller : d # e /\ own'[d] # Nil => own'[d] # own'[e]
      BY <2>6 DEF StmtInv, OwnInv
    <3>4. Prepared' \ closed' \subseteq Sharing' \cup dropped' \cup {own'[d] : d \in Caller}
      BY <1>1, <1>2, <2>2, <2>3, <2>6, StoresAssumption DEF StmtInv, OwnInv, Prepared
    <3>5. QED
      BY <3>1, <3>2, <3>3, <3>4 DEF OwnInv
  <2>8. UseInv'
    <3>1. \A d \in Caller : Uses(d)' => Uses(d) /\ d # c
      BY <2>6 DEF Uses
    <3>2. \A d \in Caller : Uses(d) => stmt[d] # s
      BY <2>2 DEF StmtInv, UseInv
    <3>3. QED
      BY <1>1, <2>2, <2>6, <3>1, <3>2 DEF StmtInv, UseInv
  <2>9. QED
    BY <1>2, <2>4, <2>5, <2>7, <2>8 DEF StmtInv
<1>4. CASE callAt' = [callAt EXCEPT ![c] = "done"] /\ UNCHANGED <<prepared, own>>
  <2>1. Prepared' = Prepared
    BY <1>4 DEF Prepared
  <2>2. StmtTypes' /\ EntriesInv'
    BY <1>1, <1>4, <2>1 DEF StmtInv, StmtTypes, EntriesInv
  <2>3. OwnInv'
    BY <1>1, <1>2, <1>4, <2>1 DEF StmtInv, StmtTypes, OwnInv
  <2>4. UseInv'
    BY <1>1, <1>4, <2>1 DEF StmtInv, StmtTypes, UseInv, Uses
  <2>5. QED
    BY <1>2, <2>2, <2>3, <2>4 DEF StmtInv
<1>5. QED
  BY <1>3, <1>4 DEF Stmts!Prepare, Stmts!Goto
\* Storing a statement, or finding that another call stored one first.
LEMMA LoadOrStoreKeeps ==
  ASSUME StmtInv, NEW c \in Caller, Stmts!LoadOrStore(c)
  PROVE  StmtInv'
<1>1. /\ callAt[c] = "storing" /\ QueryOf[c] \in Query /\ Nil \notin Stmt
      /\ UNCHANGED <<prepared, closed, failed>>
  BY StoresAssumption DEF Stmts!LoadOrStore
<1>2. PICK s \in Stmt : /\ s = own[c] /\ s \in Prepared \ closed /\ s \notin Sharing
                        /\ prepared[s].query = QueryOf[c]
  BY <1>1 DEF StmtInv, OwnInv, Prepared
<1>3. Prepared' = Prepared
  BY <1>1 DEF Prepared
<1>4. dropped' = dropped \cup (Sharing \ Sharing')
  BY SharingIsCached DEF Stmts!LoadOrStore, Sharing, Range
<1>5. CASE QueryOf[c] \in sharedItems
  <2>1. PICK h \in Stmt : /\ h = Stmts!Held(QueryOf[c]) /\ h \in Sharing
                          /\ h \in Prepared \ closed /\ prepared[h].query = QueryOf[c]
    BY <1>5, HeldIsShared
  <2>2. /\ stmt' = [stmt EXCEPT ![c] = h] /\ own' = own
        /\ callAt' = [callAt EXCEPT ![c] = "closing"]
    BY <1>5, <2>1 DEF Stmts!LoadOrStore, Stmts!Goto
  <2>3. SharedInv' /\ Range(sharedLL') = Range(sharedLL)
    BY <1>5, SharedHit DEF Stmts!LoadOrStore, Stmts!Cache!LoadOrStore, StmtInv
  <2>4. Sharing' = Sharing /\ dropped' = dropped
    BY <1>4, <2>3 DEF Sharing
  <2>5. EntriesInv'
    BY <1>1, <1>3, <2>3 DEF StmtInv, EntriesInv
  <2>6. StmtTypes'
    BY <1>1, <1>3, <2>1, <2>2 DEF StmtInv, StmtTypes
  <2>7. OwnInv'
    BY <1>1, <1>3, <2>2, <2>4 DEF StmtInv, OwnInv, StmtTypes
  <2>8. UseInv'
    <3>1. /\ stmt'[c] = h /\ callAt'[c] = "closing"
          /\ \A d \in Caller : d # c => stmt'[d] = stmt[d] /\ callAt'[d] = callAt[d]
      BY <2>2 DEF StmtInv, StmtTypes
    <3>2. \A d \in Caller : own[d] # h
      BY <1>1, <2>1 DEF StmtInv, OwnInv
    <3>3. \A d \in Caller : callAt'[d] \in {"storing", "closing"}
                              => callAt[d] \in {"storing", "closing"}
      BY <1>1, <3>1
    <3>4. \A d \in Caller : Uses(d)' => d = c \/ Uses(d)
      BY <3>1 DEF Uses
    <3>5. ASSUME NEW d \in Caller, Uses(d)'
          PROVE  /\ stmt'[d] \in Prepared' /\ prepared'[stmt'[d]].query = QueryOf[d]
                 /\ stmt'[d] \in closed' => QueryOf[d] \in failed'
                 /\ \A e \in Caller : callAt'[e] \in {"storing", "closing"}
                                        => stmt'[d] # own'[e]
      BY <1>1, <1>3, <2>1, <2>2, <3>1, <3>2, <3>3, <3>4, <3>5 DEF StmtInv, UseInv
    <3>6. \A d \in Caller : callAt'[d] \in {"evicting", "closingEvicted"}
                              => QueryOf[d] \in failed'
      BY <1>1, <3>1 DEF StmtInv, UseInv
    <3>7. QED
      BY <3>5, <3>6 DEF UseInv, Uses
  <2>9. QED
    BY <2>3, <2>5, <2>6, <2>7, <2>8 DEF StmtInv
<1>6. CASE QueryOf[c] \notin sharedItems
  <2>1. /\ stmt' = [stmt EXCEPT ![c] = s] /\ own' = [own EXCEPT ![c] = Nil]
        /\ callAt' = [callAt EXCEPT ![c] = "executing"]
        /\ Stmts!Cache!PushFront(QueryOf[c], s)
    BY <1>2, <1>6 DEF Stmts!LoadOrStore, Stmts!Goto, Stmts!Cache!LoadOrStore
  <2>2. PICK e \in CacheEntries : /\ e = [key |-> QueryOf[c], value |-> s]
                                  /\ e.key = QueryOf[c] /\ e.value = s
    <3>1. PICK q \in Query : q = QueryOf[c]
      BY <1>1
    <3>2. [key |-> q, value |-> s] \in CacheEntries
      BY DEF CacheEntries
    <3>3. QED
      BY <3>1, <3>2
  <2>3. /\ SharedInv' /\ e \in Range(sharedLL')
        /\ \A x \in Range(sharedLL') : x \in Range(sharedLL) \/ x = e
    BY <1>1, <1>2, <1>6, <2>1, <2>2, SharedInsert DEF StmtInv
  <2>4. s \in Sharing' /\ Sharing' \subseteq Sharing \cup {s}
    BY <2>2, <2>3 DEF Sharing
  <2>5. /\ stmt'[c] = s /\ callAt'[c] = "executing" /\ own'[c] = Nil
        /\ \A d \in Caller : d # c => /\ stmt'[d] = stmt[d] /\ callAt'[d] = callAt[d]
                                      /\ own'[d] = own[d]
    BY <2>1 DEF StmtInv, StmtTypes
  <2>6. \A d \in Caller : d # c => own[d] # s
    BY <1>1, <1>2 DEF StmtInv, OwnInv
  <2>7. EntriesInv'
    BY <1>1, <1>2, <1>3, <2>2, <2>3 DEF StmtInv, EntriesInv
  <2>8. StmtTypes'
    BY <1>1, <1>3, <2>1 DEF StmtInv, StmtTypes
  <2>9. OwnInv'
    <3>1. \A d \in Caller : own'[d] # Nil
            <=> callAt'[d] \in {"storing", "closing", "closingEvicted"}
      BY <2>5 DEF StmtInv, OwnInv
    <3>2. \A d \in Caller : own'[d] # Nil =>
            /\ own'[d] \in Prepared' \ closed' /\ own'[d] \notin Sharing'
            /\ prepared'[own'[d]].query = QueryOf[d]
      BY <1>1, <1>3, <2>4, <2>5, <2>6 DEF StmtInv, OwnInv
    <3>3. \A d, f \in Caller : d # f /\ own'[d] # Nil => own'[d] # own'[f]
      BY <2>5 DEF StmtInv, OwnInv
    <3>4. Prepared' \ closed' \subseteq Sharing' \cup dropped' \cup {own'[d] : d \in Caller}
      BY <1>1, <1>2, <1>3, <1>4, <2>4, <2>5 DEF StmtInv, OwnInv
    <3>5. QED
      BY <3>1, <3>2, <3>3, <3>4 DEF OwnInv
  <2>10. UseInv'
    <3>1. \A d \in Caller : callAt'[d] \in {"storing", "closing"}
                              => d # c /\ callAt[d] \in {"storing", "closing"}
      BY <2>5
    <3>2. \A d \in Caller : Uses(d)' => d = c \/ Uses(d)
      BY <2>5 DEF Uses
    <3>3. ASSUME NEW d \in Caller, Uses(d)'
          PROVE  /\ stmt'[d] \in Prepared' /\ prepared'[stmt'[d]].query = QueryOf[d]
                 /\ stmt'[d] \in closed' => QueryOf[d] \in failed'
                 /\ \A f \in Caller : callAt'[f] \in {"storing", "closing"}
                                        => stmt'[d] # own'[f]
      BY <1>1, <1>2, <1>3, <2>5, <2>6, <3>1, <3>2, <3>3 DEF StmtInv, UseInv
    <3>4. \A d \in Caller : callAt'[d] \in {"evicting", "closingEvicted"}
                              => QueryOf[d] \in failed'
      BY <1>1, <2>5 DEF StmtInv, UseInv
    <3>5. QED
      BY <3>3, <3>4 DEF UseInv, Uses
  <2>11. QED
    BY <2>3, <2>7, <2>8, <2>9, <2>10 DEF StmtInv
<1>7. QED
  BY <1>5, <1>6

\* Closing a statement a call has to itself: the one it prepared in vain, which
\* no call uses, or the one it evicted, whose query has failed.
LEMMA CloseKeeps ==
  ASSUME StmtInv, NEW c \in Caller,
         \/ callAt[c] = "closing" /\ callAt' = [callAt EXCEPT ![c] = "executing"]
         \/ callAt[c] = "closingEvicted" /\ callAt' = [callAt EXCEPT ![c] = "done"],
         closed' = closed \cup {own[c]}, own' = [own EXCEPT ![c] = Nil],
         UNCHANGED <<sharedLL, sharedItems, prepared, stmt, dropped, failed>>
  PROVE  StmtInv'
<1>1. PICK s \in Stmt : /\ s = own[c] /\ s \in Prepared \ closed /\ s \notin Sharing
                        /\ prepared[s].query = QueryOf[c] /\ s # Nil
  BY StoresAssumption DEF StmtInv, OwnInv, Prepared
<1>2. /\ Prepared' = Prepared /\ Sharing' = Sharing /\ SharedInv'
      /\ closed' = closed \cup {s}
  BY <1>1 DEF Prepared, Sharing, StmtInv, SharedInv
<1>3. /\ own'[c] = Nil /\ callAt'[c] \in {"executing", "done"}
      /\ \A d \in Caller : d # c => callAt'[d] = callAt[d] /\ own'[d] = own[d] /\ own[d] # s
  BY <1>1 DEF StmtInv, StmtTypes, OwnInv
<1>4. StmtTypes'
  BY <1>1, <1>2 DEF StmtInv, StmtTypes
<1>5. EntriesInv'
  BY <1>1, <1>2 DEF StmtInv, EntriesInv, Sharing
<1>6. OwnInv'
  <2>1. \A d \in Caller : own'[d] # Nil
          <=> callAt'[d] \in {"storing", "closing", "closingEvicted"}
    BY <1>3 DEF StmtInv, OwnInv
  <2>2. \A d \in Caller : own'[d] # Nil =>
          /\ own'[d] \in Prepared' \ closed' /\ own'[d] \notin Sharing'
          /\ prepared'[own'[d]].query = QueryOf[d]
    BY <1>2, <1>3 DEF StmtInv, OwnInv
  <2>3. \A d, f \in Caller : d # f /\ own'[d] # Nil => own'[d] # own'[f]
    BY <1>3 DEF StmtInv, OwnInv
  <2>4. Prepared' \ closed' \subseteq Sharing' \cup dropped' \cup {own'[d] : d \in Caller}
    BY <1>1, <1>2, <1>3 DEF StmtInv, OwnInv
  <2>5. QED
    BY <2>1, <2>2, <2>3, <2>4 DEF OwnInv
<1>7. UseInv'
  <2>1. \A d \in Caller : Uses(d)' => Uses(d)
    <3>1. Uses(c)' => Uses(c)
      BY DEF StmtInv, StmtTypes, Uses
    <3>2. QED
      BY <1>3, <3>1 DEF Uses
  <2>2. ASSUME NEW d \in Caller, Uses(d), stmt[d] = s
        PROVE  QueryOf[d] \in failed
    <3>1. callAt[c] = "closingEvicted"
      BY <1>1, <2>2 DEF StmtInv, UseInv
    <3>2. QueryOf[c] \in failed
      BY <3>1 DEF StmtInv, UseInv
    <3>3. QueryOf[d] = QueryOf[c]
      BY <1>1, <2>2 DEF StmtInv, UseInv
    <3>4. QED
      BY <3>2, <3>3
  <2>3. ASSUME NEW d \in Caller, Uses(d)
        PROVE  /\ stmt[d] \in Prepared' /\ prepared[stmt[d]].query = QueryOf[d]
               /\ stmt[d] \in closed' => QueryOf[d] \in failed
               /\ \A f \in Caller : callAt'[f] \in {"storing", "closing"}
                                      => stmt[d] # own'[f]
    BY <1>2, <1>3, <2>2, <2>3 DEF StmtInv, UseInv
  <2>4. \A d \in Caller : callAt'[d] \in {"evicting", "closingEvicted"}
                            => QueryOf[d] \in failed
    BY <1>3 DEF StmtInv, UseInv
  <2>5. QED
    BY <2>1, <2>3, <2>4 DEF UseInv, Uses
<1>8. QED
  BY <1>2, <1>4, <1>5, <1>6, <1>7 DEF StmtInv

\* Executing a statement.
LEMMA ExecuteKeeps ==
  ASSUME StmtInv, NEW c \in Caller, Stmts!Execute(c)
  PROVE  StmtInv'
<1>1. /\ callAt[c] = "executing" /\ QueryOf[c] \in Query
      /\ UNCHANGED <<sharedLL, sharedItems, prepared, closed, stmt, own, dropped>>
      /\ \/ callAt' = [callAt EXCEPT ![c] = "done"] /\ failed' = failed
         \/ /\ callAt' = [callAt EXCEPT ![c] = "evicting"]
            /\ failed' = failed \cup {QueryOf[c]}
  BY StoresAssumption DEF Stmts!Execute, Stmts!Goto
<1>2. /\ callAt'[c] \in {"evicting", "done"} /\ failed \subseteq failed'
      /\ callAt'[c] = "evicting" => QueryOf[c] \in failed'
      /\ \A d \in Caller : d # c => callAt'[d] = callAt[d]
  BY <1>1 DEF StmtInv, StmtTypes
<1>3. SharedInv' /\ Prepared' = Prepared /\ Sharing' = Sharing
  BY <1>1 DEF StmtInv, SharedInv, Prepared, Sharing
<1>4. StmtTypes' /\ EntriesInv'
  BY <1>1, <1>3 DEF StmtInv, StmtTypes, EntriesInv
<1>5. OwnInv'
  BY <1>1, <1>2, <1>3 DEF StmtInv, OwnInv
<1>6. UseInv'
  BY <1>1, <1>2, <1>3 DEF StmtInv, UseInv, Uses
<1>7. QED
  BY <1>3, <1>4, <1>5, <1>6 DEF StmtInv

\* Removing whatever statement the cache now holds for the query.
LEMMA EvictKeeps ==
  ASSUME StmtInv, NEW c \in Caller, Stmts!Evict(c)
  PROVE  StmtInv'
<1>1. /\ callAt[c] = "evicting" /\ QueryOf[c] \in Query /\ Nil \notin Stmt
      /\ UNCHANGED <<prepared, closed, stmt, dropped, failed>>
      /\ own[c] = Nil
  BY StoresAssumption DEF Stmts!Evict, StmtInv, OwnInv
<1>2. Prepared' = Prepared
  BY <1>1 DEF Prepared
<1>3. CASE QueryOf[c] \in sharedItems
  <2>1. PICK h \in Stmt : /\ h = Stmts!Held(QueryOf[c]) /\ h \in Sharing
                          /\ h \in Prepared \ closed /\ prepared[h].query = QueryOf[c]
    BY <1>3, HeldIsShared
  <2>2. /\ own' = [own EXCEPT ![c] = h]
        /\ callAt' = [callAt EXCEPT ![c] = "closingEvicted"]
    BY <1>3, <2>1 DEF Stmts!Evict, Stmts!Goto
  <2>3. /\ SharedInv'
        /\ \A x : x \in Range(sharedLL') <=> x \in Range(sharedLL) /\ x.key # QueryOf[c]
    BY <1>3, SharedDelete DEF Stmts!Evict, Stmts!Cache!LoadAndDelete, StmtInv
  <2>4. /\ h \notin Sharing' /\ Sharing' \subseteq Sharing /\ Sharing \subseteq Sharing' \cup {h}
    <3>1. \A x \in Range(sharedLL) : x.value = h => x.key = QueryOf[c]
      BY <2>1 DEF StmtInv, EntriesInv
    <3>2. \A x \in Range(sharedLL) : x.key = QueryOf[c] => x.value = h
      BY <1>3, <2>1, SharedPosition, SharedFacts DEF StmtInv, Stmts!Held
    <3>3. QED
      BY <2>3, <3>1, <3>2 DEF Sharing
  <2>5. /\ own'[c] = h /\ callAt'[c] = "closingEvicted" /\ h # Nil
        /\ \A d \in Caller : d # c => callAt'[d] = callAt[d] /\ own'[d] = own[d]
        /\ \A d \in Caller : own[d] # h
    BY <1>1, <2>1, <2>2 DEF StmtInv, StmtTypes, OwnInv
  <2>6. StmtTypes' /\ EntriesInv'
    BY <1>1, <1>2, <2>2, <2>3 DEF StmtInv, StmtTypes, EntriesInv
  <2>7. OwnInv'
    <3>1. \A d \in Caller : own'[d] # Nil
            <=> callAt'[d] \in {"storing", "closing", "closingEvicted"}
      BY <2>5 DEF StmtInv, OwnInv
    <3>2. \A d \in Caller : own'[d] # Nil =>
            /\ own'[d] \in Prepared' \ closed' /\ own'[d] \notin Sharing'
            /\ prepared'[own'[d]].query = QueryOf[d]
      BY <1>1, <1>2, <2>1, <2>4, <2>5 DEF StmtInv, OwnInv
    <3>3. \A d, f \in Caller : d # f /\ own'[d] # Nil => own'[d] # own'[f]
      BY <2>5 DEF StmtInv, OwnInv
    <3>4. Prepared' \ closed' \subseteq Sharing' \cup dropped' \cup {own'[d] : d \in Caller}
      BY <1>1, <1>2, <2>4, <2>5 DEF StmtInv, OwnInv, Prepared
    <3>5. QED
      BY <3>1, <3>2, <3>3, <3>4 DEF OwnInv
  <2>8. UseInv'
    <3>1. \A d \in Caller : callAt'[d] \in {"storing", "closing"}
                              => d # c /\ callAt[d] \in {"storing", "closing"}
      BY <2>5
    <3>2. \A d \in Caller : Uses(d)' => Uses(d)
      BY <2>5 DEF Uses
    <3>3. ASSUME NEW d \in Caller, Uses(d)'
          PROVE  /\ stmt'[d] \in Prepared' /\ prepared'[stmt'[d]].query = QueryOf[d]
                 /\ stmt'[d] \in closed' => QueryOf[d] \in failed'
                 /\ \A f \in Caller : callAt'[f] \in {"storing", "closing"}
                                        => stmt'[d] # own'[f]
      BY <1>1, <1>2, <2>5, <3>1, <3>2, <3>3 DEF StmtInv, UseInv
    <3>4. \A d \in Caller : callAt'[d] \in {"evicting", "closingEvicted"}
                              => QueryOf[d] \in failed'
      BY <1>1, <2>5 DEF StmtInv, UseInv
    <3>5. QED
      BY <3>3, <3>4 DEF UseInv, Uses
  <2>9. QED
    BY <2>3, <2>6, <2>7, <2>8 DEF StmtInv
<1>4. CASE QueryOf[c] \notin sharedItems
  <2>1. /\ UNCHANGED <<sharedLL, sharedItems, own>>
        /\ callAt' = [callAt EXCEPT ![c] = "done"]
    BY <1>4 DEF Stmts!Evict, Stmts!Goto, Stmts!Cache!LoadAndDelete, Stmts!Cache!cacheVars
  <2>2. SharedInv' /\ Sharing' = Sharing
    BY <2>1 DEF StmtInv, SharedInv, Sharing
  <2>3. StmtTypes' /\ EntriesInv'
    BY <1>1, <1>2, <2>1 DEF StmtInv, StmtTypes, EntriesInv
  <2>4. OwnInv'
    BY <1>1, <1>2, <2>1, <2>2 DEF StmtInv, StmtTypes, OwnInv
  <2>5. UseInv'
    BY <1>1, <1>2, <2>1 DEF StmtInv, StmtTypes, UseInv, Uses
  <2>6. QED
    BY <2>2, <2>3, <2>4, <2>5 DEF StmtInv
<1>5. QED
  BY <1>3, <1>4

\* The invariant holds at the start, with no entry and nothing prepared.
LEMMA StmtStarts ==
  ASSUME Stmts!Init
  PROVE  StmtInv
<1>1. /\ sharedLL = <<>> /\ sharedItems = {} /\ closed = {} /\ failed = {}
      /\ prepared = [s \in Stmt |-> Nil] /\ callAt = [c \in Caller |-> "idle"]
      /\ stmt = [c \in Caller |-> Nil] /\ own = [c \in Caller |-> Nil]
  BY DEF Stmts!Init
<1>2. Range(sharedLL) = {} /\ Prepared = {}
  BY <1>1 DEF Range, Prepared
<1>3. SharedInv
  BY <1>1, <1>2, StoresAssumption DEF SharedInv, KeysOf, Sorted
<1>4. StmtTypes /\ EntriesInv
  BY <1>1, <1>2 DEF StmtTypes, EntriesInv
<1>5. OwnInv /\ UseInv
  BY <1>1, <1>2 DEF OwnInv, UseInv, Uses
<1>6. QED
  BY <1>3, <1>4, <1>5 DEF StmtInv

\* The invariant of the calls that share prepared statements.
THEOREM StatementsAreShared == Stmts!Spec => []StmtInv
<1>1. Stmts!Init => StmtInv
  BY StmtStarts
<1>2. ASSUME StmtInv, [Stmts!Next]_(Stmts!vars)
      PROVE  StmtInv'
  <2>1. ASSUME NEW c \in Caller, Stmts!Submit(c)
        PROVE  StmtInv'
    <3>1. CASE Stmts!Load(c)
      BY <1>2, <3>1, LoadKeeps
    <3>2. CASE Stmts!Prepare(c)
      BY <1>2, <3>2, PrepareKeeps
    <3>3. CASE Stmts!LoadOrStore(c)
      BY <1>2, <3>3, LoadOrStoreKeeps
    <3>4. CASE Stmts!CloseOwn(c)
      BY <1>2, <3>4, CloseKeeps DEF Stmts!CloseOwn, Stmts!Goto
    <3>5. CASE Stmts!Execute(c)
      BY <1>2, <3>5, ExecuteKeeps
    <3>6. CASE Stmts!Evict(c)
      BY <1>2, <3>6, EvictKeeps
    <3>7. CASE Stmts!CloseEvicted(c)
      BY <1>2, <3>7, CloseKeeps DEF Stmts!CloseEvicted, Stmts!Goto
    <3>8. QED
      BY <2>1, <3>1, <3>2, <3>3, <3>4, <3>5, <3>6, <3>7 DEF Stmts!Submit
  <2>2. CASE UNCHANGED Stmts!vars
    BY <1>2, <2>2 DEF Stmts!vars, StmtInv, SharedInv, StmtTypes, EntriesInv, OwnInv,
                      UseInv, Uses, Prepared, Sharing
  <2>3. QED
    BY <1>2, <2>1, <2>2 DEF Stmts!Next
<1>3. QED
  BY <1>1, <1>2, PTL DEF Stmts!Spec

\* A call that finds its query in the cache is never given a statement that is
\* closed, or is for another query (lruStmtCache and Read of database/sql.go).
THEOREM FoundIsOpen == Stmts!Spec => []CachedIsOpen
<1>1. StmtInv => CachedIsOpen
  <2>1. ASSUME StmtInv, NEW i \in DOMAIN sharedLL
        PROVE  /\ sharedLL[i].value \in Stmts!Open
               /\ prepared[sharedLL[i].value].query = sharedLL[i].key
    <3>1. sharedLL[i] \in Range(sharedLL)
      BY <2>1, SharedFacts DEF StmtInv
    <3>2. QED
      BY <2>1, <3>1 DEF StmtInv, EntriesInv, Stmts!Open, Prepared
  <2>2. QED
    BY <2>1 DEF CachedIsOpen, Stmts!CachedIsOpen
<1>2. QED
  BY <1>1, StatementsAreShared, PTL

\* Every open statement is cached, discarded by the cache, or to be closed by the
\* one call that has it (Read and evictReadStmt of database/sql.go).
THEOREM NoStatementLeaks == Stmts!Spec => []EveryStatementIsOwned
<1>1. StmtInv => EveryStatementIsOwned
  <2>1. ASSUME StmtInv
        PROVE  /\ Stmts!Open = Prepared \ closed
               /\ Sharing \subseteq Stmt /\ closed \subseteq Stmt /\ Nil \notin Stmt
    BY <2>1, SharedFacts, StoresAssumption
       DEF StmtInv, StmtTypes, Stmts!Open, Prepared, Sharing
  <2>2. QED
    BY <2>1, SharingIsCached DEF EveryStatementIsOwned, Stmts!EveryStatementIsOwned,
                                 StmtInv, OwnInv
<1>2. QED
  BY <1>1, StatementsAreShared, PTL

\* Discarding a statement for want of room never makes a call meet a closed one:
\* only calls of a query whose execution failed do (lruStmtCache.evictLocked).
THEOREM RoomIsMadeSafely == Stmts!Spec => []ClosedOnlyAfterFailure
<1>1. StmtInv => ClosedOnlyAfterFailure
  BY DEF ClosedOnlyAfterFailure, Stmts!ClosedOnlyAfterFailure, StmtInv, UseInv, Uses
<1>2. QED
  BY <1>1, StatementsAreShared, PTL
(***************************************************************************)
(* The Redis cache.                                                        *)
(***************************************************************************)
CachePlaces == {"idle", "connecting", "reading", "missed", "loading", "checkingTTL",
                "storing", "expiring", "following", "writing", "done", "failed"}
Making == {"checkingTTL", "storing", "expiring"}

CacheTypes ==
  /\ ask \in [Call -> Asks]
  /\ data \in [Target -> Nat]
  /\ cached \in [Target -> Nat \cup {Nil}]
  /\ val \in [Call -> Nat \cup {Nil}]
  /\ from \in [Call -> Target \cup {Nil}]
  /\ prefixes \in [Call -> Nat]
  /\ askedAt \in [Call -> CachePlaces]

\* Only reads pass the places of a read, and hold a version from the fallback
\* on; a writer that is connected has put the prefix before its key.
PlacesInv ==
  \A c \in Call :
    /\ ask[c].op = "get" => askedAt[c] # "writing"
    /\ ask[c].op # "get" =>
         /\ askedAt[c] \in {"idle", "connecting", "writing", "done", "failed"}
         /\ askedAt[c] \in {"connecting", "writing"} => val[c] \in Nat
         /\ askedAt[c] = "writing" => prefixes[c] >= 1
    /\ askedAt[c] \in Making => val[c] \in Nat

\* A writer of the data has yet to tell the cache, failed to, or told it under
\* another key.
Pending(t) ==
  \E c \in Cache!Writers(t) : \/ askedAt[c] \in {"connecting", "writing", "failed"}
                              \/ prefixes[c] > 1

\* An outdated version that Redis holds, or that a flight is about to give it,
\* is one that a writer is about to remove, or a race.
StaleInv ==
  /\ \A t \in Target : cached[t] # Nil /\ cached[t] < data[t] => t \in raced \/ Pending(t)
  /\ \A c \in Call : askedAt[c] \in {"checkingTTL", "storing"}
                       /\ val[c] < data[Cache!T(c)]
                     => Cache!T(c) \in raced \/ Pending(Cache!T(c))

CacheInv == CacheTypes /\ PlacesInv /\ StaleInv

\* What a flight makes is for the target of its leader, and what a read returns
\* is for its own.
AnswersInv ==
  \A c \in Call : ask[c].op = "get" =>
    /\ askedAt[c] \in Making => from[c] = Cache!T(c)
    /\ askedAt[c] = "done" => from[c] = Cache!T(c) /\ val[c] # Nil

\* Calls ask for one of the targets, and versions are told from no version.
LEMMA AskFacts ==
  ASSUME CacheInv
  PROVE  /\ Nil \notin Nat
         /\ \A c \in Call : Cache!T(c) \in Target /\ ask[c].op \in Operations
<1>1. \A c \in Call : ask[c] \in [op : Operations, target : Target]
  BY StoresAssumption DEF CacheInv, CacheTypes
<1>2. QED
  BY <1>1, StoresAssumption DEF Cache!T

\* A step in which nothing that was pending is settled, no version grows old
\* and none is stored.
LEMMA NothingGrowsOld ==
  ASSUME StaleInv, ask' = ask, data' = data, raced \subseteq raced',
         \A t \in Target : Pending(t) => Pending(t)',
         \A t \in Target : cached'[t] = Nil \/ cached'[t] = cached[t],
         \A c \in Call : askedAt'[c] \in {"checkingTTL", "storing"}
           => val'[c] = val[c] /\ askedAt[c] \in {"checkingTTL", "storing"},
         \A c \in Call : Cache!T(c) \in Target
  PROVE  StaleInv'
<1>1. \A c \in Call : Cache!T(c)' = Cache!T(c)
  BY DEF Cache!T
<1>2. ASSUME NEW t \in Target, cached'[t] # Nil /\ cached'[t] < data'[t]
      PROVE  t \in raced' \/ Pending(t)'
  BY <1>2 DEF StaleInv
<1>3. ASSUME NEW c \in Call, askedAt'[c] \in {"checkingTTL", "storing"},
             val'[c] < data'[Cache!T(c)']
      PROVE  Cache!T(c)' \in raced' \/ Pending(Cache!T(c))'
  <2>1. PICK t \in Target : t = Cache!T(c) /\ Cache!T(c)' = t
    BY <1>1
  <2>2. val[c] < data[t] /\ askedAt[c] \in {"checkingTTL", "storing"}
    BY <1>3, <2>1
  <2>3. t \in raced \/ Pending(t)
    BY <2>1, <2>2 DEF StaleInv
  <2>4. t \in raced' \/ Pending(t)'
    BY <2>3
  <2>5. Pending(t)' = Pending(Cache!T(c))'
    BY <2>1
  <2>6. QED
    BY <2>1, <2>4, <2>5
<1>4. QED
  BY <1>2, <1>3 DEF StaleInv

\* Beginning: a writer changes the data, and has yet to tell the cache.
LEMMA CacheBegins ==
  ASSUME CacheInv, NEW c \in Call, Cache!Begin(c)
  PROVE  CacheInv'
<1>1. /\ askedAt[c] = "idle" /\ askedAt' = [askedAt EXCEPT ![c] = "connecting"]
      /\ UNCHANGED <<ask, cached, from, prefixes, raced>>
      /\ Cache!T(c) \in Target /\ \A d \in Call : Cache!T(d) \in Target
  BY AskFacts DEF Cache!Begin, Cache!Goto, Cache!redisVars
<1>2. CacheTypes'
  BY <1>1 DEF Cache!Begin, CacheInv, CacheTypes, CachePlaces
<1>3. PlacesInv'
  BY <1>1 DEF Cache!Begin, CacheInv, CacheTypes, PlacesInv, Making, CachePlaces
<1>4. StaleInv'
  <2>1. \A t \in Target : Pending(t) => Pending(t)'
    BY <1>1 DEF CacheInv, CacheTypes, CachePlaces, Pending, Cache!Writers, Cache!T
  <2>2. \A d \in Call : askedAt'[d] \in {"checkingTTL", "storing"}
          => val'[d] = val[d] /\ askedAt[d] \in {"checkingTTL", "storing"}
    BY <1>1 DEF Cache!Begin, CacheInv, CacheTypes
  <2>3. CASE ask[c].op = "get"
    <3>1. data' = data
      BY <2>3 DEF Cache!Begin
    <3>2. QED
      BY <1>1, <2>1, <2>2, <3>1, NothingGrowsOld DEF CacheInv
  <2>4. CASE ask[c].op # "get"
    <3>1. /\ \A t \in Target : t # Cache!T(c) => data'[t] = data[t]
          /\ \A d \in Call : Cache!T(d)' = Cache!T(d)
      BY <1>1, <2>4 DEF Cache!Begin, Cache!T, CacheInv, CacheTypes
    <3>2. PICK u \in Target : u = Cache!T(c)
      BY <1>1
    <3>3. Pending(u)'
      BY <1>1, <2>4, <3>1, <3>2 DEF CacheInv, CacheTypes, Pending, Cache!Writers
    <3>4. \A t \in Target : cached'[t] # Nil /\ cached'[t] < data'[t]
            => t \in raced' \/ Pending(t)'
      BY <1>1, <2>1, <3>1, <3>2, <3>3 DEF CacheInv, StaleInv
    <3>5. ASSUME NEW d \in Call, askedAt'[d] \in {"checkingTTL", "storing"},
                 val'[d] < data'[Cache!T(d)']
          PROVE  Cache!T(d)' \in raced' \/ Pending(Cache!T(d))'
      <4>1. PICK t \in Target : t = Cache!T(d) /\ Cache!T(d)' = t
        BY <1>1, <3>1
      <4>2. CASE t = u
        BY <3>3, <4>1, <4>2
      <4>3. CASE t # u
        <5>1. val[d] < data[t] /\ askedAt[d] \in {"checkingTTL", "storing"}
          BY <2>2, <3>1, <3>2, <3>5, <4>1, <4>3
        <5>2. t \in raced' \/ Pending(t)'
          BY <1>1, <2>1, <4>1, <5>1 DEF CacheInv, StaleInv
        <5>3. QED
          BY <4>1, <5>2
      <4>4. QED
        BY <4>2, <4>3
    <3>6. QED
      BY <3>4, <3>5 DEF StaleInv
  <2>5. QED
    BY <2>3, <2>4
<1>5. QED
  BY <1>2, <1>3, <1>4 DEF CacheInv

\* A round of connecting, and a command that fails: a writer stays pending.
LEMMA CacheConnects ==
  ASSUME CacheInv, NEW c \in Call, Cache!Connect(c) \/ Cache!Fail(c)
  PROVE  CacheInv'
<1>1. /\ UNCHANGED <<ask, data, cached, val, from, raced>>
      /\ \A d \in Call : Cache!T(d) \in Target
  BY AskFacts DEF Cache!Connect, Cache!Fail, Cache!redisVars, Cache!callVars
<1>2. PICK l \in {"reading", "writing", "connecting", "failed"} :
        /\ askedAt' = [askedAt EXCEPT ![c] = l]
        /\ l = "reading" => ask[c].op = "get"
        /\ l = "writing" => ask[c].op # "get"
        /\ askedAt[c] \in {"connecting", "reading", "writing"}
        /\ l # "failed" => askedAt[c] = "connecting" /\ Cache!Connect(c)
  BY DEF Cache!Connect, Cache!Fail, Cache!Goto
<1>3. /\ prefixes' \in [Call -> Nat]
      /\ \A d \in Call : d # c => prefixes'[d] = prefixes[d]
      /\ Cache!Connect(c) => prefixes'[c] >= 1
  BY DEF Cache!Connect, Cache!Fail, Cache!callVars, CacheInv, CacheTypes
<1>4. CacheTypes'
  BY <1>1, <1>2, <1>3 DEF CacheInv, CacheTypes, CachePlaces
<1>5. PlacesInv'
  BY <1>1, <1>2, <1>3 DEF CacheInv, CacheTypes, PlacesInv, Making, CachePlaces
<1>6. \A t \in Target : Pending(t) => Pending(t)'
  BY <1>1, <1>2, <1>3
     DEF CacheInv, CacheTypes, PlacesInv, Pending, Cache!Writers, Cache!T
<1>7. \A d \in Call : askedAt'[d] \in {"checkingTTL", "storing"}
        => val'[d] = val[d] /\ askedAt[d] \in {"checkingTTL", "storing"}
  BY <1>1, <1>2 DEF CacheInv, CacheTypes
<1>8. StaleInv'
  BY <1>1, <1>6, <1>7, NothingGrowsOld DEF CacheInv
<1>9. QED
  BY <1>4, <1>5, <1>8 DEF CacheInv
\* A step of the reads: the writers are where they were.
LEMMA ReadsSettleNothing ==
  ASSUME CacheInv, ask' = ask, prefixes' = prefixes, data' = data, raced' = raced,
         askedAt' \in [Call -> CachePlaces], val' \in [Call -> Nat \cup {Nil}],
         \A c \in Call : ask[c].op # "get" => askedAt'[c] = askedAt[c] /\ val'[c] = val[c],
         \A c \in Call : askedAt'[c] # "writing" \/ askedAt[c] = "writing",
         \A c \in Call : askedAt'[c] \in Making => val'[c] \in Nat
  PROVE  PlacesInv' /\ \A t \in Target : Pending(t) => Pending(t)'
<1>1. PlacesInv'
  BY DEF CacheInv, PlacesInv, Making
<1>2. \A t \in Target : Pending(t) => Pending(t)'
  BY DEF CacheInv, Pending, Cache!Writers, Cache!T
<1>3. QED
  BY <1>1, <1>2

\* Reading Redis, joining a flight, and looking at a hash's time to live.
LEMMA CacheReads ==
  ASSUME CacheInv, NEW c \in Call,
         Cache!Read(c) \/ Cache!JoinFlight(c) \/ Cache!CheckTTL(c)
  PROVE  CacheInv'
<1>1. /\ UNCHANGED <<ask, data, cached, prefixes, raced>>
      /\ \A d \in Call : Cache!T(d) \in Target
  BY AskFacts DEF Cache!Read, Cache!JoinFlight, Cache!CheckTTL, Cache!redisVars,
                  Cache!callVars
<1>2. PICK l \in {"done", "missed", "loading", "following", "storing"} :
        /\ askedAt' = [askedAt EXCEPT ![c] = l]
        /\ l = "storing" => askedAt[c] = "checkingTTL" /\ val' = val
        /\ askedAt[c] \in {"reading", "missed", "checkingTTL"}
  BY DEF Cache!Read, Cache!JoinFlight, Cache!CheckTTL, Cache!Goto
<1>3. /\ val' \in [Call -> Nat \cup {Nil}] /\ from' \in [Call -> Target \cup {Nil}]
      /\ \A d \in Call : d # c => val'[d] = val[d]
  BY <1>1 DEF Cache!Read, Cache!JoinFlight, Cache!CheckTTL, Cache!callVars, CacheInv,
              CacheTypes
<1>4. CacheTypes'
  BY <1>1, <1>2, <1>3 DEF CacheInv, CacheTypes, CachePlaces
<1>5. ask[c].op = "get"
  BY <1>2 DEF CacheInv, PlacesInv
<1>6. /\ \A d \in Call : d # c => askedAt'[d] = askedAt[d]
      /\ askedAt'[c] = l
  BY <1>2 DEF CacheInv, CacheTypes
<1>7. PlacesInv' /\ \A t \in Target : Pending(t) => Pending(t)'
  <2>1. \A d \in Call : askedAt'[d] \in Making => val'[d] \in Nat
    BY <1>2, <1>3, <1>6 DEF CacheInv, PlacesInv, Making
  <2>2. QED
    BY <1>1, <1>3, <1>4, <1>5, <1>6, <2>1, ReadsSettleNothing DEF CacheTypes
<1>8. \A d \in Call : askedAt'[d] \in {"checkingTTL", "storing"}
        => val'[d] = val[d] /\ askedAt[d] \in {"checkingTTL", "storing"}
  BY <1>2, <1>3, <1>6
<1>9. StaleInv'
  BY <1>1, <1>7, <1>8, NothingGrowsOld DEF CacheInv
<1>10. QED
  BY <1>4, <1>7, <1>9 DEF CacheInv

\* The fallback reads the data: what it returns is not outdated then.
LEMMA CacheLoads ==
  ASSUME CacheInv, NEW c \in Call, Cache!Load(c)
  PROVE  CacheInv'
<1>1. /\ UNCHANGED <<ask, data, cached, prefixes, raced>>
      /\ \A d \in Call : Cache!T(d) \in Target
      /\ askedAt[c] = "loading"
  BY AskFacts DEF Cache!Load, Cache!redisVars
<1>2. PICK l \in {"checkingTTL", "storing"} : askedAt' = [askedAt EXCEPT ![c] = l]
  BY DEF Cache!Load, Cache!Goto
<1>3. PICK t \in Target : t = Cache!T(c)
  BY <1>1
<1>4. val' = [val EXCEPT ![c] = data[t]] /\ data[t] \in Nat
  BY <1>3 DEF Cache!Load, CacheInv, CacheTypes
<1>5. CacheTypes'
  BY <1>1, <1>2, <1>4 DEF Cache!Load, CacheInv, CacheTypes, CachePlaces
<1>6. ask[c].op = "get"
  BY <1>1 DEF CacheInv, PlacesInv
<1>7. /\ \A d \in Call : d # c => askedAt'[d] = askedAt[d] /\ val'[d] = val[d]
      /\ askedAt'[c] = l /\ val'[c] = data[t]
  BY <1>2, <1>4 DEF CacheInv, CacheTypes
<1>8. PlacesInv' /\ \A u \in Target : Pending(u) => Pending(u)'
  <2>1. \A d \in Call : askedAt'[d] \in Making => val'[d] \in Nat
    BY <1>4, <1>7 DEF CacheInv, PlacesInv
  <2>2. QED
    BY <1>1, <1>5, <1>6, <1>7, <2>1, ReadsSettleNothing DEF CacheTypes
<1>9. StaleInv'
  <2>1. \A u \in Target : cached'[u] # Nil /\ cached'[u] < data'[u]
          => u \in raced' \/ Pending(u)'
    BY <1>1, <1>8 DEF CacheInv, StaleInv
  <2>2. ASSUME NEW d \in Call, askedAt'[d] \in {"checkingTTL", "storing"},
               val'[d] < data'[Cache!T(d)']
        PROVE  Cache!T(d)' \in raced' \/ Pending(Cache!T(d))'
    <3>1. PICK u \in Target : u = Cache!T(d) /\ Cache!T(d)' = u
      BY <1>1 DEF Cache!T
    <3>2. d # c
      BY <1>1, <1>3, <1>4, <1>7, <2>2, <3>1
    <3>3. u \in raced' \/ Pending(u)'
      BY <1>1, <1>7, <1>8, <2>2, <3>1, <3>2 DEF CacheInv, StaleInv
    <3>4. QED
      BY <3>1, <3>3
  <2>3. QED
    BY <2>1, <2>2 DEF StaleInv
<1>10. QED
  BY <1>5, <1>8, <1>9 DEF CacheInv

\* A flight that lands, or fails, moves its leader and its followers, all reads.
LEMMA FlightMoves ==
  ASSUME CacheInv, NEW c \in Call, ask[c].op = "get", askedAt[c] # "writing",
         val[c] \in Nat, Cache!Land(c)
  PROVE  /\ askedAt' \in [Call -> CachePlaces] /\ val' \in [Call -> Nat \cup {Nil}]
         /\ from' \in [Call -> Target \cup {Nil}]
         /\ \A d \in Call : ask[d].op # "get" => askedAt'[d] = askedAt[d] /\ val'[d] = val[d]
         /\ \A d \in Call : askedAt'[d] # "done" => askedAt'[d] = askedAt[d] /\ val'[d] = val[d]
<1>1. \A d \in Call : d \in Cache!Followers(c) => ask[d].op = "get"
  BY DEF Cache!Followers, CacheInv, PlacesInv
<1>2. QED
  BY <1>1 DEF Cache!Land, CacheInv, CacheTypes, CachePlaces

\* Storing what was loaded: when it is outdated, a writer is pending, or raced.
LEMMA CacheStores ==
  ASSUME CacheInv, NEW c \in Call, Cache!StoreLoaded(c)
  PROVE  CacheInv'
<1>1. /\ UNCHANGED <<ask, data, prefixes, raced>> /\ askedAt[c] = "storing"
      /\ \A d \in Call : Cache!T(d) \in Target
      /\ ask[c].op = "get" /\ val[c] \in Nat
  BY AskFacts DEF Cache!StoreLoaded, CacheInv, PlacesInv, Making
<1>2. PICK t \in Target : t = Cache!T(c)
  BY <1>1
<1>3. cached' = [cached EXCEPT ![t] = val[c]]
  BY <1>2 DEF Cache!StoreLoaded, Cache!HSetField, Cache!SetEx
<1>4. /\ askedAt' \in [Call -> CachePlaces] /\ val' \in [Call -> Nat \cup {Nil}]
      /\ from' \in [Call -> Target \cup {Nil}]
      /\ \A d \in Call : ask[d].op # "get" => askedAt'[d] = askedAt[d] /\ val'[d] = val[d]
      /\ \A d \in Call : /\ askedAt'[d] \notin {"done", "expiring"} => askedAt'[d] = askedAt[d]
                         /\ askedAt'[d] # "done" => val'[d] = val[d]
                         /\ askedAt'[d] = "expiring" => askedAt[d] \in Making
  <2>1. CASE Cache!Goto(c, "expiring") /\ UNCHANGED <<val, from>>
    BY <1>1, <2>1 DEF Cache!Goto, CacheInv, CacheTypes, CachePlaces, Making
  <2>2. CASE Cache!Land(c)
    <3>1. askedAt[c] # "writing"
      BY <1>1
    <3>2. /\ askedAt' \in [Call -> CachePlaces] /\ val' \in [Call -> Nat \cup {Nil}]
          /\ from' \in [Call -> Target \cup {Nil}]
          /\ \A d \in Call : ask[d].op # "get" => askedAt'[d] = askedAt[d] /\ val'[d] = val[d]
          /\ \A d \in Call : askedAt'[d] # "done"
               => askedAt'[d] = askedAt[d] /\ val'[d] = val[d]
      BY <1>1, <2>2, <3>1, FlightMoves
    <3>3. QED
      BY <3>2 DEF Making
  <2>3. QED
    BY <2>1, <2>2 DEF Cache!StoreLoaded
<1>5. CacheTypes'
  BY <1>1, <1>3, <1>4 DEF CacheInv, CacheTypes
<1>6. PlacesInv' /\ \A u \in Target : Pending(u) => Pending(u)'
  <2>1. \A d \in Call : askedAt'[d] \in Making => val'[d] \in Nat
    BY <1>4 DEF CacheInv, PlacesInv, Making
  <2>2. \A d \in Call : askedAt'[d] # "writing" \/ askedAt[d] = "writing"
    BY <1>4
  <2>3. QED
    BY <1>1, <1>4, <2>1, <2>2, ReadsSettleNothing
<1>7. StaleInv'
  <2>1. ASSUME NEW u \in Target, cached'[u] # Nil /\ cached'[u] < data'[u]
        PROVE  u \in raced' \/ Pending(u)'
    <3>1. CASE u = t
      <4>1. val[c] < data[t]
        BY <1>1, <1>3, <2>1, <3>1 DEF CacheInv, CacheTypes
      <4>2. t \in raced \/ Pending(t)
        BY <1>1, <1>2, <4>1 DEF CacheInv, StaleInv
      <4>3. QED
        BY <1>1, <1>6, <3>1, <4>2
    <3>2. CASE u # t
      BY <1>1, <1>3, <1>6, <2>1, <3>2 DEF CacheInv, CacheTypes, StaleInv
    <3>3. QED
      BY <3>1, <3>2
  <2>2. ASSUME NEW d \in Call, askedAt'[d] \in {"checkingTTL", "storing"},
               val'[d] < data'[Cache!T(d)']
        PROVE  Cache!T(d)' \in raced' \/ Pending(Cache!T(d))'
    <3>1. PICK u \in Target : u = Cache!T(d) /\ Cache!T(d)' = u
      BY <1>1 DEF Cache!T
    <3>2. u \in raced' \/ Pending(u)'
      BY <1>1, <1>4, <1>6, <2>2, <3>1 DEF CacheInv, StaleInv
    <3>3. QED
      BY <3>1, <3>2
  <2>3. QED
    BY <2>1, <2>2 DEF StaleInv
<1>8. QED
  BY <1>5, <1>6, <1>7 DEF CacheInv

\* Setting the time to live of a hash lands its flight; a flight may fail.
LEMMA CacheLands ==
  ASSUME CacheInv, NEW c \in Call, Cache!ExpireLoaded(c) \/ Cache!FlightFails(c)
  PROVE  CacheInv'
<1>1. /\ UNCHANGED <<ask, data, cached, prefixes, raced>>
      /\ \A d \in Call : Cache!T(d) \in Target
      /\ askedAt[c] \in {"loading", "checkingTTL", "storing", "expiring"}
  BY AskFacts DEF Cache!ExpireLoaded, Cache!FlightFails, Cache!redisVars, Cache!callVars
<1>2. ask[c].op = "get"
  BY <1>1 DEF CacheInv, PlacesInv
<1>3. /\ askedAt' \in [Call -> CachePlaces] /\ val' \in [Call -> Nat \cup {Nil}]
      /\ from' \in [Call -> Target \cup {Nil}]
      /\ \A d \in Call : ask[d].op # "get" => askedAt'[d] = askedAt[d] /\ val'[d] = val[d]
      /\ \A d \in Call : askedAt'[d] \notin {"done", "failed"}
                           => askedAt'[d] = askedAt[d] /\ val'[d] = val[d]
  <2>1. CASE Cache!ExpireLoaded(c)
    <3>1. Cache!Land(c) /\ val[c] \in Nat /\ askedAt[c] # "writing"
      BY <2>1 DEF Cache!ExpireLoaded, CacheInv, PlacesInv, Making
    <3>2. QED
      BY <1>2, <3>1, FlightMoves
  <2>2. CASE Cache!FlightFails(c)
    <3>1. \A d \in Call : d \in Cache!Followers(c) => ask[d].op = "get"
      BY DEF Cache!Followers, CacheInv, PlacesInv
    <3>2. QED
      BY <1>2, <2>2, <3>1
         DEF Cache!FlightFails, Cache!callVars, CacheInv, CacheTypes, CachePlaces
  <2>3. QED
    BY <2>1, <2>2
<1>4. CacheTypes'
  BY <1>1, <1>3 DEF CacheInv, CacheTypes
<1>5. PlacesInv' /\ \A u \in Target : Pending(u) => Pending(u)'
  <2>1. \A d \in Call : askedAt'[d] \in Making => val'[d] \in Nat
    BY <1>3 DEF CacheInv, PlacesInv, Making
  <2>2. \A d \in Call : askedAt'[d] # "writing" \/ askedAt[d] = "writing"
    BY <1>3
  <2>3. QED
    BY <1>1, <1>3, <2>1, <2>2, ReadsSettleNothing
<1>6. StaleInv'
  BY <1>1, <1>3, <1>5, NothingGrowsOld DEF CacheInv
<1>7. QED
  BY <1>4, <1>5, <1>6 DEF CacheInv
\* A writer tells the cache, of the targets S: what they hold, and what flights
\* and other writers are about to store there, is not outdated, or is a race.
LEMMA WriterTells ==
  ASSUME CacheInv, NEW c \in Call, askedAt[c] = "writing", ask[c].op # "get",
         NEW S \in SUBSET Target, Cache!T(c) \in S,
         UNCHANGED <<ask, data, val, from, prefixes>>,
         askedAt' = [askedAt EXCEPT ![c] = "done"],
         cached' \in [Target -> Nat \cup {Nil}],
         raced \cup Cache!Behind(S) \subseteq raced',
         \A t \in Target \ S : cached'[t] \in {Nil, cached[t]},
         \A t \in S : \/ cached'[t] # Nil /\ cached'[t] < data[t] => t \in raced'
                      \/ prefixes[c] > 1 /\ t = Cache!T(c) /\ cached'[t] = cached[t]
  PROVE  CacheInv'
<1>1. /\ \A d \in Call : Cache!T(d) \in Target
      /\ \A d \in Call : Cache!T(d)' = Cache!T(d)
      /\ \A d \in Call : ask[d].op \in Operations
  BY AskFacts DEF Cache!T
<1>2. \A d \in Call : d # c => askedAt'[d] = askedAt[d]
  BY DEF CacheInv, CacheTypes
<1>3. CacheTypes'
  BY DEF CacheInv, CacheTypes, CachePlaces
<1>4. PlacesInv'
  BY DEF CacheInv, CacheTypes, PlacesInv, Making, CachePlaces
<1>5. \A t \in Target : t \notin S /\ Pending(t) => Pending(t)'
  BY <1>1, <1>2 DEF Pending, Cache!Writers
<1>6. \A t \in Target : t = Cache!T(c) /\ prefixes[c] > 1 => Pending(t)'
  BY <1>1 DEF Pending, Cache!Writers
<1>7. ASSUME NEW t \in Target, cached'[t] # Nil /\ cached'[t] < data'[t]
      PROVE  t \in raced' \/ Pending(t)'
  <2>1. CASE t \in S
    <3>1. CASE t \in raced'
      BY <3>1
    <3>2. CASE prefixes[c] > 1 /\ t = Cache!T(c)
      BY <1>6, <3>2
    <3>3. QED
      BY <1>7, <2>1, <3>1, <3>2
  <2>2. CASE t \notin S
    BY <1>5, <1>7, <2>2 DEF CacheInv, StaleInv
  <2>3. QED
    BY <2>1, <2>2
<1>8. ASSUME NEW d \in Call, askedAt'[d] \in {"checkingTTL", "storing"},
             val'[d] < data'[Cache!T(d)']
      PROVE  Cache!T(d)' \in raced' \/ Pending(Cache!T(d))'
  <2>1. PICK t \in Target : t = Cache!T(d) /\ Cache!T(d)' = t
    BY <1>1
  <2>2. d # c
    BY <1>8 DEF CacheInv, CacheTypes
  <2>3. /\ askedAt[d] \in {"checkingTTL", "storing"} /\ val[d] < data[t]
        /\ val[d] \in Nat /\ val[d] # Nil /\ ask[d].op = "get"
    BY <1>2, <1>8, <2>1, <2>2, AskFacts DEF CacheInv, PlacesInv, Making
  <2>4. CASE t \in S
    <3>1. t \in Cache!Behind(S)
      BY <2>1, <2>3, <2>4 DEF Cache!Behind
    <3>2. QED
      BY <2>1, <3>1
  <2>5. CASE t \notin S
    <3>1. t \in raced' \/ Pending(t)'
      BY <1>5, <2>1, <2>3, <2>5 DEF CacheInv, StaleInv
    <3>2. QED
      BY <2>1, <3>1
  <2>6. QED
    BY <2>4, <2>5
<1>9. StaleInv'
  BY <1>7, <1>8 DEF StaleInv
<1>10. QED
  BY <1>3, <1>4, <1>9 DEF CacheInv

\* Removing a key or a field.
LEMMA CacheInvalidates ==
  ASSUME CacheInv, NEW c \in Call, Cache!Invalidate(c)
  PROVE  CacheInv'
<1>1. PICK S \in SUBSET Target :
        /\ Cache!T(c) \in S /\ Cache!Remove(S) /\ raced' = raced \cup Cache!Behind(S)
  <2>1. Cache!T(c) \in Target
    BY AskFacts
  <2>2. /\ Cache!Fields(Cache!K(c)) \in SUBSET Target
        /\ Cache!T(c) \in Cache!Fields(Cache!K(c)) /\ {Cache!T(c)} \in SUBSET Target
    BY <2>1 DEF Cache!Fields, Cache!K
  <2>3. CASE ask[c].op = "del"
    BY <2>2, <2>3 DEF Cache!Invalidate
  <2>4. CASE ask[c].op # "del"
    BY <2>2, <2>4 DEF Cache!Invalidate
  <2>5. QED
    BY <2>3, <2>4
<1>2. /\ askedAt[c] = "writing" /\ ask[c].op # "get"
      /\ UNCHANGED <<ask, data, val, from, prefixes>>
      /\ askedAt' = [askedAt EXCEPT ![c] = "done"]
  BY DEF Cache!Invalidate, Cache!Goto, Cache!callVars
<1>3. cached' = [t \in Target |-> IF t \in S THEN Nil ELSE cached[t]]
  BY <1>1 DEF Cache!Remove
<1>4. cached' \in [Target -> Nat \cup {Nil}]
  BY <1>3 DEF CacheInv, CacheTypes
<1>5. /\ \A t \in Target \ S : cached'[t] \in {Nil, cached[t]}
      /\ \A t \in S : cached'[t] = Nil
  BY <1>3
<1>6. QED
  BY <1>1, <1>2, <1>4, <1>5, WriterTells

\* Writing a version, or another key.
LEMMA CacheWrites ==
  ASSUME CacheInv, NEW c \in Call, Cache!Write(c)
  PROVE  CacheInv'
<1>1. PICK t \in Target : t = Cache!T(c)
  BY AskFacts
<1>2. PICK S \in SUBSET Target : S = {t} /\ Cache!T(c) \in S
  BY <1>1
<1>3. /\ askedAt[c] = "writing" /\ ask[c].op # "get"
      /\ UNCHANGED <<ask, data, val, from, prefixes>>
      /\ askedAt' = [askedAt EXCEPT ![c] = "done"]
      /\ raced' = raced \cup Cache!Behind(S) \cup {u \in {t} : val[c] < data[u]}
  BY <1>1, <1>2 DEF Cache!Write, Cache!Goto, Cache!callVars
<1>4. val[c] \in Nat /\ prefixes[c] \in Nat /\ prefixes[c] >= 1
  BY <1>3 DEF CacheInv, CacheTypes, PlacesInv
<1>5. CASE prefixes[c] # 1 /\ cached' = cached
  <2>1. /\ cached' \in [Target -> Nat \cup {Nil}] /\ prefixes[c] > 1
        /\ \A u \in Target \ S : cached'[u] \in {Nil, cached[u]}
        /\ \A u \in S : u = Cache!T(c) /\ cached'[u] = cached[u]
    BY <1>1, <1>2, <1>4, <1>5 DEF CacheInv, CacheTypes
  <2>2. QED
    BY <1>2, <1>3, <2>1, WriterTells
<1>6. CASE cached' = [cached EXCEPT ![t] = val[c]]
  <2>1. cached' \in [Target -> Nat \cup {Nil}]
    BY <1>4, <1>6 DEF CacheInv, CacheTypes
  <2>2. \A u \in Target \ S : cached'[u] \in {Nil, cached[u]}
    BY <1>2, <1>6 DEF CacheInv, CacheTypes
  <2>3. \A u \in S : cached'[u] # Nil /\ cached'[u] < data[u] => u \in raced'
    BY <1>2, <1>3, <1>6 DEF CacheInv, CacheTypes
  <2>4. QED
    BY <1>2, <1>3, <2>1, <2>2, <2>3, WriterTells
<1>7. QED
  BY <1>1, <1>5, <1>6 DEF Cache!Write, Cache!SetEx, Cache!HSetField, Cache!redisVars

\* A key reaches the end of its time to live.
LEMMA CacheExpires ==
  ASSUME CacheInv, NEW k \in RedisKey, Cache!Expire(k)
  PROVE  CacheInv'
<1>1. /\ UNCHANGED <<ask, data, askedAt, val, from, prefixes, raced>>
      /\ cached' = [t \in Target |-> IF t \in Cache!Fields(k) THEN Nil ELSE cached[t]]
      /\ \A d \in Call : Cache!T(d) \in Target
  BY AskFacts DEF Cache!Expire, Cache!Remove, Cache!callVars
<1>2. CacheTypes' /\ PlacesInv'
  BY <1>1 DEF CacheInv, CacheTypes, PlacesInv
<1>3. \A t \in Target : Pending(t) => Pending(t)'
  BY <1>1 DEF Pending, Cache!Writers, Cache!T
<1>4. StaleInv'
  BY <1>1, <1>3, NothingGrowsOld DEF CacheInv
<1>5. QED
  BY <1>2, <1>4 DEF CacheInv

\* The invariant of the Redis cache.
THEOREM CacheKeepsUp == Cache!Spec => []CacheInv
<1>1. ASSUME Cache!Init
      PROVE  CacheInv
  <2>1. CacheTypes
    BY <1>1 DEF Cache!Init, CacheTypes, CachePlaces
  <2>2. PlacesInv
    BY <1>1 DEF Cache!Init, PlacesInv, Making
  <2>3. \A c \in Call : Cache!T(c) \in Target
    BY <2>1, StoresAssumption DEF CacheTypes, Cache!T
  <2>4. StaleInv
    BY <1>1, <2>3 DEF Cache!Init, StaleInv
  <2>5. QED
    BY <2>1, <2>2, <2>4 DEF CacheInv
<1>2. ASSUME CacheInv, [Cache!Next]_(Cache!vars)
      PROVE  CacheInv'
  <2>1. ASSUME NEW c \in Call, Cache!Begin(c) \/ Cache!Run(c)
        PROVE  CacheInv'
    BY <1>2, <2>1, CacheBegins, CacheConnects, CacheReads, CacheLoads, CacheStores,
       CacheLands, CacheInvalidates, CacheWrites DEF Cache!Run
  <2>2. ASSUME NEW k \in RedisKey, Cache!Expire(k)
        PROVE  CacheInv'
    BY <1>2, <2>2, CacheExpires
  <2>3. CASE UNCHANGED Cache!vars
    BY <1>2, <2>3 DEF Cache!vars, CacheInv, CacheTypes, PlacesInv, StaleInv, Pending,
                      Cache!Writers, Cache!T
  <2>4. QED
    BY <1>2, <2>1, <2>2, <2>3 DEF Cache!Next
<1>3. QED
  BY <1>1, <1>2, PTL DEF Cache!Spec

\* Redis holds an outdated version only while its writer has yet to tell it, or
\* failed to, or told it under another key, or when an older version was on its
\* way at the time (Store of cache/redis.go).
THEOREM StaleIsAccounted == Cache!Spec => []StaleOnlyByRace
<1>1. CacheInv => StaleOnlyByRace
  BY DEF CacheInv, StaleInv, Pending, StaleOnlyByRace, Cache!StaleOnlyByRace
<1>2. QED
  BY <1>1, CacheKeepsUp, PTL

\* A read that succeeds has a value of its own target, when no two targets share
\* a singleflight key (fallbackAction of cache/redis.go).
THEOREM AnswersAreForTargets ==
  ASSUME \A s, t \in Target : FlightKey[s] = FlightKey[t] => s = t
  PROVE  Cache!Spec => []AnswerIsForTarget
<1>1. Cache!Init => AnswersInv
  BY DEF Cache!Init, AnswersInv, Making
<1>2. ASSUME CacheInv, AnswersInv, [Cache!Next]_(Cache!vars)
      PROVE  AnswersInv'
  <2>1. /\ ask' = ask /\ \A d \in Call : Cache!T(d)' = Cache!T(d) /\ Cache!T(d) \in Target
    BY <1>2, AskFacts
       DEF Cache!Next, Cache!vars, Cache!T, Cache!Begin, Cache!Run, Cache!Connect,
           Cache!Fail, Cache!Read, Cache!JoinFlight, Cache!Load, Cache!CheckTTL,
           Cache!StoreLoaded, Cache!ExpireLoaded, Cache!FlightFails, Cache!Invalidate,
           Cache!Write, Cache!Expire
  <2>2. ASSUME NEW c \in Call, askedAt[c] \in Making, Cache!Land(c)
        PROVE  AnswersInv'
    <3>1. ask[c].op = "get" /\ val[c] \in Nat /\ val[c] # Nil
      BY <1>2, <2>2, AskFacts DEF CacheInv, PlacesInv, Making
    <3>2. from[c] = Cache!T(c)
      BY <1>2, <2>2, <3>1 DEF AnswersInv
    <3>3. \A d \in Cache!Followers(c) : d \in Call /\ Cache!T(d) = Cache!T(c)
      BY <2>1 DEF Cache!Followers, Cache!SameFlight
    <3>4. /\ \A d \in Call : d # c /\ d \notin Cache!Followers(c) =>
               askedAt'[d] = askedAt[d] /\ val'[d] = val[d] /\ from'[d] = from[d]
          /\ \A d \in Call : d = c \/ d \in Cache!Followers(c) =>
               askedAt'[d] = "done" /\ val'[d] = val[c] /\ from'[d] = from[c]
      BY <2>2 DEF Cache!Land
    <3>5. QED
      BY <1>2, <2>1, <3>1, <3>2, <3>3, <3>4 DEF AnswersInv, Making
  <2>3. ASSUME NEW c \in Call, Cache!Begin(c) \/ Cache!Run(c)
        PROVE  AnswersInv'
    <3>1. CASE Cache!Begin(c) \/ Cache!Connect(c) \/ Cache!Fail(c)
      BY <1>2, <2>1, <3>1
         DEF Cache!Begin, Cache!Connect, Cache!Fail, Cache!Goto, Cache!callVars,
             CacheInv, CacheTypes, AnswersInv, Making
    <3>2. CASE Cache!Read(c) \/ Cache!JoinFlight(c) \/ Cache!Load(c) \/ Cache!CheckTTL(c)
      BY <1>2, <2>1, <3>2
         DEF Cache!Read, Cache!JoinFlight, Cache!Load, Cache!CheckTTL, Cache!Goto,
             Cache!callVars, CacheInv, CacheTypes, AnswersInv, Making
    <3>3. CASE Cache!StoreLoaded(c)
      <4>1. CASE Cache!Goto(c, "expiring") /\ UNCHANGED <<val, from>>
        BY <1>2, <2>1, <3>3, <4>1
           DEF Cache!StoreLoaded, Cache!Goto, CacheInv, CacheTypes, AnswersInv, Making
      <4>2. CASE Cache!Land(c)
        BY <2>2, <3>3, <4>2 DEF Cache!StoreLoaded, Making
      <4>3. QED
        BY <3>3, <4>1, <4>2 DEF Cache!StoreLoaded
    <3>4. CASE Cache!ExpireLoaded(c)
      BY <2>2, <3>4 DEF Cache!ExpireLoaded, Making
    <3>5. CASE Cache!FlightFails(c)
      BY <1>2, <2>1, <3>5
         DEF Cache!FlightFails, Cache!callVars, CacheInv, CacheTypes, AnswersInv, Making
    <3>6. CASE Cache!Invalidate(c) \/ Cache!Write(c)
      <4>1. /\ askedAt' = [askedAt EXCEPT ![c] = "done"] /\ ask[c].op # "get"
            /\ UNCHANGED <<val, from>>
        BY <3>6 DEF Cache!Invalidate, Cache!Write, Cache!Goto, Cache!callVars
      <4>2. QED
        BY <1>2, <2>1, <4>1 DEF CacheInv, CacheTypes, AnswersInv
    <3>7. QED
      BY <2>3, <3>1, <3>2, <3>3, <3>4, <3>5, <3>6 DEF Cache!Run
  <2>4. CASE (\E k \in RedisKey : Cache!Expire(k)) \/ UNCHANGED Cache!vars
    BY <1>2, <2>1, <2>4 DEF Cache!Expire, Cache!callVars, Cache!vars, AnswersInv
  <2>5. QED
    BY <1>2, <2>3, <2>4 DEF Cache!Next
<1>3. AnswersInv => AnswerIsForTarget
  BY DEF AnswersInv, AnswerIsForTarget, Cache!AnswerIsForTarget, Cache!Answered
<1>4. QED
  BY <1>1, <1>2, <1>3, CacheKeepsUp, PTL DEF Cache!Spec
(***************************************************************************)
(* The buffer of recent messages.                                          *)
(***************************************************************************)
\* The buffer is finite, and no message in it is newer than the clock.
BufferInv ==
  /\ clock \in Nat
  /\ IsFiniteSet(Buffer!Held)
  /\ \A id \in Buffer!Held : messages[id] \in Nat /\ messages[id] <= clock

\* Dropping messages leaves the others as they are.
LEMMA WithoutFacts ==
  ASSUME NEW f, NEW S
  PROVE  /\ DOMAIN Buffer!Without(f, S) = DOMAIN f \ S
         /\ \A id \in DOMAIN f \ S : Buffer!Without(f, S)[id] = f[id]
BY DEF Buffer!Without

\* What AddMessage leaves: the new message, and the others, without one of the
\* oldest when they are too many.
LEMMA BufferStores ==
  ASSUME BufferInv, NEW id, Buffer!Store(id)
  PROVE  /\ BufferInv'
         /\ \A x \in Buffer!Held \ DOMAIN messages' :
              \A k \in DOMAIN messages' : messages[x] <= messages'[k]
<1>1. PICK now_ \in clock .. MaxClock :
        LET stored == [k \in Buffer!Held \cup {id} |->
                         IF k = id THEN now_ ELSE messages[k]]
        IN  /\ clock' = now_
            /\ IF Buffer!Cardinality(DOMAIN stored) > MaxSize
                 THEN messages' \in Buffer!EvictOldest(stored)
                 ELSE messages' = stored
  BY DEF Buffer!Store
<1>2. PICK stored : stored = [k \in Buffer!Held \cup {id} |->
                                IF k = id THEN now_ ELSE messages[k]]
  OBVIOUS
<1>3. /\ clock' = now_ /\ now_ \in Nat /\ clock \in Nat /\ clock <= now_
      /\ messages' = stored \/ messages' \in Buffer!EvictOldest(stored)
  BY <1>1, <1>2 DEF BufferInv
<1>4. /\ DOMAIN stored = Buffer!Held \cup {id} /\ stored[id] = now_
      /\ \A k \in Buffer!Held : k # id => stored[k] = messages[k]
  BY <1>2
<1>5. /\ \A k \in Buffer!Held \cup {id} : stored[k] \in Nat /\ stored[k] <= now_
      /\ \A k \in Buffer!Held : messages[k] \in Nat /\ messages[k] <= stored[k]
      /\ IsFiniteSet(DOMAIN stored)
  BY <1>3, <1>4, FS_AddElement DEF BufferInv
<1>6. CASE messages' = stored
  BY <1>3, <1>4, <1>5, <1>6 DEF BufferInv, Buffer!Held
<1>7. CASE messages' \in Buffer!EvictOldest(stored)
  <2>1. PICK x \in Buffer!Oldest(stored), S \in SUBSET Buffer!Oldest(stored) :
          S = {x} \ {NoID} /\ messages' = Buffer!Without(stored, S)
    BY <1>7 DEF Buffer!EvictOldest
  <2>2. /\ DOMAIN messages' = (Buffer!Held \cup {id}) \ ({x} \ {NoID})
        /\ \A k \in DOMAIN messages' : messages'[k] = stored[k]
    <3>1. /\ DOMAIN Buffer!Without(stored, S) = DOMAIN stored \ S
          /\ \A k \in DOMAIN stored \ S : Buffer!Without(stored, S)[k] = stored[k]
      BY WithoutFacts
    <3>2. QED
      BY <1>4, <2>1, <3>1
  <2>3. \A k \in Buffer!Held \cup {id} : stored[x] <= stored[k]
    BY <1>4, <2>1 DEF Buffer!Oldest
  <2>4. IsFiniteSet(DOMAIN messages')
    <3>1. DOMAIN messages' \in SUBSET DOMAIN stored
      BY <1>4, <2>2
    <3>2. QED
      BY <1>5, <3>1, FS_Subset
  <2>5. BufferInv'
    BY <1>3, <1>5, <2>2, <2>4 DEF BufferInv, Buffer!Held
  <2>6. ASSUME NEW y \in Buffer!Held \ DOMAIN messages', NEW k \in DOMAIN messages'
        PROVE  messages[y] <= messages'[k]
    <3>1. y = x
      BY <2>2, <2>6
    <3>2. /\ messages[x] \in Nat /\ messages[x] <= stored[x]
          /\ stored[x] <= stored[k] /\ stored[k] \in Nat /\ stored[x] \in Nat
      BY <1>4, <1>5, <2>2, <2>3, <2>6, <3>1
    <3>3. QED
      BY <2>2, <3>1, <3>2
  <2>7. QED
    BY <2>5, <2>6
<1>8. QED
  BY <1>3, <1>6, <1>7

\* The invariant of the buffer.
LEMMA BufferStep ==
  ASSUME BufferInv, [Buffer!Next]_(Buffer!vars)
  PROVE  BufferInv'
<1>1. CASE \E id \in MessageID : Buffer!AddMessage(id)
  BY <1>1, BufferStores DEF Buffer!AddMessage
<1>2. CASE Buffer!CleanupExpired
  <2>1. PICK now_ \in clock .. MaxClock :
          /\ clock' = now_
          /\ messages' = Buffer!Without(messages,
                           {id \in Buffer!Held : now_ > messages[id] + TTL})
    BY <1>2 DEF Buffer!CleanupExpired
  <2>2. PICK S \in SUBSET Buffer!Held : messages' = Buffer!Without(messages, S)
    BY <2>1
  <2>3. /\ DOMAIN messages' = Buffer!Held \ S
        /\ \A k \in Buffer!Held \ S : messages'[k] = messages[k]
    BY <2>2, WithoutFacts DEF Buffer!Held
  <2>4. IsFiniteSet(DOMAIN messages')
    <3>1. DOMAIN messages' \in SUBSET Buffer!Held
      BY <2>3
    <3>2. QED
      BY <3>1, FS_Subset DEF BufferInv
  <2>5. clock \in Nat /\ clock' \in Nat /\ clock <= clock'
    BY <2>1 DEF BufferInv
  <2>6. QED
    BY <2>3, <2>4, <2>5 DEF BufferInv, Buffer!Held
<1>3. CASE Buffer!Clear
  <2>1. DOMAIN messages' = {} /\ clock' = clock
    BY <1>3 DEF Buffer!Clear
  <2>2. QED
    BY <2>1, FS_EmptySet DEF BufferInv, Buffer!Held
<1>4. CASE (\E id \in MessageID \cup {NoID} : Buffer!GetMessagesSince(id))
             \/ UNCHANGED Buffer!vars
  BY <1>4 DEF Buffer!GetMessagesSince, Buffer!vars, BufferInv, Buffer!Held
<1>5. QED
  BY <1>1, <1>2, <1>3, <1>4 DEF Buffer!Next

\* The inductive invariant of the buffer.
LEMMA BufferHolds == Buffer!Spec => []BufferInv
<1>1. Buffer!Init => BufferInv
  <2>1. Buffer!Init => clock = 0 /\ Buffer!Held = {}
    BY DEF Buffer!Init, Buffer!Held
  <2>2. QED
    BY <2>1, FS_EmptySet DEF BufferInv
<1>2. QED
  BY <1>1, BufferStep, PTL DEF Buffer!Spec

\* A message leaves the buffer when it has expired, with all others, or as an
\* oldest one (AddMessage, evictOldest and CleanupExpired of message_buffer.go).
THEOREM OldestGoFirst == Buffer!Spec => LosesOldestFirst
<1> DEFINE Loss == \A id \in Buffer!Held \ DOMAIN messages' :
                     \/ clock' > messages[id] + TTL
                     \/ DOMAIN messages' = {}
                     \/ \A k \in DOMAIN messages' : messages[id] <= messages'[k]
<1>1. ASSUME BufferInv, [Buffer!Next]_(Buffer!vars)
      PROVE  Loss
  <2>1. CASE \E id \in MessageID : Buffer!AddMessage(id)
    BY <1>1, <2>1, BufferStores DEF Buffer!AddMessage
  <2>2. CASE Buffer!CleanupExpired
    <3>1. PICK now_ \in clock .. MaxClock :
            /\ clock' = now_
            /\ messages' = Buffer!Without(messages,
                             {id \in Buffer!Held : now_ > messages[id] + TTL})
      BY <2>2 DEF Buffer!CleanupExpired
    <3>2. DOMAIN messages' = Buffer!Held \ {id \in Buffer!Held : now_ > messages[id] + TTL}
      BY <3>1, WithoutFacts DEF Buffer!Held
    <3>3. QED
      BY <3>1, <3>2
  <2>3. CASE Buffer!Clear
    BY <2>3 DEF Buffer!Clear
  <2>4. CASE (\E id \in MessageID \cup {NoID} : Buffer!GetMessagesSince(id))
               \/ UNCHANGED Buffer!vars
    BY <2>4 DEF Buffer!GetMessagesSince, Buffer!vars, Buffer!Held
  <2>5. QED
    BY <1>1, <2>1, <2>2, <2>3, <2>4 DEF Buffer!Next
<1>2. QED
  BY <1>1, BufferHolds, PTL DEF Buffer!Spec, LosesOldestFirst, Buffer!LosesOldestFirst

\* Ranging over the map meets every message, and each one once.
LEMMA OrdersMeetAll ==
  ASSUME NEW S, IsFiniteSet(S), NEW o \in Buffer!Orders(S)
  PROVE  /\ o \in [1 .. Cardinality(S) -> S]
         /\ \A i, j \in 1 .. Cardinality(S) : i # j => o[i] # o[j]
         /\ \A x \in S : \E i \in 1 .. Cardinality(S) : o[i] = x
<1>1. Buffer!Cardinality(S) = Cardinality(S)
  BY DEF Buffer!Cardinality, Cardinality, Buffer!IsFiniteSet, IsFiniteSet
<1>2. PICK n : n = Cardinality(S)
  OBVIOUS
<1>3. n \in Nat
  BY <1>2, FS_CardinalityType
<1>4. o \in [1 .. n -> S] /\ \A i, j \in 1 .. n : i # j => o[i] # o[j]
  BY <1>1, <1>2 DEF Buffer!Orders
<1>5. o \in Injection(1 .. n, S)
  BY <1>4 DEF Injection, IsInjective
<1>6. IsFiniteSet(1 .. n) /\ Cardinality(1 .. n) = n
  <2>1. 1 \in Int /\ n \in Int
    BY <1>3
  <2>2. /\ IsFiniteSet(1 .. n)
        /\ Cardinality(1 .. n) = IF 1 > n THEN 0 ELSE n - 1 + 1
    BY <2>1, FS_Interval
  <2>3. QED
    BY <1>3, <2>2
<1>7. o \in Surjection(1 .. n, S)
  BY <1>2, <1>5, <1>6, FS_Injection
<1>8. QED
  BY <1>2, <1>4, <1>7 DEF Surjection

\* A replay is of what is buffered, all of it when no ID is given, and never the
\* message it starts from (GetMessagesSince of message_buffer.go).
THEOREM ReplaysTheBuffer == Buffer!Spec => ReplayIsOfTheBuffer
<1> DEFINE Right == replay' # replay =>
                      /\ replay'.got \subseteq Buffer!Held
                      /\ IF replay'.since = NoID
                         THEN replay'.got = Buffer!Held
                         ELSE replay'.since \notin replay'.got
<1>1. ASSUME BufferInv, [Buffer!Next]_(Buffer!vars)
      PROVE  Right
  <2>1. ASSUME NEW id, Buffer!GetMessagesSince(id)
        PROVE  Right
    <3>1. PICK o \in Buffer!Orders(Buffer!Held) :
            replay' = [since |-> id, got |-> Buffer!Since(id, o)]
      BY <2>1 DEF Buffer!GetMessagesSince
    <3>2. PICK n : n = Cardinality(Buffer!Held)
      OBVIOUS
    <3>3. /\ n \in Nat /\ o \in [1 .. n -> Buffer!Held]
          /\ \A i, j \in 1 .. n : i # j => o[i] # o[j]
          /\ \A x \in Buffer!Held : \E i \in 1 .. n : o[i] = x
      BY <1>1, <3>2, OrdersMeetAll, FS_CardinalityType DEF BufferInv
    <3>4. Buffer!Since(id, o) \subseteq Buffer!Held
      BY <3>3 DEF Buffer!Since
    <3>5. id = NoID => Buffer!Since(id, o) = Buffer!Held
      BY <3>3, <3>4 DEF Buffer!Since
    <3>6. ASSUME id # NoID
          PROVE  id \notin Buffer!Since(id, o)
      <4>1. SUFFICES ASSUME NEW j \in 1 .. n, NEW i \in 1 .. j - 1, o[i] = id, o[j] = id
                     PROVE  FALSE
        BY <3>3, <3>6 DEF Buffer!Since
      <4>2. i \in 1 .. n /\ i # j
        BY <3>3
      <4>3. QED
        BY <3>3, <4>1, <4>2
    <3>7. replay'.since = id /\ replay'.got = Buffer!Since(id, o)
      BY <3>1
    <3>8. QED
      BY <3>4, <3>5, <3>6, <3>7
  <2>2. CASE replay' = replay
    BY <2>2
  <2>3. QED
    BY <1>1, <2>1, <2>2 DEF Buffer!Next, Buffer!AddMessage, Buffer!CleanupExpired,
                            Buffer!Clear, Buffer!vars
<1>2. QED
  BY <1>1, BufferHolds, PTL DEF Buffer!Spec, ReplayIsOfTheBuffer,
                               Buffer!ReplayIsOfTheBuffer

(***************************************************************************)
(* The stores side by side.                                                *)
(***************************************************************************)
\* Every behaviour that the run explores is one of the specifications above.
THEOREM StoresRunTheStores ==
  StoresSpec => Spec /\ LRU!Spec /\ Stmts!Spec /\ Buffer!Spec /\ Cache!Spec
<1>1. StoresInit => Init /\ LRU!Init /\ Stmts!Init /\ Buffer!Init /\ Cache!Init
  BY DEF StoresInit
<1>2. ASSUME [StoresNext]_storeVars
      PROVE  /\ [Next]_vars /\ [LRU!Next]_(LRU!vars) /\ [Stmts!Next]_(Stmts!vars)
             /\ [Buffer!Next]_(Buffer!vars) /\ [Cache!Next]_(Cache!vars)
  BY <1>2 DEF StoresNext, storeVars, mapVars, lruVars, stmtVars, bufferVars, cacheVars,
              vars, LRU!vars, Stmts!vars, Buffer!vars, Cache!vars
<1>3. QED
  BY <1>1, <1>2, PTL DEF StoresSpec, Spec, LRU!Spec, Stmts!Spec, Buffer!Spec, Cache!Spec
=============================================================================
