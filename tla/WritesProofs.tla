----------------------------- MODULE WritesProofs -----------------------------
(***************************************************************************)
(* Proofs about the repository layer, for any number of callers, tables,   *)
(* pooled requests and calls.                                              *)
(***************************************************************************)
EXTENDS Writes, SequenceLemmas, FiniteSetTheorems, WellFoundedInduction

Places == {"idle", "reading", "writing", "returning"}
Effects == [cleared : BOOLEAN, added : Nat]

CallerTypes ==
  /\ pc \in [Caller -> Places]
  /\ action \in [Caller -> Operations \cup {Nil}]
  /\ held \in [Caller -> Seq(Request)]
  /\ trx \in [Caller -> BOOLEAN]
  /\ failed \in [Caller -> BOOLEAN]
  /\ raced \in [Caller -> BOOLEAN]
  /\ DOMAIN sent = Caller
  /\ DOMAIN request = Request
  /\ calls \in 0 .. MaxCalls

\* A caller that is not idle has a call.
CallsInv ==
  /\ DOMAIN call = Caller
  /\ \A c \in Caller : pc[c] # "idle" =>
       call[c] \in CallRecord /\ IsFiniteSet(call[c].conds)

DataTypes ==
  /\ rows \in [Table -> Nat]
  /\ follower \in [Table -> Nat]
  /\ pending \in [Caller -> [Table -> Effects]]

CallerInv == CallerTypes /\ CallsInv /\ DataTypes

\* Rows are counted in natural numbers, and effects follow one another.
LEMMA EffectFacts ==
  ASSUME NEW n \in Nat, NEW e \in Effects, NEW f \in Effects
  PROVE  /\ Apply(n, e) \in Nat /\ Then(e, f) \in Effects
         /\ Apply(n, Then(e, f)) = Apply(Apply(n, e), f)
BY DEF Effects, Apply, Then

\* A statement of a call has an effect on its table.
LEMMA EffectType ==
  ASSUME CallerInv, NEW c \in Caller, pc[c] # "idle"
  PROVE  Effect(c) \in Effects /\ NoEffect \in Effects /\ call[c].table \in Table
<1>1. call[c] \in CallRecord
  BY DEF CallerInv, CallsInv
<1>2. call[c].rows \in Seq(Struct) /\ call[c].table \in Table
  BY <1>1 DEF CallRecord
<1>3. Len(call[c].rows) \in Nat
  BY <1>2, LenProperties
<1>4. QED
  BY <1>2, <1>3 DEF Effect, NoEffect, Effects

\* The calls that may be made.
LEMMA CallsFacts ==
  ASSUME calls \in 0 .. MaxCalls, calls < MaxCalls, NEW k \in Calls[calls + 1]
  PROVE  k \in CallRecord /\ IsFiniteSet(k.conds) /\ calls + 1 \in 0 .. MaxCalls
<1>1. Calls \in Seq(SUBSET CallRecord)
  BY WritesAssumption
<1>2. MaxCalls \in Nat /\ DOMAIN Calls = 1 .. MaxCalls
  BY <1>1, LenProperties DEF MaxCalls
<1>3. calls + 1 \in 1 .. MaxCalls
  BY <1>2
<1>4. Calls[calls + 1] \in SUBSET CallRecord
  BY <1>1, <1>2, <1>3, ElementOfSeq
<1>5. QED
  BY <1>2, <1>3, <1>4, WritesAssumption

\* What a write changes, besides its statement and the caches: it ends, and has
\* no effect, one in the transaction, or one that others can see.
LEMMA WriteFacts ==
  ASSUME CallerInv, NEW c \in Caller, NEW order, Write(c, order)
  PROVE  /\ UNCHANGED <<request, pool, call, action, held, trx, calls, follower>>
         /\ pc' = [pc EXCEPT ![c] = "returning"]
         /\ \E r : failed' = [failed EXCEPT ![c] = @ \/ r # "ok"]
         /\ DOMAIN sent' = Caller
         /\ \/ UNCHANGED <<rows, pending, raced>>
            \/ /\ trx[c] /\ UNCHANGED <<rows, raced>>
               /\ pending' = [pending EXCEPT
                    ![c][call[c].table] = Then(@, Effect(c))]
            \/ /\ ~trx[c] /\ UNCHANGED pending /\ OutrunOthers(c)
               /\ rows' = [rows EXCEPT ![call[c].table] = Apply(@, Effect(c))]
BY Zenon DEF Write, Ends, Goto, data, OnTrx, CallerInv, CallerTypes

\* A call of Count or a read only ends, or goes on.
LEMMA ReadFacts ==
  ASSUME CallerInv, NEW c \in Caller, ReadBy(c)
  PROVE  /\ pc[c] = "reading" /\ call[c].op \in Reads
         /\ UNCHANGED <<request, pool, action, held, trx, calls, rows, follower, pending,
                        raced>>
         /\ \/ /\ call[c].op = "count" /\ pc' = pc /\ failed' = failed
               /\ call' = [call EXCEPT ![c].set = @ \ {"Page"}]
            \/ /\ pc' = [pc EXCEPT ![c] = "returning"] /\ call' = call
               /\ \E r : failed' = [failed EXCEPT ![c] = @ \/ r # "ok"]
         /\ DOMAIN sent' = Caller
BY Zenon DEF ReadBy, Ends, Goto, data, CallerInv, CallerTypes

\* A call of CallRecord that looks up no page is one.
LEMMA WithoutPage ==
  ASSUME NEW k \in CallRecord
  PROVE  [k EXCEPT !.set = @ \ {"Page"}] \in CallRecord
BY DEF CallRecord

\* A failure is remembered as a boolean.
LEMMA FailedType ==
  ASSUME failed \in [Caller -> BOOLEAN], NEW c \in Caller, NEW r,
         failed' = [failed EXCEPT ![c] = @ \/ r # "ok"]
  PROVE  failed' \in [Caller -> BOOLEAN]
OBVIOUS

\* Upsert's count: it ends, or decides by the number of rows it was told.
LEMMA CountFacts ==
  ASSUME CallerInv, NEW c \in Caller, Count(c)
  PROVE  /\ pc[c] = "reading" /\ call[c].op = "upsert"
         /\ UNCHANGED <<queries, call, trx, calls, rows, follower, pending>>
         /\ DOMAIN sent' = Caller
         /\ \/ /\ UNCHANGED <<request, pool, held, action, raced>>
               /\ pc' = [pc EXCEPT ![c] = "returning"]
               /\ \E r : failed' = [failed EXCEPT ![c] = @ \/ r # "ok"]
            \/ /\ UNCHANGED failed
               /\ pc' = [pc EXCEPT ![c] = "writing"]
               /\ raced' = [raced EXCEPT ![c] =
                     follower[call[c].table] # Visible(c)[call[c].table]]
               /\ action' = [action EXCEPT ![c] = Decide(follower[call[c].table])]
               /\ \/ UNCHANGED <<request, pool, held>> /\ action'[c] # "update"
                  \/ /\ action'[c] = "update"
                     /\ \E o \in Request : \E conds \in SetToSeqs(call[c].conds) :
                          Take(c, o, WithConditions(Obtained(o), conds, TRUE))
BY Zenon DEF Count, Ends, Goto, CallerInv, CallerTypes

\* Taking a request appends it to those the caller holds.
LEMMA TakeFacts ==
  ASSUME CallerTypes, NEW c \in Caller, NEW o \in Request, NEW req, Take(c, o, req)
  PROVE  /\ DOMAIN request' = Request /\ held' \in [Caller -> Seq(Request)]
         /\ \A d \in Caller : d # c => held'[d] = held[d]
         /\ held'[c] = Append(held[c], o) /\ held'[c] \in Seq(Request)
         /\ request'[o] = req /\ \A p \in Request : p # o => request'[p] = request[p]
         /\ o \notin InUse
<1>1. Append(held[c], o) \in Seq(Request)
  BY AppendProperties DEF CallerTypes
<1>2. QED
  BY <1>1 DEF Take, CallerTypes

\* Every step keeps the types of the callers, their calls and the databases.
LEMMA CallerStep ==
  ASSUME CallerInv, [Next]_vars
  PROVE  CallerInv'
<1>1. ASSUME NEW c \in Caller, BeginTrx(c)
      PROVE  CallerInv'
  BY <1>1 DEF BeginTrx, shared, data, CallerInv, CallerTypes, CallsInv, DataTypes
<1>2. ASSUME NEW c \in Caller, FinishTrx(c)
      PROVE  CallerInv'
  <2>1. /\ UNCHANGED <<shared, pc, call, action, held, sent, calls, follower>>
        /\ trx' = [trx EXCEPT ![c] = FALSE] /\ failed' = [failed EXCEPT ![c] = FALSE]
        /\ pending' = [pending EXCEPT ![c] = [t \in Table |-> NoEffect]]
        /\ rows' = rows \/ rows' = Visible(c)
        /\ OutrunOthers(c)
    BY <1>2 DEF FinishTrx
  <2>2. CallerTypes'
    BY <2>1 DEF shared, OutrunOthers, CallerInv, CallerTypes
  <2>3. CallsInv'
    BY <2>1 DEF CallerInv, CallsInv
  <2>4. Visible(c) \in [Table -> Nat]
    BY EffectFacts DEF Visible, CallerInv, DataTypes
  <2>5. NoEffect \in Effects
    BY DEF NoEffect, Effects
  <2>6. DataTypes'
    BY <2>1, <2>4, <2>5 DEF CallerInv, DataTypes
  <2>7. QED
    BY <2>2, <2>3, <2>6 DEF CallerInv
<1>3. ASSUME NEW c \in Caller, Begin(c)
      PROVE  CallerInv'
  <2>1. PICK k \in Calls[calls + 1] :
          /\ pc[c] = "idle" /\ calls < MaxCalls /\ calls' = calls + 1
          /\ call' = [call EXCEPT ![c] = k]
          /\ action' = [action EXCEPT ![c] = k.op]
          /\ \/ UNCHANGED <<request, pool, held>>
             \/ \E o \in Request : \E req : Take(c, o, req)
          /\ pc' = [pc EXCEPT ![c] = IF k.op \in Reads \cup {"upsert"}
                                     THEN "reading" ELSE "writing"]
          /\ UNCHANGED <<queries, sent, result, trx, failed, data>>
    BY <1>3 DEF Begin, Goto
  <2>2. k \in CallRecord /\ IsFiniteSet(k.conds) /\ calls + 1 \in 0 .. MaxCalls
    BY <2>1, CallsFacts DEF CallerInv, CallerTypes
  <2>3. k.op \in Operations
    BY <2>2 DEF CallRecord
  <2>4. DOMAIN request' = Request /\ held' \in [Caller -> Seq(Request)]
    BY <2>1, TakeFacts DEF CallerInv, CallerTypes
  <2>5. CallerTypes'
    BY <2>1, <2>2, <2>3, <2>4 DEF data, CallerInv, CallerTypes, Places
  <2>6. CallsInv'
    BY <2>1, <2>2 DEF CallerInv, CallerTypes, CallsInv
  <2>7. DataTypes'
    BY <2>1 DEF data, CallerInv, DataTypes
  <2>8. QED
    BY <2>5, <2>6, <2>7 DEF CallerInv
<1>4. ASSUME NEW c \in Caller, ReadBy(c)
      PROVE  CallerInv'
  <2>1. /\ pc[c] = "reading" /\ call[c].op \in Reads
        /\ UNCHANGED <<request, pool, action, held, trx, calls, rows, follower, pending,
                       raced>>
        /\ \/ /\ pc' = pc /\ failed' = failed
              /\ call' = [call EXCEPT ![c].set = @ \ {"Page"}]
           \/ /\ pc' = [pc EXCEPT ![c] = "returning"] /\ call' = call
              /\ \E r : failed' = [failed EXCEPT ![c] = @ \/ r # "ok"]
        /\ DOMAIN sent' = Caller
    BY <1>4, ReadFacts
  <2>2. failed' \in [Caller -> BOOLEAN]
    BY <2>1, FailedType DEF CallerInv, CallerTypes
  <2>3. CallerTypes' /\ DataTypes'
    BY <2>1, <2>2 DEF CallerInv, CallerTypes, DataTypes, Places
  <2>4. call[c] \in CallRecord /\ IsFiniteSet(call[c].conds)
    BY <2>1 DEF CallerInv, CallsInv
  <2>5. PICK k \in CallRecord : k = call[c]
    BY <2>4
  <2>6. /\ [k EXCEPT !.set = @ \ {"Page"}] \in CallRecord
        /\ [k EXCEPT !.set = @ \ {"Page"}].conds = k.conds
    BY WithoutPage DEF CallRecord
  <2>7. CallsInv'
    BY <2>1, <2>4, <2>5, <2>6 DEF CallerInv, CallerTypes, CallsInv
  <2>8. QED
    BY <2>3, <2>7 DEF CallerInv
<1>5. ASSUME NEW c \in Caller, Count(c)
      PROVE  CallerInv'
  <2>1. /\ pc[c] = "reading" /\ UNCHANGED <<queries, call, trx, calls, rows, follower, pending>>
        /\ DOMAIN sent' = Caller
        /\ \/ /\ UNCHANGED <<request, pool, held, action, raced>>
              /\ pc' = [pc EXCEPT ![c] = "returning"]
              /\ \E r : failed' = [failed EXCEPT ![c] = @ \/ r # "ok"]
           \/ /\ UNCHANGED failed
              /\ pc' = [pc EXCEPT ![c] = "writing"]
              /\ raced' = [raced EXCEPT ![c] =
                    follower[call[c].table] # Visible(c)[call[c].table]]
              /\ action' = [action EXCEPT ![c] = Decide(follower[call[c].table])]
              /\ \/ UNCHANGED <<request, pool, held>>
                 \/ \E o \in Request : \E req : Take(c, o, req)
    BY <1>5, CountFacts
  <2>2. failed' \in [Caller -> BOOLEAN]
    BY <2>1, FailedType DEF CallerInv, CallerTypes
  <2>3. /\ action' \in [Caller -> Operations \cup {Nil}] /\ raced' \in [Caller -> BOOLEAN]
        /\ pc' \in [Caller -> Places]
    BY <2>1 DEF CallerInv, CallerTypes, Decide, Operations, Places
  <2>4. DOMAIN request' = Request /\ held' \in [Caller -> Seq(Request)]
    BY <2>1, TakeFacts DEF CallerInv, CallerTypes
  <2>5. CallerTypes' /\ DataTypes'
    BY <2>1, <2>2, <2>3, <2>4 DEF CallerInv, CallerTypes, DataTypes
  <2>6. CallsInv'
    BY <2>1 DEF CallerInv, CallerTypes, CallsInv
  <2>7. QED
    BY <2>5, <2>6 DEF CallerInv
<1>6. ASSUME NEW c \in Caller, NEW order, pc[c] = "writing", Write(c, order)
      PROVE  CallerInv'
  <2>1. /\ UNCHANGED <<request, pool, call, action, held, trx, calls, follower>>
        /\ pc' = [pc EXCEPT ![c] = "returning"]
        /\ \E r : failed' = [failed EXCEPT ![c] = @ \/ r # "ok"]
        /\ DOMAIN sent' = Caller
        /\ \/ UNCHANGED <<rows, pending, raced>>
           \/ /\ trx[c] /\ UNCHANGED <<rows, raced>>
              /\ pending' = [pending EXCEPT ![c][call[c].table] = Then(@, Effect(c))]
           \/ /\ ~trx[c] /\ UNCHANGED pending /\ OutrunOthers(c)
              /\ rows' = [rows EXCEPT ![call[c].table] = Apply(@, Effect(c))]
    BY <1>6, WriteFacts
  <2>2. failed' \in [Caller -> BOOLEAN]
    BY <2>1, FailedType DEF CallerInv, CallerTypes
  <2>3. raced' \in [Caller -> BOOLEAN] /\ pc' \in [Caller -> Places]
    BY <2>1 DEF OutrunOthers, CallerInv, CallerTypes, Places
  <2>4. PICK e \in Effects, t \in Table : e = Effect(c) /\ t = call[c].table
    BY <1>6, EffectType
  <2>5. /\ pending[c][t] \in Effects /\ rows[t] \in Nat
        /\ Then(pending[c][t], e) \in Effects /\ Apply(rows[t], e) \in Nat
    BY EffectFacts DEF CallerInv, DataTypes
  <2>6. DataTypes'
    BY <2>1, <2>4, <2>5 DEF CallerInv, DataTypes
  <2>7. CallerTypes' /\ CallsInv'
    BY <1>6, <2>1, <2>2, <2>3 DEF CallerInv, CallerTypes, CallsInv
  <2>8. QED
    BY <2>6, <2>7 DEF CallerInv
<1>7. ASSUME NEW c \in Caller, Return(c)
      PROVE  CallerInv'
  <2>1. /\ DOMAIN request' = Request /\ held' = [held EXCEPT ![c] = <<>>]
        /\ pc' = [pc EXCEPT ![c] = "idle"] /\ call' = [call EXCEPT ![c] = Nil]
        /\ action' = [action EXCEPT ![c] = Nil] /\ sent' = [sent EXCEPT ![c] = Nil]
        /\ raced' = [raced EXCEPT ![c] = FALSE]
        /\ failed' = [failed EXCEPT ![c] = @ /\ trx[c]]
        /\ UNCHANGED <<queries, trx, calls, rows, follower, pending>>
    BY <1>7 DEF Return, PutAll, Goto
  <2>2. <<>> \in Seq(Request)
    BY EmptySeq
  <2>3. CallerTypes'
    BY <2>1, <2>2 DEF CallerInv, CallerTypes, Places
  <2>4. CallsInv' /\ DataTypes'
    BY <2>1 DEF CallerInv, CallerTypes, CallsInv, DataTypes
  <2>5. QED
    BY <2>3, <2>4 DEF CallerInv
<1>8. CASE Replicate
  BY <1>8 DEF Replicate, shared, CallerInv, CallerTypes, CallsInv, DataTypes
<1>9. CASE UNCHANGED vars
  BY <1>9 DEF vars, CallerInv, CallerTypes, CallsInv, DataTypes
<1>10. QED
  BY <1>1, <1>2, <1>3, <1>4, <1>5, <1>6, <1>7, <1>8, <1>9 DEF Next

\* The types hold at the start.
LEMMA CallerStarts == Init => CallerInv
<1>1. <<>> \in Seq(Request) /\ NoEffect \in Effects /\ MaxCalls \in Nat
  BY EmptySeq, LenProperties, WritesAssumption DEF NoEffect, Effects, MaxCalls
<1>2. QED
  BY <1>1 DEF Init, CallerInv, CallerTypes, CallsInv, DataTypes, Places

\* Nothing of a transaction shows before it is committed: rows change by a write
\* outside of one, or when one ends that met no error (SQL.Write and DeleteById).
THEOREM OnlyCommitsShow == Spec => NothingBeforeCommit
<1> DEFINE Shown == rows' # rows => \E c \in Caller :
                                      \/ pc[c] = "writing" /\ ~trx[c]
                                      \/ trx[c] /\ ~trx'[c] /\ ~failed[c]
<1>1. ASSUME CallerInv, [Next]_vars
      PROVE  Shown
  <2>1. ASSUME NEW c \in Caller, FinishTrx(c)
        PROVE  Shown
    BY <1>1, <2>1 DEF FinishTrx, CallerInv, CallerTypes
  <2>2. ASSUME NEW c \in Caller, NEW order, pc[c] = "writing", Write(c, order)
        PROVE  Shown
    BY <1>1, <2>2, WriteFacts
  <2>3. ASSUME NEW c \in Caller, BeginTrx(c) \/ Begin(c) \/ ReadBy(c) \/ Count(c) \/ Return(c)
        PROVE  rows' = rows
    BY <1>1, <2>3, ReadFacts, CountFacts DEF BeginTrx, Begin, Return, data
  <2>4. CASE Replicate \/ UNCHANGED vars
    BY <2>4 DEF Replicate, vars
  <2>5. QED
    BY <1>1, <2>1, <2>2, <2>3, <2>4 DEF Next
<1>2. QED
  BY <1>1, CallerStarts, CallerStep, PTL DEF Spec, NothingBeforeCommit

\* A step that leaves what an Upsert decided, and the rows it decided by, alone
\* leaves it right, if it was; rows that others change outrun it.
LEMMA DecisionStays ==
  ASSUME CallerInv, UpsertErrsOnlyByRace, NEW d \in Caller,
         pc[d] = "writing", call'[d] = call[d], action'[d] = action[d],
         pending'[d] = pending[d],
         \/ rows'[call[d].table] = rows[call[d].table] /\ raced'[d] = raced[d]
         \/ raced'[d],
         call'[d].op = "upsert", ~raced'[d]
  PROVE  action'[d] = "insert" <=> Visible(d)'[call'[d].table] = 0
<1>1. call[d] \in CallRecord
  BY DEF CallerInv, CallsInv
<1>2. PICK t \in Table : t = call[d].table
  BY <1>1 DEF CallRecord
<1>3. Visible(d)[t] = Visible(d)'[t]
  BY <1>2 DEF Visible
<1>4. action[d] = "insert" <=> Visible(d)[t] = 0
  BY <1>2 DEF UpsertErrsOnlyByRace
<1>5. QED
  BY <1>2, <1>3, <1>4

\* An Upsert errs only by a race: it inserts a row that is there, or updates one
\* that is not, only when it was outrun, or misled by the follower (Upsert of
\* database/action/write.go).
THEOREM UpsertsAreRight == Spec => []UpsertErrsOnlyByRace
<1> DEFINE Right(c) == pc[c] = "writing" /\ call[c].op = "upsert" /\ ~raced[c] =>
                         (action[c] = "insert" <=> Visible(c)[call[c].table] = 0)
<1>1. Init => UpsertErrsOnlyByRace
  BY DEF Init, UpsertErrsOnlyByRace
<1>2. ASSUME CallerInv, UpsertErrsOnlyByRace, [Next]_vars
      PROVE  UpsertErrsOnlyByRace'
  <2>1. ASSUME NEW d \in Caller, pc'[d] = "writing", pc[d] = "writing",
               call'[d] = call[d], action'[d] = action[d], pending'[d] = pending[d],
               \/ rows'[call[d].table] = rows[call[d].table] /\ raced'[d] = raced[d]
               \/ raced'[d]
        PROVE  Right(d)'
    BY <1>2, <2>1, DecisionStays
  <2>2. ASSUME NEW c \in Caller, BeginTrx(c)
        PROVE  UpsertErrsOnlyByRace'
    <3>1. \A d \in Caller : Right(d)'
      BY <1>2, <2>1, <2>2 DEF BeginTrx, data, Visible, UpsertErrsOnlyByRace
    <3>2. QED
      BY <3>1 DEF UpsertErrsOnlyByRace
  <2>3. ASSUME NEW c \in Caller, FinishTrx(c)
        PROVE  UpsertErrsOnlyByRace'
    <3>1. /\ pc[c] = "idle" /\ pc' = pc /\ call' = call /\ action' = action
          /\ \A d \in Caller : d # c => pending'[d] = pending[d]
          /\ OutrunOthers(c)
      BY <1>2, <2>3 DEF FinishTrx, CallerInv, DataTypes
    <3>2. ASSUME NEW d \in Caller
          PROVE  Right(d)'
      <4>1. CASE pc[d] = "writing"
        <5>1. d # c /\ pc'[d] = "writing"
          BY <3>1, <4>1
        <5>2. raced'[d] = (raced[d] \/ rows'[call[d].table] # rows[call[d].table])
          BY <3>1, <4>1, <5>1 DEF OutrunOthers
        <5>3. raced[d] \in BOOLEAN
          BY <1>2 DEF CallerInv, CallerTypes
        <5>4. \/ rows'[call[d].table] = rows[call[d].table] /\ raced'[d] = raced[d]
              \/ raced'[d]
          BY <5>2, <5>3
        <5>5. QED
          BY <2>1, <3>1, <4>1, <5>1, <5>4
      <4>2. CASE pc[d] # "writing"
        BY <3>1, <4>2
      <4>3. QED
        BY <4>1, <4>2
    <3>3. QED
      BY <3>2 DEF UpsertErrsOnlyByRace
  <2>4. ASSUME NEW c \in Caller, Begin(c)
        PROVE  UpsertErrsOnlyByRace'
    <3>1. PICK k \in Calls[calls + 1] :
            /\ pc[c] = "idle" /\ call' = [call EXCEPT ![c] = k]
            /\ action' = [action EXCEPT ![c] = k.op]
            /\ pc' = [pc EXCEPT ![c] = IF k.op \in Reads \cup {"upsert"}
                                       THEN "reading" ELSE "writing"]
            /\ UNCHANGED data
      BY <2>4 DEF Begin, Goto
    <3>2. ASSUME NEW d \in Caller
          PROVE  Right(d)'
      <4>1. CASE d = c
        BY <1>2, <3>1, <4>1 DEF CallerInv, CallerTypes, CallsInv
      <4>2. CASE d # c
        <5>1. pc'[d] = pc[d] /\ call'[d] = call[d] /\ action'[d] = action[d]
          BY <1>2, <3>1, <4>2 DEF CallerInv, CallerTypes, CallsInv
        <5>2. QED
          BY <2>1, <3>1, <5>1 DEF data
      <4>3. QED
        BY <4>1, <4>2
    <3>3. QED
      BY <3>2 DEF UpsertErrsOnlyByRace
  <2>5. ASSUME NEW c \in Caller, ReadBy(c)
        PROVE  UpsertErrsOnlyByRace'
    <3>1. /\ pc[c] = "reading"
          /\ UNCHANGED <<action, rows, pending, raced>>
          /\ \/ pc' = pc /\ call' = [call EXCEPT ![c].set = @ \ {"Page"}]
             \/ pc' = [pc EXCEPT ![c] = "returning"] /\ call' = call
      BY <1>2, <2>5, ReadFacts
    <3>2. ASSUME NEW d \in Caller
          PROVE  Right(d)'
      <4>1. CASE d = c
        BY <1>2, <3>1, <4>1 DEF CallerInv, CallerTypes
      <4>2. CASE d # c
        <5>1. pc'[d] = pc[d] /\ call'[d] = call[d]
          BY <1>2, <3>1, <4>2 DEF CallerInv, CallerTypes, CallsInv
        <5>2. QED
          BY <2>1, <3>1, <5>1
      <4>3. QED
        BY <4>1, <4>2
    <3>3. QED
      BY <3>2 DEF UpsertErrsOnlyByRace
  <2>6. ASSUME NEW c \in Caller, Count(c)
        PROVE  UpsertErrsOnlyByRace'
    <3>1. /\ pc[c] = "reading" /\ UNCHANGED <<call, rows, follower, pending>>
          /\ \/ UNCHANGED <<action, raced>> /\ pc' = [pc EXCEPT ![c] = "returning"]
             \/ /\ pc' = [pc EXCEPT ![c] = "writing"]
                /\ raced' = [raced EXCEPT ![c] =
                      follower[call[c].table] # Visible(c)[call[c].table]]
                /\ action' = [action EXCEPT ![c] = Decide(follower[call[c].table])]
      BY <1>2, <2>6, CountFacts
    <3>2. PICK t \in Table : t = call[c].table
      BY <1>2, <3>1, EffectType
    <3>3. follower[t] \in Nat /\ Visible(c)' = Visible(c)
      BY <1>2, <3>1 DEF CallerInv, DataTypes, Visible
    <3>4. CASE UNCHANGED <<action, raced>> /\ pc' = [pc EXCEPT ![c] = "returning"]
      <4>1. ASSUME NEW d \in Caller
            PROVE  Right(d)'
        BY <1>2, <2>1, <3>1, <3>4 DEF CallerInv, CallerTypes
      <4>2. QED
        BY <4>1 DEF UpsertErrsOnlyByRace
    <3>5. CASE /\ pc' = [pc EXCEPT ![c] = "writing"]
               /\ raced' = [raced EXCEPT ![c] = follower[t] # Visible(c)[t]]
               /\ action' = [action EXCEPT ![c] = Decide(follower[t])]
      <4>1. Right(c)'
        <5>1. raced'[c] = (follower[t] # Visible(c)[t]) /\ action'[c] = Decide(follower[t])
          BY <1>2, <3>5 DEF CallerInv, CallerTypes
        <5>2. Visible(c)'[call'[c].table] = Visible(c)[t]
          BY <3>1, <3>2, <3>3
        <5>3. SUFFICES ASSUME ~raced'[c]
                       PROVE  action'[c] = "insert" <=> Visible(c)[t] = 0
          BY <5>2
        <5>4. Visible(c)[t] = follower[t]
          BY <5>1, <5>3
        <5>5. QED
          BY <3>3, <5>1, <5>4 DEF Decide
      <4>2. ASSUME NEW d \in Caller, d # c
            PROVE  Right(d)'
        <5>1. pc'[d] = pc[d] /\ raced'[d] = raced[d] /\ action'[d] = action[d]
          BY <1>2, <3>5, <4>2 DEF CallerInv, CallerTypes
        <5>2. QED
          BY <2>1, <3>1, <5>1
      <4>3. QED
        BY <4>1, <4>2 DEF UpsertErrsOnlyByRace
    <3>6. QED
      BY <3>1, <3>2, <3>4, <3>5
  <2>7. ASSUME NEW c \in Caller, NEW order, pc[c] = "writing", Write(c, order)
        PROVE  UpsertErrsOnlyByRace'
    <3>1. /\ call' = call /\ action' = action /\ pc' = [pc EXCEPT ![c] = "returning"]
          /\ \A d \in Caller : d # c => pending'[d] = pending[d]
          /\ UNCHANGED <<rows, raced>> \/ OutrunOthers(c)
      BY <1>2, <2>7, WriteFacts DEF CallerInv, DataTypes
    <3>2. ASSUME NEW d \in Caller
          PROVE  Right(d)'
      <4>1. CASE d = c \/ pc[d] # "writing"
        BY <1>2, <3>1, <4>1 DEF CallerInv, CallerTypes
      <4>2. CASE d # c /\ pc[d] = "writing"
        <5>1. pc'[d] = "writing" /\ raced[d] \in BOOLEAN
          BY <1>2, <3>1, <4>2 DEF CallerInv, CallerTypes
        <5>2. \/ rows'[call[d].table] = rows[call[d].table] /\ raced'[d] = raced[d]
              \/ raced'[d]
          BY <3>1, <4>2, <5>1 DEF OutrunOthers
        <5>3. QED
          BY <2>1, <3>1, <4>2, <5>1, <5>2
      <4>3. QED
        BY <4>1, <4>2
    <3>3. QED
      BY <3>2 DEF UpsertErrsOnlyByRace
  <2>8. ASSUME NEW c \in Caller, Return(c)
        PROVE  UpsertErrsOnlyByRace'
    <3>1. /\ pc' = [pc EXCEPT ![c] = "idle"] /\ call' = [call EXCEPT ![c] = Nil]
          /\ action' = [action EXCEPT ![c] = Nil] /\ raced' = [raced EXCEPT ![c] = FALSE]
          /\ UNCHANGED <<rows, pending>>
      BY <2>8 DEF Return, Goto
    <3>2. ASSUME NEW d \in Caller
          PROVE  Right(d)'
      <4>1. CASE d = c
        BY <1>2, <3>1, <4>1 DEF CallerInv, CallerTypes
      <4>2. CASE d # c
        <5>1. /\ pc'[d] = pc[d] /\ call'[d] = call[d] /\ action'[d] = action[d]
              /\ raced'[d] = raced[d]
          BY <1>2, <3>1, <4>2 DEF CallerInv, CallerTypes, CallsInv
        <5>2. QED
          BY <2>1, <3>1, <5>1
      <4>3. QED
        BY <4>1, <4>2
    <3>3. QED
      BY <3>2 DEF UpsertErrsOnlyByRace
  <2>9. CASE Replicate \/ UNCHANGED vars
    BY <1>2, <2>9 DEF Replicate, vars, Visible, UpsertErrsOnlyByRace
  <2>10. QED
    BY <1>2, <2>2, <2>3, <2>4, <2>5, <2>6, <2>7, <2>8, <2>9 DEF Next
<1>3. QED
  BY <1>1, <1>2, CallerStarts, CallerStep, PTL DEF Spec
(***************************************************************************)
(* The conditions of a statement.  What the builders put around the        *)
(* conditions of a request adds none and loses none.                       *)
(***************************************************************************)
Listed(s) == s \in Seq(Range(s))
Conds(s) == {x \in Range(s) : x.name = "condition"}
\* The columns of the placeholders in a set of conditions.
ColumnsOf(S) == UNION {ToSet(x.holes) : x \in S}

\* A sequence over a set is one over its range.
LEMMA SeqIsListed ==
  ASSUME NEW S, NEW s \in Seq(S)
  PROVE  Listed(s)
BY SeqOfRange DEF Listed, Range

\* Two texts one after the other have the conditions of both.
LEMMA TextConcat ==
  ASSUME NEW s, NEW t, Listed(s), Listed(t)
  PROVE  Listed(s \o t) /\ Conds(s \o t) = Conds(s) \cup Conds(t)
<1>1. PICK S : S = Range(s) \cup Range(t)
  OBVIOUS
<1>2. s \in Seq(S) /\ t \in Seq(S)
  BY <1>1, SeqMonotonic DEF Listed
<1>3. s \o t \in Seq(S) /\ Range(s \o t) = Range(s) \cup Range(t)
  BY <1>2, RangeConcat, ConcatProperties
<1>4. Listed(s \o t)
  BY <1>3, SeqIsListed
<1>5. QED
  BY <1>3, <1>4 DEF Conds

\* One clause, or none.
LEMMA TextOne ==
  /\ Listed(<<>>) /\ Conds(<<>>) = {}
  /\ \A x : Listed(<<x>>) /\ Conds(<<x>>) = IF x.name = "condition" THEN {x} ELSE {}
<1>1. Listed(<<>>) /\ Conds(<<>>) = {}
  BY EmptySeq DEF Listed, Conds, Range
<1>2. ASSUME NEW x
      PROVE  Listed(<<x>>) /\ Conds(<<x>>) = IF x.name = "condition" THEN {x} ELSE {}
  <2>1. Range(<<x>>) = {x}
    BY DEF Range
  <2>2. <<x>> \in Seq({x})
    OBVIOUS
  <2>3. QED
    BY <2>1, <2>2 DEF Listed, Conds
<1>3. QED
  BY <1>1, <1>2

\* Two clauses are one after the other.
LEMMA TextTwo ==
  ASSUME NEW x, NEW y
  PROVE  <<x, y>> = <<x>> \o <<y>>
<1>1. PICK S : S = {x, y}
  OBVIOUS
<1>2. <<x>> \in Seq(S) /\ <<y>> \in Seq(S) /\ <<x, y>> \in Seq(S)
  BY <1>1
<1>3. /\ <<x>> \o <<y>> \in Seq(S)
      /\ Len(<<x>> \o <<y>>) = 2 /\ Len(<<x, y>>) = 2
      /\ (<<x>> \o <<y>>)[1] = x /\ (<<x>> \o <<y>>)[2] = y
  BY <1>2, ConcatProperties
<1>4. \A i \in 1 .. 2 : <<x, y>>[i] = (<<x>> \o <<y>>)[i]
  BY <1>3
<1>5. QED
  BY <1>2, <1>3, <1>4, SeqEqual

\* Three clauses are one, and two after it.
LEMMA TextThree ==
  ASSUME NEW x, NEW y, NEW z
  PROVE  <<x, y, z>> = <<x>> \o <<y, z>>
<1>1. PICK S : S = {x, y, z}
  OBVIOUS
<1>2. <<x>> \in Seq(S) /\ <<y, z>> \in Seq(S) /\ <<x, y, z>> \in Seq(S)
  BY <1>1
<1>3. /\ <<x>> \o <<y, z>> \in Seq(S)
      /\ Len(<<x>> \o <<y, z>>) = 3 /\ Len(<<x, y, z>>) = 3
      /\ (<<x>> \o <<y, z>>)[1] = x /\ (<<x>> \o <<y, z>>)[2] = y
      /\ (<<x>> \o <<y, z>>)[3] = z
  BY <1>2, ConcatProperties
<1>4. \A i \in 1 .. 3 : <<x, y, z>>[i] = (<<x>> \o <<y, z>>)[i]
  BY <1>3
<1>5. QED
  BY <1>2, <1>3, <1>4, SeqEqual

\* A clause that is no condition.
LEMMA TextClause ==
  ASSUME NEW name, NEW holes, name # "condition"
  PROVE  Listed(<<Clause(name, holes)>>) /\ Conds(<<Clause(name, holes)>>) = {}
BY TextOne DEF Clause

\* A word, the AND, the WHERE, and the condition on the id.
LEMMA TextWords ==
  /\ \A name : name # "condition" => Listed(Word(name)) /\ Conds(Word(name)) = {}
  /\ Listed(<<And>>) /\ Conds(<<And>>) = {}
  /\ Listed(<<Where>>) /\ Conds(<<Where>>) = {}
  /\ Listed(<<Condition("id", TRUE)>>)
  /\ Conds(<<Condition("id", TRUE)>>) = {Condition("id", TRUE)}
  /\ Listed(<<Where, Condition("id", TRUE)>>)
  /\ Conds(<<Where, Condition("id", TRUE)>>) = {Condition("id", TRUE)}
<1>1. /\ \A name : name # "condition" => Listed(Word(name)) /\ Conds(Word(name)) = {}
      /\ Listed(<<And>>) /\ Conds(<<And>>) = {}
      /\ Listed(<<Where>>) /\ Conds(<<Where>>) = {}
  BY TextClause DEF Word, And, Where
<1>2. /\ Listed(<<Condition("id", TRUE)>>)
      /\ Conds(<<Condition("id", TRUE)>>) = {Condition("id", TRUE)}
  <2>1. PICK x : x = Condition("id", TRUE)
    OBVIOUS
  <2>2. x.name = "condition"
    BY <2>1 DEF Condition, Clause
  <2>3. QED
    BY <2>1, <2>2, TextOne
<1>3. <<Where, Condition("id", TRUE)>> = <<Where>> \o <<Condition("id", TRUE)>>
  BY TextTwo
<1>4. /\ Listed(<<Where>> \o <<Condition("id", TRUE)>>)
      /\ Conds(<<Where>> \o <<Condition("id", TRUE)>>)
           = Conds(<<Where>>) \cup Conds(<<Condition("id", TRUE)>>)
  BY <1>1, <1>2, TextConcat
<1>5. {} \cup {Condition("id", TRUE)} = {Condition("id", TRUE)}
  OBVIOUS
<1>6. QED
  BY <1>1, <1>2, <1>3, <1>4, <1>5, Zenon

\* One more text, when a field of the request is set, has no condition more.
LEMMA TextIf ==
  ASSUME NEW s, NEW t, Listed(s), Listed(t), Conds(t) = {}, NEW b
  PROVE  /\ Listed(s \o (IF b THEN t ELSE <<>>))
         /\ Conds(s \o (IF b THEN t ELSE <<>>)) = Conds(s)
<1>1. PICK u : u = IF b THEN t ELSE <<>>
  OBVIOUS
<1>2. Listed(u) /\ Conds(u) = {}
  BY <1>1, TextOne
<1>3. Listed(s \o u) /\ Conds(s \o u) = Conds(s) \cup Conds(u)
  BY <1>2, TextConcat
<1>4. QED
  BY <1>1, <1>2, <1>3

\* A clause that is joined to a text is no condition of its own.
LEMMA ConjoinAddsNone ==
  ASSUME NEW b, Listed(b.text), NEW name, NEW holes, name # "condition"
  PROVE  /\ Listed(Conjoin(b, name, holes).text)
         /\ Conds(Conjoin(b, name, holes).text) = Conds(b.text)
<1>1. PICK s, t, u : s = b.text /\ t = AndIf(b) /\ u = <<Clause(name, holes)>>
  OBVIOUS
<1>2. Listed(t) /\ Conds(t) = {}
  BY <1>1, TextOne, TextWords DEF AndIf
<1>3. Listed(u) /\ Conds(u) = {}
  BY <1>1, TextClause
<1>4. /\ Listed(s \o t) /\ Conds(s \o t) = Conds(s) \cup Conds(t)
      /\ Listed((s \o t) \o u) /\ Conds((s \o t) \o u) = Conds(s \o t) \cup Conds(u)
  BY <1>1, <1>2, <1>3, TextConcat
<1>5. Conjoin(b, name, holes).text = (s \o t) \o u
  BY <1>1 DEF Conjoin
<1>6. QED
  BY <1>1, <1>2, <1>3, <1>4, <1>5

\* A request's conditions, when it has any.
WhereOf(req) == IF req.where = Nil THEN {} ELSE Range(req.where)

\* The text of the conditions of a request has them all, and no other.
LEMMA WhereText ==
  ASSUME NEW req, req.where = Nil \/ Listed(req.where),
         \A x \in WhereOf(req) : x.name = "condition"
  PROVE  /\ Listed(CheckInitiateWhere(req).text)
         /\ Conds(CheckInitiateWhere(req).text) = WhereOf(req)
<1>1. PICK n : n = IF req.where = Nil THEN 0 ELSE Len(req.where)
  OBVIOUS
<1>2. /\ n \in Nat
      /\ req.where # Nil => /\ DOMAIN req.where = 1 .. n
                            /\ \A i \in 1 .. n : req.where[i] \in WhereOf(req)
  BY <1>1, LenProperties DEF Listed, WhereOf, Range
<1>3. PICK t : t = CheckInitiateWhere(req).text
  OBVIOUS
<1>4. t = [i \in 1 .. 2 * n - 1 |-> IF i % 2 = 0 THEN And ELSE req.where[(i + 1) \div 2]]
  BY <1>1, <1>3 DEF CheckInitiateWhere
<1>5. \A i \in 1 .. 2 * n - 1 :
        \/ t[i] = And
        \/ req.where # Nil /\ t[i] \in WhereOf(req)
  <2>1. ASSUME NEW i \in 1 .. 2 * n - 1, i % 2 # 0
        PROVE  req.where # Nil /\ (i + 1) \div 2 \in 1 .. n
    BY <1>1, <1>2, <2>1
  <2>2. QED
    BY <1>2, <1>4, <2>1
<1>6. \A x \in WhereOf(req) : \E i \in 1 .. 2 * n - 1 : t[i] = x
  <2>1. ASSUME NEW x \in WhereOf(req)
        PROVE  \E i \in 1 .. 2 * n - 1 : t[i] = x
    <3>1. PICK j \in 1 .. n : req.where[j] = x
      BY <1>2, <2>1 DEF WhereOf, Range
    <3>2. /\ 2 * j - 1 \in 1 .. 2 * n - 1 /\ (2 * j - 1) % 2 # 0
          /\ ((2 * j - 1) + 1) \div 2 = j
      BY <1>2
    <3>3. t[2 * j - 1] = req.where[j]
      BY <1>4, <3>2
    <3>4. QED
      BY <3>1, <3>2, <3>3
  <2>2. QED
    BY <2>1
<1>7. Listed(t)
  <2>1. PICK m \in Nat : 1 .. m = 1 .. 2 * n - 1
    <3>1. CASE n = 0
      <4>1. 1 .. 0 = 1 .. 2 * n - 1
        BY <3>1
      <4>2. QED
        BY <4>1
    <3>2. CASE n # 0
      BY <1>2, <3>2
    <3>3. QED
      BY <3>1, <3>2
  <2>2. t \in [1 .. m -> WhereOf(req) \cup {And}]
    BY <1>4, <1>5, <2>1
  <2>3. t \in Seq(WhereOf(req) \cup {And})
    BY <2>2, SeqDef
  <2>4. QED
    BY <2>3, SeqIsListed
<1>8. Range(t) \subseteq WhereOf(req) \cup {And} /\ WhereOf(req) \subseteq Range(t)
  BY <1>4, <1>5, <1>6 DEF Range
<1>9. And.name # "condition"
  BY DEF And, Clause
<1>10. QED
  BY <1>3, <1>7, <1>8, <1>9 DEF Conds

\* The keyword's clause has no condition more.
LEMMA KeywordText ==
  ASSUME NEW req, NEW b, Listed(b.text)
  PROVE  /\ Listed(CheckKeyword(req, b).text)
         /\ Conds(CheckKeyword(req, b).text) = Conds(b.text)
<1>1. CASE "Keyword" \in req.set
  <2>1. PICK like, s, t : /\ like = [i \in DOMAIN SearchCols |-> "keyword"]
                          /\ s = (IF req.where # Nil THEN <<And>> ELSE <<>>)
                          /\ t = <<Clause("LIKE", like)>>
    OBVIOUS
  <2>2. /\ Listed(s) /\ Conds(s) = {} /\ Listed(t) /\ Conds(t) = {}
    BY <2>1, TextOne, TextWords, TextClause
  <2>3. /\ Listed((b.text \o s) \o t)
        /\ Conds((b.text \o s) \o t) = Conds(b.text)
    BY <2>2, TextConcat
  <2>4. CheckKeyword(req, b).text = (b.text \o s) \o t
    BY <1>1, <2>1 DEF CheckKeyword, If
  <2>5. QED
    BY <2>3, <2>4
<1>2. CASE "Keyword" \notin req.set
  BY <1>2 DEF CheckKeyword, If
<1>3. QED
  BY <1>1, <1>2

\* Neither have the clauses on dates.
LEMMA DateText ==
  ASSUME NEW req, NEW b, Listed(b.text)
  PROVE  /\ Listed(CheckCreatedDateParam(req, b).text)
         /\ Conds(CheckCreatedDateParam(req, b).text) = Conds(b.text)
<1>1. PICK start : start = If(req.set, "CreatedStart",
                              Conjoin(b, "created_at >=", <<"CreatedStart">>), b)
  OBVIOUS
<1>2. Listed(start.text) /\ Conds(start.text) = Conds(b.text)
  BY <1>1, ConjoinAddsNone DEF If
<1>3. PICK end : end = If(req.set, "CreatedEnd",
                          Conjoin(start, "created_at <=", <<"CreatedEnd">>), start)
  OBVIOUS
<1>4. Listed(end.text) /\ Conds(end.text) = Conds(b.text)
  BY <1>2, <1>3, ConjoinAddsNone DEF If
<1>5. PICK name : name = If(req.set, "IsDeleted", "deleted_at IS NOT NULL",
                            "deleted_at IS NULL")
  OBVIOUS
<1>6. name # "condition"
  BY <1>5 DEF If
<1>7. /\ Listed(Conjoin(end, name, <<>>).text)
      /\ Conds(Conjoin(end, name, <<>>).text) = Conds(b.text)
  BY <1>4, <1>6, ConjoinAddsNone
<1>8. \/ CheckCreatedDateParam(req, b) = end
      \/ CheckCreatedDateParam(req, b) = Conjoin(end, name, <<>>)
  BY <1>1, <1>3, <1>5 DEF CheckCreatedDateParam
<1>9. QED
  BY <1>4, <1>7, <1>8

\* A request is well-formed when what it asks for are conditions.
Asks(req) == /\ req.where = Nil \/ Listed(req.where)
             /\ \A x \in WhereOf(req) : x.name = "condition"

\* The text for a request has its conditions, and no other.
LEMMA AddOnText ==
  ASSUME NEW req, Asks(req)
  PROVE  Listed(AddOn(req).stmt) /\ Conds(AddOn(req).stmt) = WhereOf(req)
<1>1. PICK b : b = CheckCreatedDateParam(req, CheckKeyword(req, CheckInitiateWhere(req)))
  OBVIOUS
<1>2. Listed(b.text) /\ Conds(b.text) = WhereOf(req)
  BY <1>1, WhereText, KeywordText, DateText DEF Asks
<1>3. PICK s : s = IF b.text = <<>> THEN <<>> ELSE <<Where>> \o b.text
  OBVIOUS
<1>4. Listed(s) /\ Conds(s) = WhereOf(req)
  <2>1. Listed(<<Where>> \o b.text) /\ Conds(<<Where>> \o b.text) = WhereOf(req)
    BY <1>2, TextWords, TextConcat
  <2>2. QED
    BY <1>2, <1>3, <2>1
<1>5. PICK t : t = s \o (IF "GroupBy" \in req.set THEN Word("GROUP BY") ELSE <<>>)
  OBVIOUS
<1>6. Listed(t) /\ Conds(t) = WhereOf(req)
  <2>1. Listed(Word("GROUP BY")) /\ Conds(Word("GROUP BY")) = {}
    BY TextWords
  <2>2. QED
    BY <1>4, <1>5, <2>1, TextIf
<1>7. PICK u : u = t \o (IF "OrderBy" \in req.set THEN Word("ORDER BY") ELSE <<>>)
  OBVIOUS
<1>8. Listed(u) /\ Conds(u) = WhereOf(req)
  <2>1. Listed(Word("ORDER BY")) /\ Conds(Word("ORDER BY")) = {}
    BY TextWords
  <2>2. QED
    BY <1>6, <1>7, <2>1, TextIf
<1>9. PICK page : page = Paging(req)
  OBVIOUS
<1>10. Listed(page) /\ Conds(page) = {}
  BY <1>9, TextOne, TextClause DEF Paging
<1>11. Listed(u \o page) /\ Conds(u \o page) = WhereOf(req)
  BY <1>8, <1>10, TextConcat
<1>12. AddOn(req).stmt = u \o page
  BY <1>1, <1>3, <1>5, <1>7, <1>9 DEF AddOn, If
<1>13. QED
  BY <1>11, <1>12

CondRecord == [col : STRING, holed : BOOLEAN, value : STRING \cup {Nil}]

\* The columns of the conditions that have a placeholder.
Holed(conds) == {conds[i].col : i \in {j \in DOMAIN conds : conds[j].holed}}

\* What SetWhereCondition puts into a request that has no condition yet.
LEMMA RequestText ==
  ASSUME NEW conds \in Seq(CondRecord), NEW req, NEW include,
         req = NewRequest \/ \E r : req = Reset(r)
  PROVE  /\ Asks(WithConditions(req, conds, include))
         /\ "where" \in DOMAIN WithConditions(req, conds, include)
         /\ ColumnsOf(WhereOf(WithConditions(req, conds, include))) = Holed(conds)
         /\ conds # <<>> =>
              /\ WithConditions(req, conds, include).where
                   = [i \in DOMAIN conds |-> Condition(conds[i].col, conds[i].holed)]
              /\ WithConditions(req, conds, include).where
                   \in Seq([name : {"condition"}, holes : Seq(STRING)])
<1>1. PICK w : w = WithConditions(req, conds, include).where
  OBVIOUS
<1>2. PICK clauses : clauses = [i \in DOMAIN conds |-> Condition(conds[i].col, conds[i].holed)]
  OBVIOUS
<1>3. req.where \in {Nil, <<>>} /\ "where" \in DOMAIN req /\ "values" \in DOMAIN req
  <2>1. PICK x, v, e : req = [where |-> x, values |-> v, set |-> {}, engine |-> e]
                       /\ (x = Nil \/ x = <<>>)
    BY DEF NewRequest, Reset
  <2>2. QED
    BY <2>1
<1>4. /\ w = IF conds = <<>> THEN req.where
             ELSE (IF req.where = Nil THEN <<>> ELSE req.where) \o clauses
      /\ "where" \in DOMAIN WithConditions(req, conds, include)
  BY <1>1, <1>2, <1>3 DEF WithConditions, SetWhereConditions
<1>5. CASE conds = <<>>
  <2>1. w \in {Nil, <<>>} /\ DOMAIN conds = {}
    BY <1>3, <1>4, <1>5
  <2>2. Holed(conds) = {}
    BY <2>1 DEF Holed
  <2>3. Range(<<>>) = {} /\ Listed(<<>>)
    BY TextOne DEF Range
  <2>4. QED
    BY <1>1, <1>4, <1>5, <2>1, <2>2, <2>3 DEF Asks, WhereOf, ColumnsOf
<1>6. CASE conds # <<>>
  <2>1. PICK n \in Nat : n = Len(conds) /\ DOMAIN conds = 1 .. n
    BY LenProperties
  <2>2. \A i \in 1 .. n : conds[i] \in CondRecord
    BY <2>1, ElementOfSeq
  <2>3. PICK C : C = [name : {"condition"}, holes : Seq(STRING)]
    OBVIOUS
  <2>4. \A i \in 1 .. n : /\ clauses[i] \in C
                          /\ clauses[i].holes = IF conds[i].holed THEN <<conds[i].col>> ELSE <<>>
    <3>1. ASSUME NEW i \in 1 .. n
          PROVE  /\ clauses[i] \in C
                 /\ clauses[i].holes = IF conds[i].holed THEN <<conds[i].col>> ELSE <<>>
      <4>1. PICK t : t = IF conds[i].holed THEN <<conds[i].col>> ELSE <<>>
        OBVIOUS
      <4>2. conds[i].col \in STRING
        BY <2>2, <3>1 DEF CondRecord
      <4>3. t \in Seq(STRING)
        <5>1. ASSUME NEW S, NEW x \in S
              PROVE  <<>> \in Seq(S) /\ <<x>> \in Seq(S)
          BY EmptySeq
        <5>2. QED
          BY <4>1, <4>2, <5>1, Zenon
      <4>4. clauses[i] = [name |-> "condition", holes |-> t]
        <5>1. clauses[i] = Condition(conds[i].col, conds[i].holed)
          BY <1>2, <2>1, <3>1, Zenon
        <5>2. QED
          BY <4>1, <5>1, Zenon DEF Condition, Clause
      <4>5. QED
        <5>1. [name |-> "condition", holes |-> t] \in C
          BY <2>3, <4>3
        <5>2. [name |-> "condition", holes |-> t].holes = t
          OBVIOUS
        <5>3. QED
          BY <4>1, <4>4, <5>1, <5>2, Zenon
    <3>2. QED
      BY <3>1
  <2>5. clauses \in Seq(C)
    <3>1. clauses \in [1 .. n -> C]
      BY <1>2, <2>1, <2>4
    <3>2. QED
      BY <3>1, SeqDef
  <2>6. w = clauses
    <3>1. <<>> \o clauses = clauses
      BY <2>5, ConcatEmptySeq
    <3>2. QED
      BY <1>3, <1>4, <1>6, <3>1
  <2>7. w # Nil /\ Listed(w)
    BY <2>3, <2>5, <2>6, SeqIsListed, WritesAssumption
  <2>8. DOMAIN clauses = 1 .. n /\ Range(w) = {clauses[i] : i \in 1 .. n}
    BY <1>2, <2>1, <2>6 DEF Range
  <2>9. \A x \in Range(w) : x.name = "condition"
    BY <2>3, <2>4, <2>8
  <2>10. \A i \in 1 .. n : ToSet(clauses[i].holes) = IF conds[i].holed THEN {conds[i].col} ELSE {}
    <3>1. ToSet(<<>>) = {} /\ \A x : ToSet(<<x>>) = {x}
      BY DEF ToSet
    <3>2. QED
      BY <2>4, <3>1
  <2>11. ColumnsOf(Range(w)) = Holed(conds)
    <3>1. ASSUME NEW y
          PROVE  y \in ColumnsOf(Range(w)) <=> \E i \in 1 .. n : conds[i].holed /\ y = conds[i].col
      <4>1. y \in ColumnsOf(Range(w)) <=> \E x \in Range(w) : y \in ToSet(x.holes)
        BY DEF ColumnsOf
      <4>2. (\E x \in Range(w) : y \in ToSet(x.holes))
              <=> \E i \in 1 .. n : y \in ToSet(clauses[i].holes)
        BY <2>8
      <4>3. QED
        BY <2>10, <4>1, <4>2
    <3>2. \A y : y \in Holed(conds) <=> \E i \in 1 .. n : conds[i].holed /\ y = conds[i].col
      BY <2>1 DEF Holed
    <3>3. QED
      BY <3>1, <3>2
  <2>12. w = clauses /\ w \in Seq([name : {"condition"}, holes : Seq(STRING)])
    BY <2>3, <2>5, <2>6
  <2>13. QED
    BY <1>1, <1>2, <1>4, <2>7, <2>9, <2>11, <2>12 DEF Asks, WhereOf
<1>7. QED
  BY <1>5, <1>6

\* A map that is ranged over is met in full.
LEMMA OrderMeetsAll ==
  ASSUME NEW S, IsFiniteSet(S), NEW s \in SetToSeqs(S)
  PROVE  s \in Seq(S) /\ Range(s) = S
<1>1. PICK n : n = Cardinality(S)
  OBVIOUS
<1>2. n \in Nat
  BY <1>1, FS_CardinalityType
<1>3. s \in [1 .. n -> S] /\ \A i, j \in 1 .. n : i # j => s[i] # s[j]
  BY <1>1 DEF SetToSeqs
<1>4. s \in Injection(1 .. n, S)
  BY <1>3 DEF Injection, IsInjective
<1>5. IsFiniteSet(1 .. n) /\ Cardinality(1 .. n) = n
  <2>1. 1 \in Int /\ n \in Int
    BY <1>2
  <2>2. /\ IsFiniteSet(1 .. n)
        /\ Cardinality(1 .. n) = IF 1 > n THEN 0 ELSE n - 1 + 1
    BY <2>1, FS_Interval
  <2>3. QED
    BY <1>2, <2>2
<1>6. s \in Surjection(1 .. n, S)
  BY <1>1, <1>4, <1>5, FS_Injection
<1>7. Range(s) = S
  BY <1>3, <1>6 DEF Surjection, Range
<1>8. s \in Seq(S)
  BY <1>2, <1>3, SeqDef
<1>9. QED
  BY <1>7, <1>8

\* So is one that is put into a sequence.
LEMMA SequenceMeetsAll ==
  ASSUME NEW S, IsFiniteSet(S)
  PROVE  SetToSeq(S) \in SetToSeqs(S)
<1>1. PICK n : n = Cardinality(S)
  OBVIOUS
<1>2. PICK s \in Bijection(1 .. n, S) : TRUE
  <2>1. PICK m \in Nat : ExistsBijection(1 .. m, S)
    BY FS_NatBijection
  <2>2. m = n
    BY <1>1, <2>1, FS_CountingElements
  <2>3. QED
    BY <2>1, <2>2 DEF ExistsBijection
<1>3. s \in [1 .. n -> S] /\ IsInjective(s)
  BY <1>2 DEF Bijection, Injection
<1>4. SetToSeq(S) \in [1 .. n -> S] /\ IsInjective(SetToSeq(S))
  BY <1>1, <1>3 DEF SetToSeq
<1>5. \A i, j \in 1 .. n : i # j => SetToSeq(S)[i] # SetToSeq(S)[j]
  BY <1>4 DEF IsInjective
<1>6. QED
  BY <1>1, <1>4, <1>5 DEF SetToSeqs

\* The columns a statement for the conditions of a call is about.
Sought(k) == {x.col : x \in {y \in k.conds : y.value # Nil}}
\* A request asks for the conditions of a call, when the call is regular.
AsksFor(req, k) ==
  /\ Asks(req)
  /\ "where" \in DOMAIN req
  /\ Regular(k) => ColumnsOf(WhereOf(req)) = Sought(k)

\* The conditions of a regular call have their placeholders, in any order and
\* as Upsert normalises them.
LEMMA HoledIsSought ==
  ASSUME NEW k \in CallRecord, IsFiniteSet(k.conds), NEW conds \in SetToSeqs(k.conds)
  PROVE  /\ conds \in Seq(CondRecord) /\ Normal(conds) \in Seq(CondRecord)
         /\ Regular(k) => Holed(conds) = Sought(k) /\ Holed(Normal(conds)) = Sought(k)
<1>1. k.conds \subseteq CondRecord
  BY DEF CallRecord, CondRecord
<1>2. conds \in Seq(k.conds) /\ Range(conds) = k.conds
  BY OrderMeetsAll
<1>3. conds \in Seq(CondRecord)
  BY <1>1, <1>2, SeqMonotonic
<1>4. PICK n \in Nat : n = Len(conds) /\ DOMAIN conds = 1 .. n
  BY <1>3, LenProperties
<1>5. /\ \A i \in 1 .. n : conds[i] \in CondRecord /\ conds[i] \in k.conds
      /\ \A x \in k.conds : \E i \in 1 .. n : conds[i] = x
  BY <1>1, <1>2, <1>4 DEF Range
<1>6. PICK normal : normal = Normal(conds)
  OBVIOUS
<1>7. normal = [i \in 1 .. n |-> [conds[i] EXCEPT !.holed = @ \/ conds[i].value # Nil]]
  BY <1>4, <1>6 DEF Normal
<1>8. ASSUME NEW x \in CondRecord
      PROVE  /\ [x EXCEPT !.holed = @ \/ x.value # Nil] \in CondRecord
             /\ [x EXCEPT !.holed = @ \/ x.value # Nil].col = x.col
             /\ [x EXCEPT !.holed = @ \/ x.value # Nil].holed <=> (x.holed \/ x.value # Nil)
  BY <1>8 DEF CondRecord
<1>9. \A i \in 1 .. n : /\ normal[i] \in CondRecord
                        /\ normal[i].col = conds[i].col
                        /\ normal[i].holed <=> (conds[i].holed \/ conds[i].value # Nil)
  BY <1>5, <1>7, <1>8
<1>10. normal \in Seq(CondRecord)
  <2>1. normal \in [1 .. n -> CondRecord]
    BY <1>7, <1>9
  <2>2. QED
    BY <2>1, SeqDef
<1>11. ASSUME Regular(k)
       PROVE  Holed(conds) = Sought(k) /\ Holed(normal) = Sought(k)
  <2>1. \A x \in k.conds : x.holed <=> x.value # Nil
    BY <1>11, Zenon DEF Regular
  <2>2. \A i \in 1 .. n : /\ conds[i].holed <=> conds[i].value # Nil
                          /\ normal[i].holed <=> conds[i].value # Nil
    BY <1>5, <1>9, <2>1
  <2>3. DOMAIN normal = 1 .. n
    BY <1>7
  <2>4. Holed(conds) = {conds[i].col : i \in {j \in 1 .. n : conds[j].value # Nil}}
    BY <1>4, <2>2 DEF Holed
  <2>5. Holed(normal) = {conds[i].col : i \in {j \in 1 .. n : conds[j].value # Nil}}
    BY <1>9, <2>2, <2>3 DEF Holed
  <2>6. Sought(k) = {conds[i].col : i \in {j \in 1 .. n : conds[j].value # Nil}}
    BY <1>5 DEF Sought
  <2>7. QED
    BY <2>4, <2>5, <2>6
<1>12. QED
  BY <1>3, <1>6, <1>10, <1>11

\* A request that is new, or was reset, and is filled for a call asks for its
\* conditions.
LEMMA RequestsAreFilled ==
  ASSUME NEW k \in CallRecord, IsFiniteSet(k.conds), NEW conds \in SetToSeqs(k.conds),
         NEW req, req = NewRequest \/ \E r : req = Reset(r), NEW include
  PROVE  /\ AsksFor(WithConditions(req, conds, include), k)
         /\ AsksFor(WithConditions(req, Normal(conds), include), k)
<1>1. /\ conds \in Seq(CondRecord) /\ Normal(conds) \in Seq(CondRecord)
      /\ Regular(k) => Holed(conds) = Sought(k) /\ Holed(Normal(conds)) = Sought(k)
  BY HoledIsSought
<1>2. AsksFor(WithConditions(req, conds, include), k)
  BY <1>1, RequestText DEF AsksFor
<1>3. AsksFor(WithConditions(req, Normal(conds), include), k)
  BY <1>1, RequestText DEF AsksFor
<1>4. QED
  BY <1>2, <1>3

\* Another field of a request is not a condition.
LEMMA FieldsAreNoConditions ==
  ASSUME NEW req, NEW k, AsksFor(req, k), NEW set
  PROVE  /\ AsksFor([req EXCEPT !.set = set], k)
         /\ AsksFor([req EXCEPT !.engine = set], k)
<1>1. ASSUME NEW s, s.where = req.where, "where" \in DOMAIN s
      PROVE  AsksFor(s, k)
  BY <1>1 DEF AsksFor, Asks, WhereOf
<1>2. "where" \in DOMAIN req
  BY DEF AsksFor
<1>3. /\ [req EXCEPT !.set = set].where = req.where
      /\ "where" \in DOMAIN [req EXCEPT !.set = set]
      /\ [req EXCEPT !.engine = set].where = req.where
      /\ "where" \in DOMAIN [req EXCEPT !.engine = set]
  BY <1>2
<1>4. QED
  BY <1>1, <1>3

\* What SQL.Read adds for a request.
LEMMA SelectedText ==
  ASSUME NEW req, NEW k, AsksFor(req, k)
  PROVE  /\ Listed(Selected(req).stmt)
         /\ Regular(k) => ColumnsOf(Conds(Selected(req).stmt)) = Sought(k)
<1>1. PICK s : s = [req EXCEPT !.engine = Engine]
  OBVIOUS
<1>2. AsksFor(s, k)
  BY <1>1, FieldsAreNoConditions
<1>3. Listed(AddOn(s).stmt) /\ Conds(AddOn(s).stmt) = WhereOf(s)
  BY <1>2, AddOnText DEF AsksFor
<1>4. QED
  BY <1>1, <1>2, <1>3 DEF AsksFor, Selected

\* The lock of a read has no condition.
LEMMA LockText ==
  ASSUME NEW locking
  PROVE  Listed(LockClause(locking)) /\ Conds(LockClause(locking)) = {}
<1>1. /\ Listed(Word("LOCK IN SHARE MODE")) /\ Conds(Word("LOCK IN SHARE MODE")) = {}
      /\ Listed(Word("FOR SHARE")) /\ Conds(Word("FOR SHARE")) = {}
      /\ Listed(Word("FOR UPDATE")) /\ Conds(Word("FOR UPDATE")) = {}
      /\ Listed(<<>>) /\ Conds(<<>>) = {}
  BY TextWords, TextOne
<1>2. \/ LockClause(locking) = Word("LOCK IN SHARE MODE")
      \/ LockClause(locking) = Word("FOR SHARE")
      \/ LockClause(locking) = Word("FOR UPDATE")
      \/ LockClause(locking) = <<>>
  BY DEF LockClause
<1>3. QED
  BY <1>1, <1>2

\* A read has the conditions of its base query and those that are added.
LEMMA ReadText ==
  ASSUME NEW base, NEW params, NEW addOn, NEW lock,
         Listed(base), Listed(addOn.stmt), Listed(lock), Conds(lock) = {}
  PROVE  Conds(ReadStatement(base, params, addOn, lock).stmt)
           = Conds(base) \cup Conds(addOn.stmt)
<1>1. PICK t : t = addOn.stmt
  OBVIOUS
<1>2. /\ Listed(base \o t) /\ Conds(base \o t) = Conds(base) \cup Conds(t)
      /\ Conds((base \o t) \o lock) = Conds(base \o t) \cup Conds(lock)
  BY <1>1, TextConcat
<1>3. ReadStatement(base, params, addOn, lock).stmt = (base \o t) \o lock
  BY <1>1 DEF ReadStatement
<1>4. QED
  BY <1>1, <1>2, <1>3

\* The columns of the condition on the id.
LEMMA IdText == ColumnsOf({Condition("id", TRUE)}) = {"id"} /\ ColumnsOf({}) = {}
<1>1. Condition("id", TRUE).holes = <<"id">>
  BY DEF Condition, Clause
<1>2. ToSet(<<"id">>) = {"id"}
  BY DEF ToSet
<1>3. QED
  BY <1>1, <1>2 DEF ColumnsOf

OnRequest == {"update", "delete"}
OnId == ById \cup {"deleteById"}

\* An update or a delete is on the id, or has no condition of its own.
LEMMA ActionConditions ==
  ASSUME NEW act \in OnRequest \cup OnId, NEW d
  PROVE  /\ Listed(ActionText(act, d, SoftDelete))
         /\ ColumnsOf(Conds(ActionText(act, d, SoftDelete))) = IF act \in OnId THEN {"id"} ELSE {}
<1>1. PICK x, y, z : /\ x = Clause("UPDATE", d.cols) /\ y = Where
                     /\ z = Condition("id", TRUE)
  OBVIOUS
<1>2. PICK w : w = Word(IF SoftDelete THEN "UPDATE deleted_at" ELSE "DELETE")
  OBVIOUS
<1>3. /\ Listed(<<x>>) /\ Conds(<<x>>) = {}
      /\ Listed(w) /\ Conds(w) = {}
      /\ Listed(<<y, z>>) /\ Conds(<<y, z>>) = {z}
  <2>1. Listed(<<x>>) /\ Conds(<<x>>) = {}
    BY <1>1, TextClause
  <2>2. Listed(w) /\ Conds(w) = {}
    BY <1>2, TextWords
  <2>3. QED
    BY <1>1, <2>1, <2>2, TextWords
<1>4. /\ Listed(<<x>> \o <<y, z>>) /\ Conds(<<x>> \o <<y, z>>) = {z}
      /\ Listed(w \o <<y, z>>) /\ Conds(w \o <<y, z>>) = {z}
  BY <1>3, TextConcat
<1>5. <<x, y, z>> = <<x>> \o <<y, z>>
  BY TextThree
<1>6. CASE act \in ById
  <2>1. ActionText(act, d, SoftDelete) = <<x, y, z>>
    BY <1>1, <1>6 DEF ActionText, ById
  <2>2. QED
    BY <1>1, <1>4, <1>5, <1>6, <2>1, IdText DEF OnId
<1>7. CASE act = "deleteById"
  <2>1. ActionText(act, d, SoftDelete) = w \o <<y, z>>
    BY <1>1, <1>2, <1>7 DEF ActionText, ById
  <2>2. QED
    BY <1>1, <1>4, <1>7, <2>1, IdText DEF OnId
<1>8. CASE act = "update"
  <2>1. ActionText(act, d, SoftDelete) = <<x>>
    BY <1>1, <1>8 DEF ActionText, ById
  <2>2. act \notin OnId
    BY <1>8 DEF OnId, ById
  <2>3. QED
    BY <1>3, <2>1, <2>2, IdText
<1>9. CASE act = "delete"
  <2>1. ActionText(act, d, SoftDelete) = w
    BY <1>2, <1>9 DEF ActionText, ById
  <2>2. act \notin OnId
    BY <1>9 DEF OnId, ById
  <2>3. QED
    BY <1>3, <2>1, <2>2, IdText
<1>10. QED
  BY <1>6, <1>7, <1>8, <1>9 DEF OnRequest, OnId

\* An update or a delete has its own conditions and those that are added.
LEMMA WriteText ==
  ASSUME NEW act \in OnRequest \cup OnId, NEW d, NEW addOn, Listed(addOn.stmt)
  PROVE  ColumnsOf(Conds(WriteStatement(act, d, SoftDelete, addOn).stmt))
           = (IF act \in OnId THEN {"id"} ELSE {}) \cup ColumnsOf(Conds(addOn.stmt))
<1>1. PICK s, t, u : /\ s = ActionText(act, d, SoftDelete) /\ t = addOn.stmt
                     /\ u = IF act \in ById \cup {"update"} THEN Returning ELSE <<>>
  OBVIOUS
<1>2. /\ Listed(s) /\ Listed(t) /\ Listed(u) /\ Conds(u) = {}
      /\ ColumnsOf(Conds(s)) = IF act \in OnId THEN {"id"} ELSE {}
  <2>1. /\ Listed(Word("RETURNING id")) /\ Conds(Word("RETURNING id")) = {}
        /\ Listed(<<>>) /\ Conds(<<>>) = {}
    BY TextWords, TextOne
  <2>2. Listed(u) /\ Conds(u) = {}
    BY <1>1, <2>1 DEF Returning
  <2>3. QED
    BY <1>1, <2>2, ActionConditions
<1>3. /\ Listed(s \o t) /\ Conds(s \o t) = Conds(s) \cup Conds(t)
      /\ Conds((s \o t) \o u) = Conds(s \o t) \cup Conds(u)
  BY <1>2, TextConcat
<1>4. WriteStatement(act, d, SoftDelete, addOn).stmt = (s \o t) \o u
  BY <1>1 DEF WriteStatement
<1>5. \A S, T : ColumnsOf(S \cup T) = ColumnsOf(S) \cup ColumnsOf(T)
  BY DEF ColumnsOf
<1>6. Conds((s \o t) \o u) = Conds(s) \cup Conds(t)
  BY <1>2, <1>3
<1>7. ColumnsOf(Conds((s \o t) \o u)) = ColumnsOf(Conds(s)) \cup ColumnsOf(Conds(t))
  BY <1>5, <1>6
<1>8. QED
  BY <1>1, <1>2, <1>4, <1>7

\* The calls whose text may come out of a cache.
Keyed == {"list", "detailById", "count", "deleteById"}

\* A cached text is for every call that finds it.
QueriesInv ==
  \A q \in queries : \A k \in CallRecord :
    k.op \in Keyed /\ q.key = QueryKey(k) =>
      /\ q.text.table = k.table
      /\ k.op \in {"list", "detailById"} => q.text.cols = QueryText(k).cols

\* Calls with one key have one text.
LEMMA OneKeyOneText ==
  ASSUME NEW k, NEW j, k.op \in Keyed, j.op \in Keyed, QueryKey(k) = QueryKey(j)
  PROVE  /\ QueryText(j).table = k.table
         /\ k.op \in {"list", "detailById"} => QueryText(j).cols = QueryText(k).cols
<1>1. j.table = k.table
  BY DEF QueryKey, SelectKey, DeleteKey
<1>2. ASSUME k.op \in {"list", "detailById"}
      PROVE  QueryText(j).cols = QueryText(k).cols
  <2>1. j.op = k.op
    BY <1>2 DEF QueryKey, SelectKey, DeleteKey, Keyed
  <2>2. j.row = k.row /\ j.included = k.included /\ j.excluded = k.excluded
    BY <1>2, <2>1 DEF QueryKey, SelectKey
  <2>3. QED
    BY <2>1, <2>2 DEF QueryText
<1>3. QED
  BY <1>1, <1>2 DEF QueryText

\* The text a call gets, from the cache or not, is its own.
LEMMA TextIsOwn ==
  ASSUME QueriesInv, NEW k \in CallRecord, k.op \in Keyed
  PROVE  /\ Text(k).table = k.table
         /\ k.op \in {"list", "detailById"} => Text(k).cols = QueryText(k).cols
<1>1. CASE Cached(k) = {}
  BY <1>1 DEF Text, QueryText
<1>2. CASE Cached(k) # {}
  <2>1. PICK q \in Cached(k) : Text(k) = q.text
    BY <1>2 DEF Text
  <2>2. QED
    BY <2>1 DEF Cached, QueriesInv
<1>3. QED
  BY <1>1, <1>2

\* To remember a text keeps the texts right.
LEMMA RememberedIsOwn ==
  ASSUME QueriesInv, NEW j \in CallRecord, j.op \in Keyed, Remember(j)
  PROVE  QueriesInv'
<1>1. PICK q : q = [key |-> QueryKey(j), text |-> Text(j)]
  OBVIOUS
<1>2. queries' = queries \cup {q}
  BY <1>1 DEF Remember
<1>3. ASSUME NEW k \in CallRecord, k.op \in Keyed, q.key = QueryKey(k)
      PROVE  /\ q.text.table = k.table
             /\ k.op \in {"list", "detailById"} => q.text.cols = QueryText(k).cols
  <2>1. QueryKey(j) = QueryKey(k) /\ q.text = Text(j)
    BY <1>1, <1>3
  <2>2. CASE Cached(j) = {}
    <3>1. q.text = QueryText(j)
      BY <2>1, <2>2 DEF Text
    <3>2. QED
      BY <1>3, <2>1, <3>1, OneKeyOneText
  <2>3. CASE Cached(j) # {}
    <3>1. PICK p \in Cached(j) : Text(j) = p.text
      BY <2>3 DEF Text
    <3>2. p \in queries /\ p.key = QueryKey(k)
      BY <2>1 DEF Cached
    <3>3. QED
      BY <1>3, <2>1, <3>1, <3>2 DEF QueriesInv
  <2>4. QED
    BY <2>2, <2>3
<1>4. \A k : QueryKey(k)' = QueryKey(k) /\ QueryText(k)' = QueryText(k)
  BY DEF QueryKey, SelectKey, DeleteKey, QueryText
<1>5. QED
  BY <1>2, <1>3, <1>4 DEF QueriesInv

\* The columns a statement has to be about, for calls that have conditions.
Inserts == {"insert", "bulkInsert", "bulkUpdate", "upsertAction"}
Asked(k) == IF k.op \in OnId \cup {"detailById"} THEN {"id"} ELSE Sought(k)

\* A statement is that of its call.
IsOf(s, k, act) ==
  /\ s.table = k.table
  /\ k.op \in {"list", "detailById"} => s.cols = QueryText(k).cols
  /\ act \notin Inserts /\ Regular(k) => ColumnsOf(Conds(s.stmt)) = Asked(k)

\* What a caller sends, does and has in its requests belongs to its call.
OwnInv(c) ==
  /\ pc[c] = "idle" => held[c] = <<>> /\ sent[c] = Nil
  /\ pc[c] # "idle" => \/ action[c] = call[c].op
                       \/ call[c].op = "upsert" /\ action[c] \in {"update", "insert"}
  /\ pc[c] = "writing" => action[c] \notin Reads \cup {"upsert"}
  /\ pc[c] = "reading" /\ call[c].op = "upsert" =>
       held[c] # <<>> /\ AsksFor(request[held[c][1]], call[c])
  /\ pc[c] = "writing" /\ action[c] \in OnRequest =>
       held[c] # <<>> /\ AsksFor(request[Last(held[c])], call[c])
  /\ pc[c] # "idle" /\ sent[c] # Nil => IsOf(sent[c], call[c], action[c])

\* No two callers hold one request, and each is about its own call.
SharedInv ==
  /\ QueriesInv
  /\ \A c, d \in Caller : c # d => ToSet(held[c]) \cap ToSet(held[d]) = {}
  /\ \A c \in Caller : OwnInv(c)

\* A caller that is left alone, with its requests, is as right as it was.
LEMMA OwnStays ==
  ASSUME CallerInv, NEW d \in Caller, OwnInv(d),
         pc'[d] = pc[d], call'[d] = call[d], action'[d] = action[d],
         held'[d] = held[d], sent'[d] = sent[d],
         \A o \in ToSet(held[d]) : request'[o] = request[o]
  PROVE  OwnInv(d)'
<1>1. held[d] \in Seq(Request)
  BY DEF CallerInv, CallerTypes
<1>2. held[d] # <<>> =>
        /\ held[d][1] \in ToSet(held[d]) /\ Last(held[d]) \in ToSet(held[d])
        /\ Last(held'[d]) = Last(held[d])
  <2>1. PICK h \in Seq(Request) : h = held[d]
    BY <1>1
  <2>2. h # <<>> => h[1] \in ToSet(h) /\ Last(h) \in ToSet(h)
    <3>1. Len(h) \in Nat /\ DOMAIN h = 1 .. Len(h) /\ (h # <<>> => Len(h) > 0)
      BY LenProperties, EmptySeq
    <3>2. QED
      BY <3>1 DEF Last, ToSet
  <2>3. QED
    BY <2>1, <2>2 DEF Last
<1>3. QED
  BY <1>2 DEF OwnInv

\* One that is left alone by a Take of another, or by its PutAll.
LEMMA TakeLeavesOthers ==
  ASSUME CallerInv, SharedInv, NEW c \in Caller, NEW o \in Request, NEW req,
         Take(c, o, req)
  PROVE  /\ \A d \in Caller : d # c =>
              /\ held'[d] = held[d]
              /\ \A p \in ToSet(held[d]) : request'[p] = request[p]
         /\ \A a, b \in Caller : a # b => ToSet(held'[a]) \cap ToSet(held'[b]) = {}
<1>1. /\ \A d \in Caller : d # c => held'[d] = held[d]
      /\ held'[c] = Append(held[c], o)
      /\ \A p \in Request : p # o => request'[p] = request[p]
      /\ o \notin InUse
  BY TakeFacts DEF CallerInv
<1>2. \A d \in Caller : held[d] \in Seq(Request) /\ ToSet(held[d]) \subseteq Request
                        /\ o \notin ToSet(held[d])
  <2>1. ASSUME NEW d \in Caller
        PROVE  held[d] \in Seq(Request) /\ ToSet(held[d]) \subseteq Request
    <3>1. PICK h \in Seq(Request) : h = held[d]
      BY DEF CallerInv, CallerTypes
    <3>2. ToSet(h) \subseteq Request
      BY ElementOfSeq, LenProperties DEF ToSet
    <3>3. QED
      BY <3>1, <3>2
  <2>2. QED
    BY <1>1, <2>1 DEF InUse
<1>3. ToSet(held'[c]) = ToSet(held[c]) \cup {o}
  <2>1. PICK h \in Seq(Request) : h = held[c]
    BY <1>2
  <2>2. ToSet(Append(h, o)) = ToSet(h) \cup {o}
    <3>1. Range(Append(h, o)) = Range(h) \cup {o}
      BY RangeAppend
    <3>2. QED
      BY <3>1 DEF ToSet, Range
  <2>3. QED
    BY <1>1, <2>1, <2>2
<1>4. ASSUME NEW d \in Caller, d # c
      PROVE  /\ held'[d] = held[d]
             /\ \A p \in ToSet(held[d]) : request'[p] = request[p]
  BY <1>1, <1>2, <1>4
<1>5. ASSUME NEW a \in Caller, NEW b \in Caller, a # b
      PROVE  ToSet(held'[a]) \cap ToSet(held'[b]) = {}
  BY <1>1, <1>2, <1>3, <1>5 DEF SharedInv
<1>6. QED
  BY <1>4, <1>5

\* What a read sends is about its call.
LEMMA ReadIsOwn ==
  ASSUME CallerInv, SharedInv, NEW c \in Caller, ReadBy(c)
  PROVE  IsOf(sent'[c], call[c], action[c])
<1>1. PICK k \in CallRecord : k = call[c] /\ IsFiniteSet(k.conds)
  BY ReadFacts DEF CallerInv, CallsInv
<1>2. k.op \in Reads /\ k.op \in Keyed
  BY <1>1, ReadFacts DEF Reads, Keyed
<1>3. PICK base, req, addOn, lock, params, s :
        /\ base = CASE k.op = "detailById" -> Word("SELECT")
                                              \o <<Where, Condition("id", TRUE)>>
                    [] OTHER -> Word("SELECT")
        /\ req = [WithConditions(NewRequest, SetToSeq(k.conds), FALSE)
                    EXCEPT !.set = k.set]
        /\ addOn = IF k.op = "detailById" THEN NoAddOn ELSE Selected(req)
        /\ lock = IF OnTrx(c) THEN LockClause(k.lock) ELSE <<>>
        /\ params = IF k.op = "detailById" THEN <<"id">> ELSE <<>>
        /\ s = ReadStatement(base, params, addOn, lock)
  OBVIOUS
<1>4. sent' = [sent EXCEPT ![c] = [stmt |-> s.stmt, params |-> s.params,
                                   table |-> Text(k).table, cols |-> Text(k).cols]]
  BY <1>1, <1>3, Zenon DEF ReadBy
<1>5. /\ sent'[c].stmt = s.stmt
      /\ sent'[c].table = Text(k).table /\ sent'[c].cols = Text(k).cols
  BY <1>4 DEF CallerInv, CallerTypes
<1>6. /\ sent'[c].table = k.table
      /\ k.op \in {"list", "detailById"} => sent'[c].cols = QueryText(k).cols
  BY <1>2, <1>5, TextIsOwn DEF SharedInv
<1>7. Listed(lock) /\ Conds(lock) = {}
  BY <1>3, LockText, TextOne
<1>8. ASSUME Regular(k)
      PROVE  ColumnsOf(Conds(s.stmt)) = Asked(k)
  <2>1. /\ Listed(Word("SELECT")) /\ Conds(Word("SELECT")) = {}
        /\ Listed(<<Where, Condition("id", TRUE)>>)
        /\ Conds(<<Where, Condition("id", TRUE)>>) = {Condition("id", TRUE)}
    BY TextWords
  <2>2. CASE k.op = "detailById"
    <3>1. Listed(base) /\ Conds(base) = {Condition("id", TRUE)}
      <4>1. PICK t, u : t = Word("SELECT") /\ u = <<Where, Condition("id", TRUE)>>
        OBVIOUS
      <4>2. base = t \o u
        BY <1>3, <2>2, <4>1
      <4>3. /\ Listed(t) /\ Conds(t) = {}
            /\ Listed(u) /\ Conds(u) = {Condition("id", TRUE)}
        BY <2>1, <4>1, Zenon
      <4>4. Listed(t \o u) /\ Conds(t \o u) = Conds(t) \cup Conds(u)
        BY <4>3, TextConcat
      <4>5. QED
        BY <4>2, <4>3, <4>4
    <3>2. Listed(addOn.stmt) /\ Conds(addOn.stmt) = {}
      BY <1>3, <2>2, TextOne DEF NoAddOn
    <3>3. Conds(s.stmt) = {Condition("id", TRUE)}
      <4>1. Conds(ReadStatement(base, params, addOn, lock).stmt)
              = Conds(base) \cup Conds(addOn.stmt)
        <5>1. Listed(base) /\ Listed(addOn.stmt)
          BY <3>1, <3>2
        <5>2. QED
          BY <1>7, <5>1, ReadText
      <4>2. QED
        BY <1>3, <3>1, <3>2, <4>1
    <3>4. Asked(k) = {"id"}
      BY <2>2 DEF Asked
    <3>5. QED
      BY <3>3, <3>4, IdText
  <2>3. CASE k.op # "detailById"
    <3>1. AsksFor(WithConditions(NewRequest, SetToSeq(k.conds), FALSE), k)
      BY <1>1, SequenceMeetsAll, RequestsAreFilled
    <3>2. AsksFor(req, k)
      BY <1>3, <3>1, FieldsAreNoConditions
    <3>3. Listed(addOn.stmt) /\ ColumnsOf(Conds(addOn.stmt)) = Sought(k)
      BY <1>3, <1>8, <2>3, <3>2, SelectedText
    <3>4. Listed(base) /\ Conds(base) = {}
      BY <1>3, <2>1, <2>3
    <3>5. Conds(s.stmt) = Conds(addOn.stmt)
      <4>1. Conds(ReadStatement(base, params, addOn, lock).stmt)
              = Conds(base) \cup Conds(addOn.stmt)
        BY <1>7, <3>3, <3>4, ReadText
      <4>2. QED
        BY <1>3, <3>4, <4>1
    <3>6. Asked(k) = Sought(k)
      BY <1>2, <2>3 DEF Asked, Reads, OnId, ById
    <3>7. QED
      BY <3>3, <3>5, <3>6
  <2>4. QED
    BY <2>2, <2>3
<1>9. QED
  BY <1>1, <1>5, <1>6, <1>8 DEF IsOf

\* So is what an Upsert counts by, whatever it decides.
LEMMA CountIsOwn ==
  ASSUME CallerInv, SharedInv, NEW c \in Caller, Count(c)
  PROVE  \/ UNCHANGED <<sent, action, request, held>>
         \/ /\ \A d \in Caller : d # c => sent'[d] = sent[d]
            /\ \A act : IsOf(sent'[c], call[c], act)
<1>1. PICK k \in CallRecord : k = call[c]
  BY CountFacts DEF CallerInv, CallsInv
<1>2. pc[c] = "reading" /\ k.op = "upsert"
  BY <1>1, CountFacts
<1>3. AsksFor(request[held[c][1]], k)
  BY <1>1, <1>2 DEF SharedInv, OwnInv
<1>4. PICK req, addOn, s :
        /\ req = request[held[c][1]]
        /\ addOn = Selected(req)
        /\ s = ReadStatement(Word("SELECT"), <<>>, addOn, <<>>)
  OBVIOUS
<1>5. \/ UNCHANGED <<sent, action, request, held>>
      \/ sent' = [sent EXCEPT ![c] = [stmt |-> s.stmt, params |-> s.params,
                                      table |-> k.table, cols |-> <<>>]]
  BY <1>1, <1>4, Zenon DEF Count
<1>6. ASSUME sent' = [sent EXCEPT ![c] = [stmt |-> s.stmt, params |-> s.params,
                                          table |-> k.table, cols |-> <<>>]],
             NEW act
      PROVE  IsOf(sent'[c], k, act)
  <2>1. sent'[c].stmt = s.stmt /\ sent'[c].table = k.table
    BY <1>6 DEF CallerInv, CallerTypes
  <2>2. ASSUME Regular(k)
        PROVE  ColumnsOf(Conds(s.stmt)) = Asked(k)
    <3>1. Listed(addOn.stmt) /\ ColumnsOf(Conds(addOn.stmt)) = Sought(k)
      BY <1>3, <1>4, <2>2, SelectedText
    <3>2. PICK base, lock, params : base = Word("SELECT") /\ lock = <<>> /\ params = <<>>
      OBVIOUS
    <3>3. Listed(base) /\ Conds(base) = {} /\ Listed(lock) /\ Conds(lock) = {}
      BY <3>2, TextWords, TextOne
    <3>4. Conds(ReadStatement(base, params, addOn, lock).stmt)
            = Conds(base) \cup Conds(addOn.stmt)
      BY <3>1, <3>3, ReadText
    <3>5. Conds(s.stmt) = Conds(addOn.stmt)
      BY <1>4, <3>2, <3>3, <3>4
    <3>6. Asked(k) = Sought(k)
      BY <1>2 DEF Asked, OnId, ById
    <3>7. QED
      BY <3>1, <3>5, <3>6
  <2>3. QED
    BY <1>2, <2>1, <2>2 DEF IsOf
<1>7. QED
  BY <1>1, <1>5, <1>6 DEF CallerInv, CallerTypes

\* And what a write sends.
LEMMA WriteIsOwn ==
  ASSUME CallerInv, SharedInv, NEW c \in Caller, pc[c] = "writing", NEW order,
         Write(c, order)
  PROVE  \/ sent' = sent
         \/ /\ \A d \in Caller : d # c => sent'[d] = sent[d]
            /\ IsOf(sent'[c], call[c], action[c])
<1>1. PICK k \in CallRecord, act \in Operations \cup {Nil} : k = call[c] /\ act = action[c]
  BY DEF CallerInv, CallerTypes, CallsInv
<1>2. /\ act = k.op \/ (k.op = "upsert" /\ act \in {"update", "insert"})
      /\ act \notin Reads \cup {"upsert"} /\ act \in Operations
      /\ act \in OnRequest => held[c] # <<>> /\ AsksFor(request[Last(held[c])], k)
  <2>1. k.op \in Operations
    BY DEF CallRecord
  <2>2. QED
    <3>1. /\ act = k.op \/ (k.op = "upsert" /\ act \in {"update", "insert"})
          /\ act \notin Reads \cup {"upsert"}
      BY <1>1 DEF SharedInv, OwnInv
    <3>2. act \in OnRequest => held[c] # <<>> /\ AsksFor(request[Last(held[c])], k)
      BY <1>1 DEF SharedInv, OwnInv
    <3>3. QED
      BY <2>1, <3>1, <3>2 DEF Operations
<1>3. PICK d, req, selects, addOn, s, table :
        /\ d = Data(act, k, order)
        /\ req = request[Last(held[c])]
        /\ selects = (held[c] # <<>> /\ act \in {"update", "delete"})
        /\ addOn = IF selects THEN AddOn(req) ELSE NoAddOn
        /\ s = WriteStatement(act, d, SoftDelete, addOn)
        /\ table = IF act = "deleteById" /\ ~OnTrx(c) THEN Text(k).table ELSE k.table
  OBVIOUS
<1>4. \/ sent' = sent
      \/ sent' = [sent EXCEPT ![c] = [stmt |-> s.stmt, params |-> s.params,
                                      table |-> table, cols |-> <<>>]]
  BY <1>1, <1>3, Zenon DEF Write
<1>5. ASSUME sent' = [sent EXCEPT ![c] = [stmt |-> s.stmt, params |-> s.params,
                                          table |-> table, cols |-> <<>>]]
      PROVE  IsOf(sent'[c], k, act)
  <2>1. sent'[c].stmt = s.stmt /\ sent'[c].table = table
    BY <1>5 DEF CallerInv, CallerTypes
  <2>2. table = k.table
    <3>1. act = "deleteById" => Text(k).table = k.table
      BY <1>2, TextIsOwn DEF SharedInv, Keyed
    <3>2. QED
      BY <1>3, <3>1
  <2>3. k.op \notin {"list", "detailById"}
    BY <1>2 DEF Reads
  <2>4. ASSUME act \notin Inserts, Regular(k)
        PROVE  ColumnsOf(Conds(s.stmt)) = Asked(k)
    <3>1. act \in OnRequest \cup OnId
      BY <1>2, <2>4 DEF Inserts, OnRequest, OnId, ById, Operations, Reads
    <3>2. CASE act \in OnRequest
      <4>1. /\ Listed(AddOn(req).stmt) /\ Conds(AddOn(req).stmt) = WhereOf(req)
            /\ ColumnsOf(WhereOf(req)) = Sought(k)
        BY <1>2, <1>3, <2>4, <3>2, AddOnText DEF AsksFor
      <4>2. addOn = AddOn(req)
        BY <1>2, <1>3, <3>2 DEF OnRequest
      <4>3. Asked(k) = Sought(k) /\ act \notin OnId
        BY <1>2, <3>2 DEF Asked, OnRequest, OnId, ById
      <4>4. QED
        <5>1. ColumnsOf(Conds(WriteStatement(act, d, SoftDelete, addOn).stmt))
                = (IF act \in OnId THEN {"id"} ELSE {}) \cup ColumnsOf(Conds(addOn.stmt))
          <6>1. Listed(addOn.stmt) 
            BY <4>1, <4>2
          <6>2. QED
            BY <3>1, <6>1, WriteText
        <5>2. QED
          BY <1>3, <4>1, <4>2, <4>3, <5>1
    <3>3. CASE act \in OnId
      <4>1. addOn = NoAddOn
        BY <1>3, <3>3 DEF OnId, ById
      <4>2. Listed(addOn.stmt) /\ ColumnsOf(Conds(addOn.stmt)) = {}
        BY <4>1, TextOne, IdText DEF NoAddOn
      <4>3. Asked(k) = {"id"}
        BY <1>2, <3>3 DEF Asked, OnId, ById
      <4>4. QED
        <5>1. ColumnsOf(Conds(WriteStatement(act, d, SoftDelete, addOn).stmt))
                = (IF act \in OnId THEN {"id"} ELSE {}) \cup ColumnsOf(Conds(addOn.stmt))
          <6>1. Listed(addOn.stmt) 
            BY <4>2
          <6>2. QED
            BY <3>1, <6>1, WriteText
        <5>2. QED
          BY <1>3, <3>3, <4>2, <4>3, <5>1
    <3>4. QED
      BY <3>1, <3>2, <3>3
  <2>5. QED
    BY <2>1, <2>2, <2>3, <2>4 DEF IsOf
<1>6. QED
  BY <1>1, <1>4, <1>5 DEF CallerInv, CallerTypes


\* The step of one caller: the others, and their requests, stay as they are.
LEMMA OneStep ==
  ASSUME CallerInv, SharedInv, NEW c \in Caller,
         \A d \in Caller : d # c =>
           /\ pc'[d] = pc[d] /\ call'[d] = call[d] /\ action'[d] = action[d]
           /\ held'[d] = held[d] /\ sent'[d] = sent[d]
           /\ \A o \in ToSet(held[d]) : request'[o] = request[o],
         \A a, b \in Caller : a # b => ToSet(held'[a]) \cap ToSet(held'[b]) = {},
         QueriesInv', OwnInv(c)'
  PROVE  SharedInv'
<1>1. ASSUME NEW d \in Caller
      PROVE  OwnInv(d)'
  <2>1. CASE d = c
    BY <2>1
  <2>2. CASE d # c
    <3>1. OwnInv(d)
      BY DEF SharedInv
    <3>2. QED
      BY <2>2, <3>1, OwnStays
  <2>3. QED
    BY <2>1, <2>2
<1>2. QED
  BY <1>1 DEF SharedInv

\* Caches that are left alone stay right.
LEMMA QueriesStay ==
  ASSUME QueriesInv, UNCHANGED queries
  PROVE  QueriesInv'
BY DEF QueriesInv

\* A request that a caller takes is the last it holds.
LEMMA LastIsTaken ==
  ASSUME CallerInv, NEW c \in Caller, NEW o \in Request, NEW req, Take(c, o, req)
  PROVE  /\ held'[c] # <<>> /\ request'[Last(held'[c])] = req
         /\ held[c] = <<>> => request'[held'[c][1]] = req
<1>1. request'[o] = req /\ held'[c] = Append(held[c], o) /\ held[c] \in Seq(Request)
  BY TakeFacts DEF CallerInv, CallerTypes
<1>2. ASSUME NEW h \in Seq(Request)
      PROVE  /\ Append(h, o) # <<>> /\ Last(Append(h, o)) = o
             /\ h = <<>> => Append(h, o)[1] = o
  <2>1. /\ Append(h, o) \in Seq(Request) /\ Len(Append(h, o)) = Len(h) + 1
        /\ Append(h, o)[Len(h) + 1] = o /\ Len(h) \in Nat
    BY AppendProperties, LenProperties
  <2>2. Append(h, o) # <<>>
    BY <2>1, EmptySeq
  <2>3. QED
    BY <2>1, <2>2, EmptySeq DEF Last
<1>3. QED
  BY <1>1, <1>2

\* A request that a caller takes for a call is the last it holds, and asks for
\* the conditions of the call.
LEMMA TakenIsOwn ==
  ASSUME CallerInv, NEW c \in Caller, NEW k \in CallRecord, IsFiniteSet(k.conds),
         NEW conds \in SetToSeqs(k.conds), NEW o \in Request, NEW include, NEW req,
         Take(c, o, req),
         \/ req = WithConditions(Obtained(o), conds, include)
         \/ req = WithConditions(Obtained(o), Normal(conds), include)
  PROVE  /\ held'[c] # <<>> /\ AsksFor(request'[Last(held'[c])], k)
         /\ held[c] = <<>> => AsksFor(request'[held'[c][1]], k)
<1>1. AsksFor(req, k)
  <2>1. PICK r : r = Obtained(o)
    OBVIOUS
  <2>2. r = NewRequest \/ \E p : r = Reset(p)
    BY <2>1 DEF Obtained
  <2>3. QED
    BY <2>1, <2>2, RequestsAreFilled
<1>2. QED
  BY <1>1, LastIsTaken


\* A call that begins has taken the requests it needs, for itself.
LEMMA BeginIsShared ==
  ASSUME CallerInv, SharedInv, NEW c \in Caller, Begin(c)
  PROVE  SharedInv'
<1>1. PICK k \in Calls[calls + 1] :
        /\ pc[c] = "idle" /\ calls < MaxCalls
        /\ call' = [call EXCEPT ![c] = k]
        /\ action' = [action EXCEPT ![c] = k.op]
        /\ IF k.op \in NeedsRequest
           THEN \E o \in Request : \E conds \in SetToSeqs(k.conds) :
                  Take(c, o, IF k.op = "upsert"
                             THEN WithConditions(Obtained(o), Normal(conds), FALSE)
                             ELSE WithConditions(Obtained(o), conds, TRUE))
           ELSE UNCHANGED <<request, pool, held>>
        /\ pc' = [pc EXCEPT ![c] = IF k.op \in Reads \cup {"upsert"}
                                   THEN "reading" ELSE "writing"]
        /\ UNCHANGED <<queries, sent>>
  BY Zenon DEF Begin, Goto
<1>2. k \in CallRecord /\ IsFiniteSet(k.conds) /\ k.op \in Operations
  <2>1. k \in CallRecord /\ IsFiniteSet(k.conds)
    BY <1>1, CallsFacts DEF CallerInv, CallerTypes
  <2>2. QED
    BY <2>1 DEF CallRecord
<1>3. held[c] = <<>> /\ sent[c] = Nil /\ sent'[c] = Nil
  BY <1>1 DEF SharedInv, OwnInv
<1>4. /\ call'[c] = k /\ action'[c] = k.op
      /\ pc'[c] = IF k.op \in Reads \cup {"upsert"} THEN "reading" ELSE "writing"
      /\ \A d \in Caller : d # c =>
           pc'[d] = pc[d] /\ call'[d] = call[d] /\ action'[d] = action[d] /\ sent'[d] = sent[d]
  BY <1>1 DEF CallerInv, CallerTypes, CallsInv
<1>5. CASE k.op \in NeedsRequest
  <2>1. PICK o \in Request, conds \in SetToSeqs(k.conds) :
          Take(c, o, IF k.op = "upsert"
                     THEN WithConditions(Obtained(o), Normal(conds), FALSE)
                     ELSE WithConditions(Obtained(o), conds, TRUE))
    BY <1>1, <1>5
  <2>2. PICK req : /\ Take(c, o, req)
                   /\ \/ req = WithConditions(Obtained(o), Normal(conds), FALSE)
                      \/ req = WithConditions(Obtained(o), conds, TRUE)
    BY <2>1
  <2>3. /\ held'[c] # <<>> /\ AsksFor(request'[Last(held'[c])], k)
        /\ AsksFor(request'[held'[c][1]], k)
    BY <1>2, <1>3, <2>2, TakenIsOwn
  <2>4. /\ \A d \in Caller : d # c =>
             held'[d] = held[d] /\ \A p \in ToSet(held[d]) : request'[p] = request[p]
        /\ \A a, b \in Caller : a # b => ToSet(held'[a]) \cap ToSet(held'[b]) = {}
    BY <2>2, TakeLeavesOthers
  <2>5. OwnInv(c)'
    BY <1>2, <1>3, <1>4, <2>3 DEF OwnInv
  <2>6. QueriesInv'
    BY <1>1, QueriesStay DEF SharedInv
  <2>7. QED
    BY <1>4, <2>4, <2>5, <2>6, OneStep
<1>6. CASE k.op \notin NeedsRequest
  <2>1. UNCHANGED <<request, held>>
    BY <1>1, <1>6
  <2>2. k.op \notin OnRequest \cup {"upsert"}
    BY <1>6 DEF NeedsRequest, OnRequest
  <2>3. OwnInv(c)'
    BY <1>2, <1>3, <1>4, <2>2 DEF OwnInv
  <2>4. QueriesInv' /\ \A a, b \in Caller : a # b => ToSet(held'[a]) \cap ToSet(held'[b]) = {}
    BY <1>1, <2>1, QueriesStay DEF SharedInv
  <2>5. QED
    BY <1>4, <2>1, <2>3, <2>4, OneStep
<1>7. QED
  BY <1>5, <1>6

\* Whether a call is regular does not depend on its page.
LEMMA PageIsRegular ==
  ASSUME NEW k \in CallRecord, NEW set, NEW j, j = [k EXCEPT !.set = set]
  PROVE  /\ j.op = k.op /\ j.conds = k.conds /\ j.row = k.row /\ j.table = k.table
         /\ Regular(j) => Regular(k)
<1>1. /\ j.op = k.op /\ j.conds = k.conds /\ j.row = k.row /\ j.rows = k.rows
      /\ j.table = k.table
  BY DEF CallRecord
<1>2. QED
  BY <1>1 DEF Regular, BulkRows

\* A page is not a condition.
LEMMA PageIsNoCondition ==
  ASSUME NEW k \in CallRecord, NEW set, NEW s, NEW act, IsOf(s, k, act),
         k.op = "count"
  PROVE  IsOf(s, [k EXCEPT !.set = set], act)
<1>1. PICK j : j = [k EXCEPT !.set = set]
  OBVIOUS
<1>2. /\ j.op = k.op /\ j.conds = k.conds /\ j.row = k.row /\ j.table = k.table
  BY <1>1, PageIsRegular
<1>3. Regular(j) => Regular(k)
  BY <1>1, PageIsRegular
<1>4. Asked(j) = Asked(k)
  BY <1>2 DEF Asked, Sought
<1>5. IsOf(s, j, act)
  BY <1>2, <1>3, <1>4 DEF IsOf
<1>6. QED
  BY <1>1, <1>5

\* A read sends what its call is about, and remembers no other text.
LEMMA ReadIsShared ==
  ASSUME CallerInv, SharedInv, NEW c \in Caller, ReadBy(c)
  PROVE  SharedInv'
<1>1. PICK k \in CallRecord : k = call[c]
  BY ReadFacts DEF CallerInv, CallsInv
<1>2. /\ pc[c] = "reading" /\ k.op \in Reads /\ UNCHANGED <<request, pool, action, held>>
      /\ \/ /\ k.op = "count" /\ pc' = pc
            /\ call' = [call EXCEPT ![c].set = @ \ {"Page"}]
         \/ pc' = [pc EXCEPT ![c] = "returning"] /\ call' = call
  BY <1>1, ReadFacts
<1>3. /\ \E x : sent' = [sent EXCEPT ![c] = x]
      /\ IF k.op = "count" THEN UNCHANGED queries ELSE Remember(k)
  BY <1>1, Zenon DEF ReadBy
<1>4. action[c] = k.op /\ k.op \in Keyed
  <2>1. action[c] = k.op \/ k.op = "upsert"
    BY <1>1, <1>2 DEF SharedInv, OwnInv
  <2>2. QED
    BY <1>2, <2>1 DEF Reads, Keyed
<1>5. IsOf(sent'[c], k, action[c])
  BY <1>1, ReadIsOwn
<1>6. PICK j : j = call'[c]
  OBVIOUS
<1>7. \/ j = k /\ pc'[c] = "returning"
      \/ k.op = "count" /\ pc'[c] = "reading" /\ j = [k EXCEPT !.set = @ \ {"Page"}]
  BY <1>1, <1>2, <1>6 DEF CallerInv, CallerTypes, CallsInv
<1>8. j.op = k.op /\ IsOf(sent'[c], j, action[c])
  <2>1. PICK s, act, set : s = sent'[c] /\ act = action[c] /\ set = k.set \ {"Page"}
    OBVIOUS
  <2>2. k.op = "count" => IsOf(s, [k EXCEPT !.set = set], act)
    BY <1>5, <2>1, PageIsNoCondition
  <2>3. CASE j = k
    BY <1>5, <2>3
  <2>4. CASE k.op = "count" /\ j = [k EXCEPT !.set = @ \ {"Page"}]
    <3>1. j = [k EXCEPT !.set = set]
      BY <2>1, <2>4
    <3>2. j.op = k.op
      BY <3>1 DEF CallRecord
    <3>3. QED
      BY <2>1, <2>2, <2>4, <3>1, <3>2
  <2>5. QED
    BY <1>7, <2>3, <2>4
<1>9. OwnInv(c)'
  BY <1>2, <1>4, <1>6, <1>7, <1>8 DEF OwnInv, Reads
<1>10. QueriesInv'
  BY <1>3, <1>4, QueriesStay, RememberedIsOwn DEF SharedInv
<1>11. \A a, b \in Caller : a # b => ToSet(held'[a]) \cap ToSet(held'[b]) = {}
  BY <1>2 DEF SharedInv
<1>12. \A d \in Caller : d # c =>
         pc'[d] = pc[d] /\ call'[d] = call[d] /\ action'[d] = action[d] /\ sent'[d] = sent[d]
  BY <1>2, <1>3 DEF CallerInv, CallerTypes, CallsInv
<1>13. QED
  BY <1>2, <1>9, <1>10, <1>11, <1>12, OneStep


\* An Upsert that has counted holds the request of its update.
LEMMA CountIsShared ==
  ASSUME CallerInv, SharedInv, NEW c \in Caller, Count(c)
  PROVE  SharedInv'
<1>1. PICK k \in CallRecord : k = call[c] /\ IsFiniteSet(k.conds)
  BY CountFacts DEF CallerInv, CallsInv
<1>2. /\ pc[c] = "reading" /\ k.op = "upsert" /\ UNCHANGED <<queries, call>>
      /\ \/ /\ UNCHANGED <<request, held, action>>
            /\ pc' = [pc EXCEPT ![c] = "returning"]
         \/ /\ pc' = [pc EXCEPT ![c] = "writing"]
            /\ action' = [action EXCEPT ![c] = Decide(follower[call[c].table])]
            /\ \/ UNCHANGED <<request, held>> /\ action'[c] # "update"
               \/ \E o \in Request : \E conds \in SetToSeqs(k.conds) :
                    Take(c, o, WithConditions(Obtained(o), conds, TRUE))
  BY <1>1, CountFacts
<1>3. \A d \in Caller : d # c =>
        pc'[d] = pc[d] /\ call'[d] = call[d] /\ action'[d] = action[d] /\ sent'[d] = sent[d]
  BY <1>2, CountIsOwn DEF CallerInv, CallerTypes
<1>4. PICK act : act = action'[c]
  OBVIOUS
<1>5. sent'[c] # Nil => IsOf(sent'[c], k, act)
  <2>1. CASE UNCHANGED <<sent, action>>
    BY <1>1, <1>2, <1>4, <2>1 DEF SharedInv, OwnInv
  <2>2. CASE \A a : IsOf(sent'[c], call[c], a)
    BY <1>1, <2>2
  <2>3. QED
    BY <2>1, <2>2, CountIsOwn
<1>6. act = k.op \/ act \in {"update", "insert"}
  <2>1. action[c] = k.op \/ action[c] \in {"update", "insert"}
    BY <1>1, <1>2 DEF SharedInv, OwnInv
  <2>2. QED
    BY <1>2, <1>4, <2>1 DEF Decide, CallerInv, CallerTypes
<1>7. call'[c] = k
  BY <1>1, <1>2
<1>8. QueriesInv'
  BY <1>2, QueriesStay DEF SharedInv
<1>9. CASE pc' = [pc EXCEPT ![c] = "returning"] /\ UNCHANGED <<request, held, action>>
  <2>1. pc'[c] = "returning"
    BY <1>9 DEF CallerInv, CallerTypes
  <2>2. OwnInv(c)'
    BY <1>2, <1>4, <1>5, <1>6, <1>7, <2>1 DEF OwnInv
  <2>3. \A a, b \in Caller : a # b => ToSet(held'[a]) \cap ToSet(held'[b]) = {}
    BY <1>9 DEF SharedInv
  <2>4. QED
    BY <1>3, <1>8, <1>9, <2>2, <2>3, OneStep
<1>10. CASE /\ pc' = [pc EXCEPT ![c] = "writing"]
            /\ action' = [action EXCEPT ![c] = Decide(follower[call[c].table])]
  <2>1. pc'[c] = "writing" /\ act \in {"update", "insert"}
    BY <1>4, <1>10 DEF CallerInv, CallerTypes, Decide
  <2>2. CASE UNCHANGED <<request, held>> /\ action'[c] # "update"
    <3>1. OwnInv(c)'
      BY <1>2, <1>4, <1>5, <1>7, <2>1, <2>2 DEF OwnInv, OnRequest, Reads
    <3>2. \A a, b \in Caller : a # b => ToSet(held'[a]) \cap ToSet(held'[b]) = {}
      BY <2>2 DEF SharedInv
    <3>3. QED
      BY <1>3, <1>8, <2>2, <3>1, <3>2, OneStep
  <2>3. CASE \E o \in Request : \E conds \in SetToSeqs(k.conds) :
               Take(c, o, WithConditions(Obtained(o), conds, TRUE))
    <3>1. PICK o \in Request, conds \in SetToSeqs(k.conds) :
            Take(c, o, WithConditions(Obtained(o), conds, TRUE))
      BY <2>3
    <3>2. PICK req : Take(c, o, req) /\ req = WithConditions(Obtained(o), conds, TRUE)
      BY <3>1
    <3>3. held'[c] # <<>> /\ AsksFor(request'[Last(held'[c])], k)
      BY <1>1, <3>2, TakenIsOwn
    <3>4. /\ \A d \in Caller : d # c =>
               held'[d] = held[d] /\ \A p \in ToSet(held[d]) : request'[p] = request[p]
          /\ \A a, b \in Caller : a # b => ToSet(held'[a]) \cap ToSet(held'[b]) = {}
      BY <3>2, TakeLeavesOthers
    <3>5. OwnInv(c)'
      BY <1>2, <1>4, <1>5, <1>7, <2>1, <3>3 DEF OwnInv, Reads
    <3>6. QED
      BY <1>3, <1>8, <3>4, <3>5, OneStep
  <2>4. QED
    BY <1>2, <1>10, <2>1, <2>2, <2>3 DEF CallerInv, CallerTypes
<1>11. QED
  BY <1>2, <1>9, <1>10

\* A write sends what its call is about.
LEMMA WriteIsShared ==
  ASSUME CallerInv, SharedInv, NEW c \in Caller, pc[c] = "writing", NEW order,
         Write(c, order)
  PROVE  SharedInv'
<1>1. PICK k \in CallRecord : k = call[c]
  BY DEF CallerInv, CallsInv
<1>2. /\ UNCHANGED <<request, call, action, held>>
      /\ pc' = [pc EXCEPT ![c] = "returning"]
  BY WriteFacts
<1>3. pc'[c] = "returning"
  BY <1>2 DEF CallerInv, CallerTypes
<1>4. \A d \in Caller : d # c =>
        pc'[d] = pc[d] /\ call'[d] = call[d] /\ action'[d] = action[d] /\ sent'[d] = sent[d]
  BY <1>2, WriteIsOwn DEF CallerInv, CallerTypes
<1>5. sent'[c] # Nil => IsOf(sent'[c], call[c], action[c])
  <2>1. CASE sent' = sent
    BY <2>1 DEF SharedInv, OwnInv
  <2>2. QED
    BY <2>1, WriteIsOwn
<1>6. OwnInv(c)'
  <2>1. action[c] = call[c].op \/ (call[c].op = "upsert" /\ action[c] \in {"update", "insert"})
    BY DEF SharedInv, OwnInv
  <2>2. QED
    BY <1>2, <1>3, <1>5, <2>1 DEF OwnInv
<1>7. QueriesInv'
  <2>1. \/ UNCHANGED queries
        \/ action[c] = "deleteById" /\ Remember(k)
    BY <1>1, Zenon DEF Write
  <2>2. action[c] = "deleteById" => k.op \in Keyed
    BY <1>1 DEF SharedInv, OwnInv, Keyed
  <2>3. QED
    BY <2>1, <2>2, QueriesStay, RememberedIsOwn DEF SharedInv
<1>8. \A a, b \in Caller : a # b => ToSet(held'[a]) \cap ToSet(held'[b]) = {}
  BY <1>2 DEF SharedInv
<1>9. QED
  BY <1>2, <1>4, <1>6, <1>7, <1>8, OneStep

\* A call that returns puts back its own requests, and no other's.
LEMMA ReturnIsShared ==
  ASSUME CallerInv, SharedInv, NEW c \in Caller, Return(c)
  PROVE  SharedInv'
<1>1. /\ request' = [o \in Request |-> IF o \in ToSet(held[c]) THEN Reset(request[o])
                                                              ELSE request[o]]
      /\ held' = [held EXCEPT ![c] = <<>>] /\ pc' = [pc EXCEPT ![c] = "idle"]
      /\ call' = [call EXCEPT ![c] = Nil] /\ action' = [action EXCEPT ![c] = Nil]
      /\ sent' = [sent EXCEPT ![c] = Nil] /\ UNCHANGED queries
  BY DEF Return, PutAll, Goto
<1>2. /\ pc'[c] = "idle" /\ held'[c] = <<>> /\ sent'[c] = Nil
      /\ \A d \in Caller : d # c =>
           /\ pc'[d] = pc[d] /\ call'[d] = call[d] /\ action'[d] = action[d]
           /\ held'[d] = held[d] /\ sent'[d] = sent[d]
  BY <1>1 DEF CallerInv, CallerTypes, CallsInv
<1>3. ASSUME NEW d \in Caller, d # c, NEW o \in ToSet(held[d])
      PROVE  request'[o] = request[o]
  <2>1. o \in Request
    <3>1. PICK h \in Seq(Request) : h = held[d]
      BY DEF CallerInv, CallerTypes
    <3>2. ToSet(h) \subseteq Request
      BY ElementOfSeq, LenProperties DEF ToSet
    <3>3. QED
      BY <3>1, <3>2
  <2>2. o \notin ToSet(held[c])
    BY <1>3 DEF SharedInv
  <2>3. QED
    BY <1>1, <2>1, <2>2
<1>4. OwnInv(c)'
  BY <1>2 DEF OwnInv
<1>5. QueriesInv'
  BY <1>1, QueriesStay DEF SharedInv
<1>6. ToSet(<<>>) = {}
  BY DEF ToSet
<1>7. \A a, b \in Caller : a # b => ToSet(held'[a]) \cap ToSet(held'[b]) = {}
  BY <1>2, <1>6 DEF SharedInv
<1>8. QED
  BY <1>2, <1>3, <1>4, <1>5, <1>7, OneStep

\* Every step leaves each caller what is its own.
LEMMA SharedStep ==
  ASSUME CallerInv, SharedInv, [Next]_vars
  PROVE  SharedInv'
<1>1. ASSUME UNCHANGED <<queries, request, held, pc, call, action, sent>>
      PROVE  SharedInv'
  <2>1. QueriesInv'
    BY <1>1, QueriesStay DEF SharedInv
  <2>2. \A d \in Caller : OwnInv(d)'
    BY <1>1, OwnStays DEF SharedInv
  <2>3. QED
    BY <1>1, <2>1, <2>2 DEF SharedInv
<1>2. CASE \E c \in Caller : BeginTrx(c)
  BY <1>1, <1>2 DEF BeginTrx, shared
<1>3. CASE \E c \in Caller : FinishTrx(c)
  BY <1>1, <1>3 DEF FinishTrx, shared
<1>4. CASE Replicate
  BY <1>1, <1>4 DEF Replicate, shared
<1>5. CASE UNCHANGED vars
  BY <1>1, <1>5 DEF vars
<1>6. QED
  BY <1>2, <1>3, <1>4, <1>5, BeginIsShared, ReadIsShared, CountIsShared, WriteIsShared,
     ReturnIsShared DEF Next

\* At the start nobody holds a request or has sent a statement.
LEMMA SharedStarts == Init => SharedInv
<1>1. SUFFICES ASSUME Init
               PROVE  SharedInv
  OBVIOUS
<1>2. /\ queries = {}
      /\ \A c \in Caller : pc[c] = "idle" /\ held[c] = <<>> /\ sent[c] = Nil
  BY <1>1 DEF Init
<1>3. ToSet(<<>>) = {}
  BY DEF ToSet
<1>4. QueriesInv
  BY <1>2 DEF QueriesInv
<1>5. \A c \in Caller : OwnInv(c)
  BY <1>2 DEF OwnInv
<1>6. QED
  BY <1>2, <1>3, <1>4, <1>5 DEF SharedInv

\* The statement of a call is about its own table, columns and conditions,
\* whoever filled the caches and used the requests before (StatementIsOwn).
THEOREM StatementsAreOwn == Spec => []StatementIsOwn
<1>1. ASSUME SharedInv
      PROVE  StatementIsOwn
  <2>1. ASSUME NEW c \in Caller, sent[c] # Nil
        PROVE  IsOf(sent[c], call[c], action[c])
    BY <1>1, <2>1 DEF SharedInv, OwnInv
  <2>2. ASSUME NEW s
        PROVE  UNION {ToSet(s[i].holes) : i \in {j \in DOMAIN s : s[j].name = "condition"}}
                 = ColumnsOf(Conds(s))
    BY DEF ColumnsOf, Conds, Range
  <2>3. ASSUME NEW k
        PROVE  Asked(k) = IF k.op \in ById \cup {"deleteById", "detailById"}
                          THEN {"id"}
                          ELSE {x.col : x \in {y \in k.conds : y.value # Nil}}
    BY DEF Asked, Sought, OnId
  <2>4. QED
    BY <2>1, <2>2, <2>3, Zenon DEF StatementIsOwn, IsOf, Inserts
<1>2. QED
  BY <1>1, CallerStarts, CallerStep, SharedStarts, SharedStep, PTL DEF Spec

(***************************************************************************)
(* FlattenSeq, for sequences of any length.  It is a function of the        *)
(* lengths: what is not so of every length is not so of a least one.        *)
(***************************************************************************)

\* A set of numbers has a least one: what is not so for every number is not so
\* for a first one.
LEMMA LeastNat ==
  ASSUME NEW T, T \subseteq Nat, T # {}
  PROVE  \E x \in T : \A y \in T : x <= y
<1>1. PICK R : R = OpToRel(<, Nat)
  OBVIOUS
<1>2. \A a \in Nat, b \in Nat : <<a, b>> \in R <=> a < b
  BY <1>1 DEF OpToRel
<1>3. IsWellFoundedOn(R, Nat)
  BY <1>1, NatLessThanWellFounded
<1>4. PICK x \in T : \A y \in T : ~(<<y, x>> \in R)
  BY <1>3, WFMin
<1>5. ASSUME NEW y \in T
      PROVE  x <= y
  <2>1. x \in Nat /\ y \in Nat
    OBVIOUS
  <2>2. ~(y < x)
    BY <1>2, <1>4, <2>1
  <2>3. QED
    BY <2>1, <2>2
<1>6. QED
  BY <1>5

\* FlattenSeq, step by step: g[i] joins the first i sequences of s.
Joins(g, s, n) ==
  g = [i \in 1 .. n |-> IF i = 1 THEN s[i] ELSE g[i - 1] \o s[i]]

\* There is such a function,
LEMMA JoinsExists ==
  ASSUME NEW s, NEW n \in Nat \ {0}
  PROVE  \E g : Joins(g, s, n)
<1> DEFINE T == {m \in Nat \ {0} : ~ \E g : Joins(g, s, m)}
<1>1. SUFFICES ASSUME T # {}
               PROVE  FALSE
  OBVIOUS
<1>2. PICK m \in T : \A k \in T : m <= k
  BY <1>1, LeastNat
<1>3. CASE m = 1
  <2>1. PICK g : g = [i \in 1 .. 1 |-> s[i]]
    OBVIOUS
  <2>2. Joins(g, s, 1)
    BY <2>1 DEF Joins
  <2>3. QED
    BY <1>2, <1>3, <2>2
<1>4. CASE m # 1
  <2>1. m - 1 \in Nat \ {0} /\ ~ (m <= m - 1)
    BY <1>4
  <2>2. PICK g : Joins(g, s, m - 1)
    BY <1>2, <2>1
  <2>3. PICK h : h = [i \in 1 .. m |-> IF i = m THEN g[m - 1] \o s[m] ELSE g[i]]
    OBVIOUS
  <2>4. ASSUME NEW i \in 1 .. m
        PROVE  h[i] = IF i = 1 THEN s[i] ELSE h[i - 1] \o s[i]
    <3>1. CASE i = m
      <4>1. h[i - 1] = g[m - 1] /\ i # 1
        BY <1>4, <2>1, <2>3, <3>1
      <4>2. QED
        BY <2>3, <3>1, <4>1
    <3>2. CASE i # m
      <4>1. i \in 1 .. (m - 1) /\ h[i] = g[i]
        BY <2>3, <3>2
      <4>2. g[i] = IF i = 1 THEN s[i] ELSE g[i - 1] \o s[i]
        BY <2>2, <4>1 DEF Joins
      <4>3. i # 1 => h[i - 1] = g[i - 1]
        BY <2>3, <4>1
      <4>4. QED
        BY <4>1, <4>2, <4>3
    <3>3. QED
      BY <3>1, <3>2
  <2>5. Joins(h, s, m)
    BY <2>3, <2>4 DEF Joins
  <2>6. QED
    BY <1>2, <2>5
<1>5. QED
  BY <1>3, <1>4

\* which gives FlattenSeq,
LEMMA FlattenJoins ==
  ASSUME NEW S, NEW s \in Seq(S), s # <<>>
  PROVE  \E g : Joins(g, s, Len(s)) /\ FlattenSeq(s) = g[Len(s)]
<1>1. PICK n \in Nat \ {0} : n = Len(s)
  BY EmptySeq
<1>2. PICK f : /\ f = CHOOSE g : g = [i \in 1 .. n |-> IF i = 1 THEN s[i] ELSE g[i - 1] \o s[i]]
               /\ FlattenSeq(s) = f[n]
  BY <1>1, Zenon DEF FlattenSeq
<1>3. \E g : g = [i \in 1 .. n |-> IF i = 1 THEN s[i] ELSE g[i - 1] \o s[i]]
  BY <1>1, JoinsExists DEF Joins
<1>4. Joins(f, s, n)
  BY <1>2, <1>3, Zenon DEF Joins
<1>5. QED
  BY <1>1, <1>2, <1>4

\* Two sequences have the same first n elements.
Agree(s, t, n) == \A i \in 1 .. n : s[i] = t[i]
\* by what it joins alone: two functions that join the same are the same.
LEMMA JoinsUnique ==
  ASSUME NEW s, NEW t, NEW f, NEW g, NEW n \in Nat \ {0}, NEW m \in Nat \ {0}, n <= m,
         Joins(f, s, n), Joins(g, t, m), Agree(s, t, n)
  PROVE  f[n] = g[n]
<1> DEFINE T == {i \in 1 .. n : f[i] # g[i]}
<1>1. SUFFICES ASSUME T # {}
               PROVE  FALSE
  OBVIOUS
<1>2. PICK i \in T : \A k \in T : i <= k
  <2>1. T \subseteq Nat
    OBVIOUS
  <2>2. QED
    BY <1>1, <2>1, LeastNat
<1>3. /\ f[i] = IF i = 1 THEN s[i] ELSE f[i - 1] \o s[i]
      /\ g[i] = IF i = 1 THEN t[i] ELSE g[i - 1] \o t[i]
  <2>1. i \in 1 .. n /\ i \in 1 .. m
    OBVIOUS
  <2>2. QED
    BY <2>1 DEF Joins
<1>4. CASE i = 1
  BY <1>3, <1>4 DEF Agree
<1>5. CASE i # 1
  <2>1. i - 1 \in 1 .. n /\ ~ (i <= i - 1)
    BY <1>5
  <2>2. f[i - 1] = g[i - 1]
    BY <1>2, <2>1
  <2>3. QED
    BY <1>3, <1>5, <2>2 DEF Agree
<1>6. QED
  BY <1>4, <1>5

\* Nothing is joined to nothing.
LEMMA FlattenNone == FlattenSeq(<<>>) = <<>>
BY DEF FlattenSeq

\* A sequence of sequences of T is joined to one of T.
LEMMA FlattenType ==
  ASSUME NEW T, NEW s \in Seq(Seq(T))
  PROVE  FlattenSeq(s) \in Seq(T)
<1>1. CASE s = <<>>
  BY <1>1, FlattenNone, EmptySeq
<1>2. CASE s # <<>>
  <2>1. PICK g : Joins(g, s, Len(s)) /\ FlattenSeq(s) = g[Len(s)]
    BY <1>2, FlattenJoins
  <2>2. PICK n \in Nat \ {0} : n = Len(s)
    BY <1>2, EmptySeq
  <2>3. \A i \in 1 .. n : s[i] \in Seq(T)
    BY <2>2, ElementOfSeq
  <2> DEFINE W == {i \in 1 .. n : g[i] \notin Seq(T)}
  <2>4. CASE W # {}
    <3>1. PICK i \in W : \A k \in W : i <= k
      <4>1. W \subseteq Nat
        OBVIOUS
      <4>2. QED
        BY <2>4, <4>1, LeastNat
    <3>2. g[i] = IF i = 1 THEN s[i] ELSE g[i - 1] \o s[i]
      BY <2>1, <2>2 DEF Joins
    <3>3. i # 1
      BY <2>3, <3>2
    <3>4. i - 1 \in 1 .. n /\ ~ (i <= i - 1)
      BY <3>3
    <3>5. g[i - 1] \in Seq(T)
      BY <3>1, <3>4
    <3>6. g[i - 1] \o s[i] \in Seq(T)
      BY <2>3, <3>5, ConcatProperties
    <3>7. QED
      BY <3>2, <3>3, <3>6
  <2>5. QED
    BY <2>1, <2>2, <2>4
<1>3. QED
  BY <1>1, <1>2

\* One more sequence is joined at the end.
LEMMA FlattenAppend ==
  ASSUME NEW T, NEW s \in Seq(Seq(T)), NEW x \in Seq(T)
  PROVE  FlattenSeq(Append(s, x)) = FlattenSeq(s) \o x
<1>1. PICK t \in Seq(Seq(T)) : t = Append(s, x)
  BY AppendProperties
<1>2. PICK n \in Nat : n = Len(s)
  BY LenProperties
<1> PICK m \in Nat \ {0} : m = n + 1
  OBVIOUS
<1>3. /\ t # <<>> /\ Len(t) = m /\ t[m] = x
      /\ \A i \in 1 .. n : t[i] = s[i]
  BY <1>1, <1>2, AppendProperties
<1>4. PICK g : Joins(g, t, m) /\ FlattenSeq(t) = g[m]
  BY <1>3, FlattenJoins
<1>5. g[m] = IF m = 1 THEN t[m] ELSE g[m - 1] \o t[m]
  <2>1. m \in 1 .. m
    OBVIOUS
  <2>2. QED
    BY <1>4, <2>1 DEF Joins
<1>6. CASE n = 0
  <2>1. s = <<>>
    BY <1>2, <1>6, EmptySeq
  <2>2. FlattenSeq(t) = x
    BY <1>3, <1>4, <1>5, <1>6
  <2>3. QED
    BY <1>1, <2>1, <2>2, FlattenNone, ConcatEmptySeq
<1>7. CASE n # 0
  <2>1. s # <<>> /\ m - 1 = n /\ m # 1 /\ n <= m /\ n \in Nat \ {0}
    BY <1>2, <1>7, EmptySeq
  <2>2. PICK f : Joins(f, s, n) /\ FlattenSeq(s) = f[n]
    BY <1>2, <2>1, FlattenJoins
  <2>3. f[n] = g[n]
    <3>1. Agree(s, t, n)
      BY <1>3 DEF Agree
    <3>2. QED
      BY <1>4, <2>1, <2>2, <3>1, JoinsUnique, SMT
  <2>4. QED
    BY <1>1, <1>3, <1>4, <1>5, <2>1, <2>2, <2>3
<1>8. QED
  BY <1>6, <1>7

\* Of three sequences it does not matter which two are joined first.
LEMMA Associative ==
  ASSUME NEW T, NEW a \in Seq(T), NEW b \in Seq(T), NEW c \in Seq(T)
  PROVE  (a \o b) \o c = a \o (b \o c)
BY ConcatAssociative, SMT

\* What is joined in two parts is joined: one sequence after the other,
LEMMA FlattenOneMore ==
  ASSUME NEW T, NEW s \in Seq(Seq(T)), NEW v \in Seq(Seq(T)), NEW x \in Seq(T),
         FlattenSeq(s \o v) = FlattenSeq(s) \o FlattenSeq(v)
  PROVE  FlattenSeq(s \o Append(v, x)) = FlattenSeq(s) \o FlattenSeq(Append(v, x))
<1>1. s \o Append(v, x) = Append(s \o v, x)
  <2>1. PICK y \in Seq(Seq(T)) : y = <<x>> /\ Append(v, x) = v \o y
    <3>1. <<x>> \in Seq(Seq(T))
      OBVIOUS
    <3>2. Append(v, x) = v \o <<x>>
      BY AppendIsConcat
    <3>3. QED
      BY <3>1, <3>2
  <2>2. (s \o v) \o y = s \o (v \o y)
    BY Associative
  <2>3. Append(s \o v, x) = (s \o v) \o y
    BY <2>1, ConcatProperties, AppendIsConcat
  <2>4. QED
    BY <2>1, <2>2, <2>3
<1>2. FlattenSeq(Append(s \o v, x)) = FlattenSeq(s \o v) \o x
  BY ConcatProperties, FlattenAppend
<1>3. FlattenSeq(Append(v, x)) = FlattenSeq(v) \o x
  BY FlattenAppend
<1>4. (FlattenSeq(s) \o FlattenSeq(v)) \o x = FlattenSeq(s) \o (FlattenSeq(v) \o x)
  <2>1. PICK a \in Seq(T), b \in Seq(T) : a = FlattenSeq(s) /\ b = FlattenSeq(v)
    BY FlattenType
  <2>2. (a \o b) \o x = a \o (b \o x)
    BY Associative
  <2>3. QED
    BY <2>1, <2>2
<1>5. QED
  BY <1>1, <1>2, <1>3, <1>4

\* and so all of them.
LEMMA FlattenConcat ==
  ASSUME NEW T, NEW s \in Seq(Seq(T)), NEW t \in Seq(Seq(T))
  PROVE  FlattenSeq(s \o t) = FlattenSeq(s) \o FlattenSeq(t)
<1> DEFINE Wrong(u) == FlattenSeq(s \o u) # FlattenSeq(s) \o FlattenSeq(u)
           W == {n \in Nat : \E u \in Seq(Seq(T)) : n = Len(u) /\ Wrong(u)}
<1> HIDE DEF Wrong
<1>1. SUFFICES ASSUME Wrong(t)
               PROVE  FALSE
  BY DEF Wrong
<1>2. W # {}
  <2>1. Len(t) \in W
    BY <1>1, LenProperties
  <2>2. QED
    BY <2>1
<1>3. PICK n \in W : \A k \in W : n <= k
  BY <1>2, LeastNat
<1>4. PICK u \in Seq(Seq(T)) : n = Len(u) /\ Wrong(u)
  OBVIOUS
<1>5. FlattenSeq(s) \in Seq(T)
  BY FlattenType
<1>6. CASE u = <<>>
  <2>1. s \o u = s /\ FlattenSeq(s) \o <<>> = FlattenSeq(s)
    BY <1>5, <1>6, ConcatEmptySeq
  <2>2. QED
    BY <1>4, <1>6, <2>1, FlattenNone DEF Wrong
<1>7. CASE u # <<>>
  <2>1. PICK v \in Seq(Seq(T)), x \in Seq(T) : u = Append(v, x)
    BY <1>7, SequenceEmptyOrAppend
  <2>2. Len(v) \in Nat /\ n = Len(v) + 1
    BY <1>4, <2>1, AppendProperties, LenProperties
  <2>3. ~ Wrong(v)
    <3>1. SUFFICES ASSUME Wrong(v)
                   PROVE  FALSE
      OBVIOUS
    <3>2. Len(v) \in W /\ ~ (n <= Len(v))
      BY <2>2, <3>1
    <3>3. QED
      BY <1>3, <3>2
  <2>4. QED
    BY <1>4, <2>1, <2>3, FlattenOneMore DEF Wrong
<1>8. QED
  BY <1>6, <1>7

\* A single one is what it is.
LEMMA FlattenOne ==
  ASSUME NEW T, NEW x \in Seq(T)
  PROVE  FlattenSeq(<<x>>) = x
<1>1. <<>> \in Seq(Seq(T)) /\ Append(<<>>, x) = <<x>>
  OBVIOUS
<1>2. FlattenSeq(Append(<<>>, x)) = FlattenSeq(<<>>) \o x
  BY <1>1, FlattenAppend
<1>3. <<>> \o x = x
  BY ConcatEmptySeq
<1>4. QED
  BY <1>1, <1>2, <1>3, FlattenNone

(***************************************************************************)
(* The placeholders of a statement, and the order of its clauses.  A       *)
(* clause leads from place to place: after WHERE or AND stands a condition *)
(* and nowhere else, AND stands after a condition, and nothing after       *)
(* RETURNING.                                                              *)
(***************************************************************************)
Named == STRING \cup {"id", "updated_at", "keyword", "CreatedStart", "CreatedEnd",
                      "Limit", "Offset"}
Values == Named \cup (Nat \X Named)
ClauseNames ==
  Conditions \cup {"AND", "WHERE", "INSERT", "VALUES", "ON DUPLICATE KEY UPDATE",
    "UPDATE", "UPDATE deleted_at", "DELETE", "SELECT", "GROUP BY", "ORDER BY",
    "LIMIT", "LIMIT OFFSET", "RETURNING id", "LOCK IN SHARE MODE", "FOR SHARE",
    "FOR UPDATE"}
Clauses == [name : ClauseNames, holes : Seq(Values)]

PlaceOf(name) == CASE name \in Conditions -> "condition"
                   [] name = "AND" -> "and"
                   [] name = "WHERE" -> "where"
                   [] name = "RETURNING id" -> "end"
                   [] OTHER -> "outside"
CanFollow(p, q) == /\ p # "end"
                   /\ q = "condition" <=> p \in {"where", "and"}
                   /\ q = "and" => p = "condition"
\* The clauses s lead from the place p to q,
Leads(p, s, q) ==
  IF s = <<>> THEN q = p
  ELSE /\ CanFollow(p, PlaceOf(s[1].name))
       /\ \A i \in 1 .. Len(s) : i + 1 \in 1 .. Len(s) =>
            CanFollow(PlaceOf(s[i].name), PlaceOf(s[i + 1].name))
       /\ q = PlaceOf(s[Len(s)].name)
\* and have the placeholders h.
Runs(p, s, q, h) ==
  s \in Seq(Clauses) /\ h \in Seq(Values) /\ Holes(s) = h /\ Leads(p, s, q)

\* A clause has the name and the placeholders it is made of.
LEMMA ClauseFields ==
  ASSUME NEW name \in ClauseNames, NEW h \in Seq(Values)
  PROVE  /\ Clause(name, h) \in Clauses
         /\ Clause(name, h).name = name /\ Clause(name, h).holes = h
<1>1. PICK V, N : V = Seq(Values) /\ N = ClauseNames
  OBVIOUS
<1>2. h \in V /\ name \in N
  BY <1>1
<1>3. [name |-> name, holes |-> h] \in [name : N, holes : V]
  BY <1>2
<1>4. QED
  BY <1>1, <1>3 DEF Clause, Clauses

\* The placeholders of a clause are a sequence of values.
LEMMA ClauseHoles == ASSUME NEW x \in Clauses PROVE x.holes \in Seq(Values)
<1>1. PICK V, N : V = Seq(Values) /\ N = ClauseNames
  OBVIOUS
<1>2. x \in [name : N, holes : V]
  BY <1>1 DEF Clauses
<1>3. x.holes \in V
  BY <1>2
<1>4. QED
  BY <1>1, <1>3

\* The holes of the clauses, one sequence for each.
LEMMA HolesType ==
  ASSUME NEW s \in Seq(Clauses)
  PROVE  /\ [i \in DOMAIN s |-> s[i].holes] \in Seq(Seq(Values))
         /\ Len([i \in DOMAIN s |-> s[i].holes]) = Len(s)
         /\ Holes(s) \in Seq(Values)
<1>1. PICK n \in Nat : n = Len(s) /\ DOMAIN s = 1 .. n
  BY LenProperties
<1>2. PICK H : H = [i \in DOMAIN s |-> s[i].holes]
  OBVIOUS
<1>3. \A i \in 1 .. n : s[i].holes \in Seq(Values)
  <2>1. \A i \in 1 .. n : s[i] \in Clauses
    BY <1>1, ElementOfSeq
  <2>2. QED
    BY <2>1, ClauseHoles
<1>4. H \in [1 .. n -> Seq(Values)]
  BY <1>1, <1>2, <1>3
<1>5. H \in Seq(Seq(Values)) /\ Len(H) = n
  BY <1>1, <1>2, <1>4, SeqDef
<1>6. FlattenSeq(H) \in Seq(Values)
  BY <1>5, FlattenType
<1>7. QED
  BY <1>1, <1>2, <1>5, <1>6 DEF Holes

\* What stands in two parts has the placeholders of both.
LEMMA HolesConcat ==
  ASSUME NEW s \in Seq(Clauses), NEW t \in Seq(Clauses)
  PROVE  Holes(s \o t) = Holes(s) \o Holes(t)
<1> DEFINE H(u) == [i \in DOMAIN u |-> u[i].holes]
<1>1. s \o t \in Seq(Clauses)
  BY ConcatProperties
<1>2. PICK m \in Nat, n \in Nat : m = Len(s) /\ n = Len(t)
  BY LenProperties
<1>3. Len(s \o t) = m + n /\ DOMAIN (s \o t) = 1 .. (m + n)
      /\ DOMAIN s = 1 .. m /\ DOMAIN t = 1 .. n
      /\ \A i \in 1 .. m + n : (s \o t)[i] = IF i <= m THEN s[i] ELSE t[i - m]
  BY <1>1, <1>2, ConcatProperties, LenProperties
<1>4. PICK a \in Seq(Seq(Values)), b \in Seq(Seq(Values)), c \in Seq(Seq(Values)) :
        a = H(s) /\ b = H(t) /\ c = H(s \o t)
  BY <1>1, HolesType
<1>5. Len(a) = m /\ Len(b) = n /\ Len(c) = m + n
  BY <1>1, <1>2, <1>3, <1>4, HolesType
<1>6. a \o b \in Seq(Seq(Values)) /\ Len(a \o b) = m + n
      /\ \A i \in 1 .. m + n : (a \o b)[i] = IF i <= m THEN a[i] ELSE b[i - m]
  BY <1>5, ConcatProperties
<1>7. \A i \in 1 .. m + n : c[i] = IF i <= m THEN a[i] ELSE b[i - m]
  <2>1. ASSUME NEW i \in 1 .. m + n
        PROVE  c[i] = IF i <= m THEN a[i] ELSE b[i - m]
    <3>1. c[i] = (s \o t)[i].holes
      BY <1>3, <1>4
    <3>2. CASE i <= m
      BY <1>3, <1>4, <3>1, <3>2
    <3>3. CASE ~ (i <= m)
      <4>1. i - m \in 1 .. n
        BY <3>3
      <4>2. QED
        BY <1>3, <1>4, <3>1, <3>3, <4>1
    <3>4. QED
      BY <3>2, <3>3
  <2>2. QED
    BY <2>1
<1>8. c = a \o b
  BY <1>5, <1>6, <1>7, SeqEqual
<1>9. FlattenSeq(a \o b) = FlattenSeq(a) \o FlattenSeq(b)
  BY FlattenConcat
<1>10. Holes(s) = FlattenSeq(a) /\ Holes(t) = FlattenSeq(b) /\ Holes(s \o t) = FlattenSeq(c)
  BY <1>4 DEF Holes
<1>11. QED
  BY <1>8, <1>9, <1>10

\* It leads where its parts lead, one after the other.
LEMMA LeadsConcat ==
  ASSUME NEW s \in Seq(Clauses), NEW t \in Seq(Clauses), NEW p, NEW q, NEW r,
         Leads(p, s, q), Leads(q, t, r)
  PROVE  Leads(p, s \o t, r)
<1>1. CASE s = <<>>
  BY <1>1, ConcatEmptySeq DEF Leads
<1>2. CASE t = <<>>
  BY <1>2, ConcatEmptySeq DEF Leads
<1>3. CASE s # <<>> /\ t # <<>>
  <2>1. PICK m \in Nat \ {0}, n \in Nat \ {0} : m = Len(s) /\ n = Len(t)
    BY <1>3, EmptySeq
  <2>2. PICK u \in Seq(Clauses) : u = s \o t
    BY ConcatProperties
  <2>3. Len(u) = m + n
        /\ \A i \in 1 .. m + n : u[i] = IF i <= m THEN s[i] ELSE t[i - m]
    BY <2>1, <2>2, ConcatProperties
  <2>4. u # <<>> /\ u[1] = s[1] /\ u[m + n] = t[n] /\ u[m] = s[m] /\ u[m + 1] = t[1]
    BY <2>1, <2>3, EmptySeq
  <2>5. /\ CanFollow(p, PlaceOf(s[1].name)) /\ q = PlaceOf(s[m].name)
        /\ \A i \in 1 .. m : i + 1 \in 1 .. m =>
             CanFollow(PlaceOf(s[i].name), PlaceOf(s[i + 1].name))
        /\ CanFollow(q, PlaceOf(t[1].name)) /\ r = PlaceOf(t[n].name)
        /\ \A i \in 1 .. n : i + 1 \in 1 .. n =>
             CanFollow(PlaceOf(t[i].name), PlaceOf(t[i + 1].name))
    BY <1>3, <2>1 DEF Leads
  <2>6. ASSUME NEW i \in 1 .. m + n, i + 1 \in 1 .. m + n
        PROVE  CanFollow(PlaceOf(u[i].name), PlaceOf(u[i + 1].name))
    <3>1. CASE i + 1 <= m
      <4>1. i \in 1 .. m /\ i + 1 \in 1 .. m /\ u[i] = s[i] /\ u[i + 1] = s[i + 1]
        BY <2>3, <2>6, <3>1
      <4>2. QED
        BY <2>5, <4>1
    <3>2. CASE i = m
      <4>1. u[i] = s[m] /\ u[i + 1] = t[1]
        BY <2>4, <3>2
      <4>2. QED
        BY <2>5, <4>1
    <3>3. CASE i > m
      <4>1. PICK j \in 1 .. n : j = i - m
        BY <2>6, <3>3
      <4>2. j + 1 \in 1 .. n /\ u[i] = t[j] /\ u[i + 1] = t[j + 1]
        BY <2>3, <2>6, <3>3, <4>1
      <4>3. QED
        BY <2>5, <4>2
    <3>4. QED
      BY <2>6, <3>1, <3>2, <3>3
  <2>7. Leads(p, u, r)
    BY <2>3, <2>4, <2>5, <2>6 DEF Leads
  <2>8. QED
    BY <2>2, <2>7
<1>4. QED
  BY <1>1, <1>2, <1>3

\* Two parts of a statement run one after the other, where the first leads to
\* the place the second starts from.
LEMMA RunsConcat ==
  ASSUME NEW p, NEW q, NEW r, NEW s, NEW t, NEW g, NEW h,
         Runs(p, s, q, g), Runs(q, t, r, h)
  PROVE  Runs(p, s \o t, r, g \o h)
<1>1. s \in Seq(Clauses) /\ t \in Seq(Clauses) /\ g \in Seq(Values) /\ h \in Seq(Values)
      /\ Holes(s) = g /\ Holes(t) = h /\ Leads(p, s, q) /\ Leads(q, t, r)
  BY DEF Runs
<1>2. s \o t \in Seq(Clauses) /\ g \o h \in Seq(Values)
  BY <1>1, ConcatProperties
<1>3. Holes(s \o t) = g \o h
  BY <1>1, HolesConcat
<1>4. Leads(p, s \o t, r)
  BY <1>1, LeadsConcat
<1>5. QED
  BY <1>2, <1>3, <1>4 DEF Runs

\* No clause leads nowhere and has no placeholder.
LEMMA RunsNone == ASSUME NEW p PROVE Runs(p, <<>>, p, <<>>)
<1>1. Holes(<<>>) = <<>>
  <2>1. [i \in DOMAIN <<>> |-> <<>>[i].holes] = <<>>
    OBVIOUS
  <2>2. QED
    BY <2>1, FlattenNone DEF Holes
<1>2. QED
  BY <1>1, EmptySeq DEF Runs, Leads

\* One clause leads to its own place, with its own placeholders.
LEMMA RunsOne ==
  ASSUME NEW name \in ClauseNames, NEW h \in Seq(Values), NEW p,
         CanFollow(p, PlaceOf(name))
  PROVE  Runs(p, <<Clause(name, h)>>, PlaceOf(name), h)
<1>1. PICK x \in Clauses : x = Clause(name, h) /\ x.name = name /\ x.holes = h
  BY ClauseFields
<1>2. PICK s \in Seq(Clauses) : s = <<x>> /\ Len(s) = 1 /\ s[1] = x /\ s # <<>>
  <2>1. <<x>> \in Seq(Clauses) /\ Len(<<x>>) = 1 /\ <<x>>[1] = x /\ <<x>> # <<>>
    OBVIOUS
  <2>2. QED
    BY <2>1
<1>3. Holes(s) = h
  <2>1. [i \in DOMAIN s |-> s[i].holes] = <<h>>
    BY <1>1, <1>2
  <2>2. QED
    BY <2>1, FlattenOne DEF Holes
<1>4. Leads(p, s, PlaceOf(name))
  BY <1>1, <1>2 DEF Leads
<1>5. QED
  BY <1>1, <1>2, <1>3, <1>4 DEF Runs

\* The places tell apart the clauses that Fits is about.
LEMMA PlaceFacts ==
  ASSUME NEW name
  PROVE  /\ PlaceOf(name) = "condition" <=> name \in Conditions
         /\ PlaceOf(name) = "and" <=> name = "AND"
         /\ PlaceOf(name) = "where" <=> name = "WHERE"
         /\ PlaceOf(name) = "end" <=> name = "RETURNING id"
BY DEF PlaceOf, Conditions

\* A statement that leads from its first clause to one after which it may end,
\* and whose placeholders are its parameters, is right.
LEMMA RunsFit ==
  ASSUME NEW st, NEW q, NEW h, Runs("outside", st.stmt, q, h), q \notin {"where", "and"},
         st.params = h
  PROVE  Fits(st)
<1>1. PICK s \in Seq(Clauses) : s = st.stmt
  BY DEF Runs
<1>2. PICK n \in Nat : n = Len(s) /\ DOMAIN s = 1 .. n
  BY LenProperties
<1>3. CASE s = <<>>
  <2>1. DOMAIN s = {}
    BY <1>3
  <2>2. QED
    BY <1>1, <2>1 DEF Fits, Runs
<1>4. CASE s # <<>>
  <2> DEFINE P(i) == PlaceOf(s[i].name)
  <2>1. /\ CanFollow("outside", P(1)) /\ q = P(n)
        /\ \A i \in 1 .. n : i + 1 \in 1 .. n => CanFollow(P(i), P(i + 1))
    BY <1>1, <1>2, <1>4 DEF Runs, Leads
  <2>2. ASSUME NEW i
        PROVE  /\ P(i) = "condition" <=> IsCondition(s[i])
               /\ P(i) = "and" <=> s[i].name = "AND"
               /\ P(i) = "where" <=> s[i].name = "WHERE"
               /\ P(i) = "end" <=> s[i].name = "RETURNING id"
    BY PlaceFacts DEF IsCondition
  <2> HIDE DEF P
  <2>3. ASSUME NEW i \in 1 .. n, NEW j \in 1 .. n, j = i + 1
        PROVE  CanFollow(P(i), P(j))
    BY <2>1, <2>3
  <2>4. ASSUME NEW i \in 1 .. n
        PROVE  /\ P(i) = "condition" => i > 1 /\ P(i - 1) \in {"where", "and"}
               /\ P(i) \in {"where", "and"} => i + 1 \in 1 .. n /\ P(i + 1) = "condition"
               /\ P(i) = "and" => i - 1 \in 1 .. n /\ P(i - 1) = "condition"
               /\ P(i) = "end" => i = n
    <3>1. CASE i = 1
      <4>1. P(i) # "condition" /\ P(i) # "and"
        BY <2>1, <3>1 DEF CanFollow
      <4>2. QED
        BY <2>1, <2>3, <3>1, <4>1 DEF CanFollow
    <3>2. CASE i # 1
      <4>1. PICK j \in 1 .. n : j = i - 1
        BY <3>2
      <4>2. CanFollow(P(j), P(i)) /\ i > 1
        BY <2>3, <3>2, <4>1
      <4>3. i # n => i + 1 \in 1 .. n /\ CanFollow(P(i), P(i + 1))
        BY <2>1
      <4>4. QED
        BY <2>1, <4>1, <4>2, <4>3 DEF CanFollow
    <3>3. QED
      BY <3>1, <3>2
  <2>5. Holes(st.stmt) = st.params
    BY DEF Runs
  <2>6. ASSUME NEW i \in DOMAIN st.stmt
        PROVE  /\ (i \in DOMAIN st.stmt /\ IsCondition(st.stmt[i])) =>
                    i > 1 /\ st.stmt[i - 1].name \in {"WHERE", "AND"}
               /\ st.stmt[i].name \in {"WHERE", "AND"} =>
                    i + 1 \in DOMAIN st.stmt /\ IsCondition(st.stmt[i + 1])
               /\ st.stmt[i].name = "AND" =>
                    i - 1 \in DOMAIN st.stmt /\ IsCondition(st.stmt[i - 1])
               /\ st.stmt[i].name = "RETURNING id" => i = Len(st.stmt)
    BY <1>1, <1>2, <2>2, <2>4
  <2>7. QED
    BY <2>5, <2>6, Zenon DEF Fits
<1>5. QED
  BY <1>3, <1>4

\* The clauses of a request's conditions, and what the builder makes of them.
CondClauses == [name : {"condition"}, holes : Seq(STRING)]
Alternate(w) == [i \in 1 .. 2 * Len(w) - 1 |-> IF i % 2 = 0 THEN And
                                               ELSE w[(i + 1) \div 2]]

\* AND, WHERE and the conditions of a request are clauses.
LEMMA CondFacts ==
  /\ And \in Clauses /\ Where \in Clauses
  /\ \A x \in CondClauses : x \in Clauses /\ x = Clause("condition", x.holes)
                            /\ x.holes \in Seq(Values) /\ x.name = "condition"
<1>1. <<>> \in Seq(Values)
  BY EmptySeq
<1>2. "AND" \in ClauseNames /\ "WHERE" \in ClauseNames /\ "condition" \in ClauseNames
  BY DEF ClauseNames, Conditions
<1>3. And \in Clauses /\ Where \in Clauses
  BY <1>1, <1>2, ClauseFields DEF And, Where
<1>4. ASSUME NEW x \in CondClauses
      PROVE  x \in Clauses /\ x = Clause("condition", x.holes)
             /\ x.holes \in Seq(Values) /\ x.name = "condition"
  <2>1. PICK V : V = Seq(STRING)
    OBVIOUS
  <2>2. x \in [name : {"condition"}, holes : V]
    BY <2>1 DEF CondClauses
  <2>3. x.holes \in V /\ x.name = "condition"
        /\ x = [name |-> "condition", holes |-> x.holes]
    BY <2>2
  <2>4. STRING \subseteq Values
    BY DEF Values, Named
  <2>5. x.holes \in Seq(Values)
    BY <2>1, <2>3, <2>4, SeqMonotonic
  <2>6. x = Clause("condition", x.holes)
    BY <2>3 DEF Clause
  <2>7. QED
    BY <1>2, <2>3, <2>5, <2>6, ClauseFields
<1>5. QED
  BY <1>3, <1>4

\* Between n conditions there are n - 1 times AND.
LEMMA AlternateType ==
  ASSUME NEW w \in Seq(CondClauses), NEW n \in Nat \ {0}, n = Len(w)
  PROVE  /\ Alternate(w) \in Seq(Clauses) /\ Len(Alternate(w)) = 2 * n - 1
         /\ \A i \in 1 .. 2 * n - 1 :
              Alternate(w)[i] = IF i % 2 = 0 THEN And ELSE w[(i + 1) \div 2]
<1>1. PICK a : a = Alternate(w)
  OBVIOUS
<1>2. a = [i \in 1 .. 2 * n - 1 |-> IF i % 2 = 0 THEN And ELSE w[(i + 1) \div 2]]
  BY <1>1 DEF Alternate
<1>3. \A i \in 1 .. n : w[i] \in Clauses
  BY ElementOfSeq, CondFacts
<1>4. \A i \in 1 .. 2 * n - 1 : (i + 1) \div 2 \in 1 .. n
  OBVIOUS
<1>5. a \in [1 .. 2 * n - 1 -> Clauses]
  BY <1>2, <1>3, <1>4, CondFacts
<1>6. PICK m \in Nat : m = 2 * n - 1
  OBVIOUS
<1>7. a \in Seq(Clauses) /\ Len(a) = m
  BY <1>5, <1>6, SeqDef
<1>8. QED
  BY <1>1, <1>2, <1>6, <1>7

\* A sequence with one element joined to it.
LEMMA ConcatOne ==
  ASSUME NEW S, NEW s \in Seq(S), NEW x \in S
  PROVE  /\ s \o <<x>> \in Seq(S) /\ Len(s \o <<x>>) = Len(s) + 1
         /\ \A i \in 1 .. Len(s) : (s \o <<x>>)[i] = s[i]
         /\ (s \o <<x>>)[Len(s) + 1] = x
<1>1. Append(s, x) = s \o <<x>>
  BY AppendIsConcat
<1>2. /\ Append(s, x) \in Seq(S) /\ Len(Append(s, x)) = Len(s) + 1
      /\ \A i \in 1 .. Len(s) : Append(s, x)[i] = s[i]
      /\ Append(s, x)[Len(s) + 1] = x
  BY AppendProperties
<1>3. QED
  BY <1>1, <1>2

\* One condition more comes with one AND more.
LEMMA AlternateAppend ==
  ASSUME NEW v \in Seq(CondClauses), v # <<>>, NEW x \in CondClauses
  PROVE  Alternate(Append(v, x)) = (Alternate(v) \o <<And>>) \o <<x>>
<1>1. PICK n \in Nat \ {0} : n = Len(v)
  BY EmptySeq
<1>2. PICK w \in Seq(CondClauses) : w = Append(v, x)
  BY AppendProperties
<1>3. PICK m \in Nat \ {0} : m = n + 1
  OBVIOUS
<1>4. m = Len(w) /\ w[m] = x /\ \A i \in 1 .. n : w[i] = v[i]
  BY <1>1, <1>2, <1>3, AppendProperties
<1>5. PICK a \in Seq(Clauses), b \in Seq(Clauses) : a = Alternate(v) /\ b = Alternate(w)
  BY <1>1, <1>4, AlternateType
<1>6. /\ Len(a) = 2 * n - 1 /\ Len(b) = 2 * m - 1
      /\ \A i \in 1 .. 2 * n - 1 : a[i] = IF i % 2 = 0 THEN And ELSE v[(i + 1) \div 2]
      /\ \A i \in 1 .. 2 * m - 1 : b[i] = IF i % 2 = 0 THEN And ELSE w[(i + 1) \div 2]
  BY <1>1, <1>4, <1>5, AlternateType
<1>7. x \in Clauses /\ And \in Clauses
  BY CondFacts
<1>8. PICK c \in Seq(Clauses) :
        /\ c = a \o <<And>> /\ Len(c) = Len(a) + 1
        /\ \A i \in 1 .. Len(a) : c[i] = a[i]
        /\ c[Len(a) + 1] = And
  BY <1>7, ConcatOne
<1>9. PICK d \in Seq(Clauses) :
        /\ d = c \o <<x>> /\ Len(d) = Len(c) + 1
        /\ \A i \in 1 .. Len(c) : d[i] = c[i]
        /\ d[Len(c) + 1] = x
  BY <1>7, ConcatOne
<1>10. /\ 2 * m - 1 = 2 * n + 1 /\ Len(d) = 2 * n + 1
       /\ d[2 * n + 1] = x /\ d[2 * n] = And
       /\ \A i \in 1 .. 2 * n - 1 : d[i] = a[i]
  <2>1. Len(c) = 2 * n /\ Len(d) = 2 * n + 1
    BY <1>6, <1>8, <1>9
  <2>2. c[2 * n] = And /\ d[2 * n + 1] = x
    BY <1>6, <1>8, <1>9, <2>1
  <2>3. 2 * n \in 1 .. 2 * n /\ \A i \in 1 .. 2 * n - 1 : i \in 1 .. 2 * n
    OBVIOUS
  <2>4. \A i \in 1 .. 2 * n : d[i] = c[i]
    BY <1>9, <2>1
  <2>5. \A i \in 1 .. 2 * n - 1 : c[i] = a[i]
    BY <1>6, <1>8
  <2>6. QED
    BY <1>3, <2>1, <2>2, <2>3, <2>4, <2>5
<1>11. \A i \in 1 .. 2 * n + 1 : b[i] = d[i]
  <2>1. ASSUME NEW i \in 1 .. 2 * n + 1
        PROVE  b[i] = d[i]
    <3>1. b[i] = IF i % 2 = 0 THEN And ELSE w[(i + 1) \div 2]
      BY <1>6, <1>10
    <3>2. CASE i = 2 * n + 1
      <4>1. i % 2 # 0 /\ (i + 1) \div 2 = m
        BY <1>3, <3>2
      <4>2. QED
        BY <1>4, <1>10, <3>1, <3>2, <4>1
    <3>3. CASE i = 2 * n
      <4>1. i % 2 = 0
        BY <3>3
      <4>2. QED
        BY <1>10, <3>1, <3>3, <4>1
    <3>4. CASE i \in 1 .. 2 * n - 1
      <4>1. i % 2 # 0 => (i + 1) \div 2 \in 1 .. n
        BY <3>4
      <4>2. d[i] = a[i]
        BY <1>10, <3>4
      <4>3. a[i] = IF i % 2 = 0 THEN And ELSE v[(i + 1) \div 2]
        BY <1>6, <3>4
      <4>4. QED
        BY <1>4, <3>1, <4>1, <4>2, <4>3
    <3>5. QED
      BY <3>2, <3>3, <3>4
  <2>2. QED
    BY <2>1
<1>12. b = d
  BY <1>6, <1>10, <1>11, SeqEqual
<1>13. QED
  BY <1>2, <1>5, <1>8, <1>9, <1>12

\* The place of each clause.
LEMMA PlacesAre ==
  /\ PlaceOf("AND") = "and" /\ PlaceOf("WHERE") = "where"
  /\ PlaceOf("RETURNING id") = "end"
  /\ \A name \in Conditions : PlaceOf(name) = "condition"
  /\ \A name \in ClauseNames \ Conditions : name \notin {"AND", "WHERE", "RETURNING id"} =>
       PlaceOf(name) = "outside"
BY DEF PlaceOf, Conditions

\* What AND and one more condition add to a text of conditions.
LEMMA RunsAnd ==
  ASSUME NEW s, NEW g, Runs("where", s, "condition", g),
         NEW name \in Conditions, NEW h \in Seq(Values)
  PROVE  Runs("where", (s \o <<And>>) \o <<Clause(name, h)>>, "condition", g \o h)
<1>1. <<>> \in Seq(Values) /\ g \in Seq(Values)
  BY EmptySeq DEF Runs
<1>2. "AND" \in ClauseNames /\ name \in ClauseNames
  BY DEF ClauseNames
<1>3. /\ CanFollow("condition", PlaceOf("AND")) /\ PlaceOf("AND") = "and"
      /\ CanFollow("and", PlaceOf(name)) /\ PlaceOf(name) = "condition"
  BY PlacesAre DEF CanFollow
<1>4. Runs("condition", <<And>>, "and", <<>>)
  BY <1>1, <1>2, <1>3, RunsOne DEF And
<1>5. Runs("where", s \o <<And>>, "and", g \o <<>>)
  BY <1>4, RunsConcat
<1>6. Runs("and", <<Clause(name, h)>>, "condition", h)
  BY <1>2, <1>3, RunsOne
<1>7. g \o <<>> = g
  BY <1>1, ConcatEmptySeq
<1>8. QED
  BY <1>5, <1>6, <1>7, RunsConcat

\* One condition by itself.
LEMMA RunsFirst ==
  ASSUME NEW name \in Conditions, NEW h \in Seq(Values)
  PROVE  Runs("where", <<Clause(name, h)>>, "condition", h)
<1>1. name \in ClauseNames /\ PlaceOf(name) = "condition"
  BY PlacesAre DEF ClauseNames
<1>2. CanFollow("where", PlaceOf(name))
  BY <1>1 DEF CanFollow
<1>3. QED
  BY <1>1, <1>2, RunsOne

\* The conditions of a request, with AND between them.
LEMMA AlternateRuns ==
  ASSUME NEW w \in Seq(CondClauses), w # <<>>
  PROVE  Runs("where", Alternate(w), "condition", Holes(w))
<1> DEFINE Wrong(u) == ~ Runs("where", Alternate(u), "condition", Holes(u))
           W == {n \in Nat : \E u \in Seq(CondClauses) : u # <<>> /\ n = Len(u) /\ Wrong(u)}
<1> HIDE DEF Wrong
<1>1. SUFFICES ASSUME Wrong(w)
               PROVE  FALSE
  BY DEF Wrong
<1>2. PICK n \in W : \A k \in W : n <= k
  <2>1. Len(w) \in W
    BY <1>1, LenProperties
  <2>2. QED
    BY <2>1, LeastNat
<1>3. PICK u \in Seq(CondClauses) : u # <<>> /\ n = Len(u) /\ Wrong(u)
  OBVIOUS
<1>4. PICK v \in Seq(CondClauses), x \in CondClauses : u = Append(v, x)
  BY <1>3, SequenceEmptyOrAppend
<1>5. /\ x \in Clauses /\ x = Clause("condition", x.holes) /\ x.holes \in Seq(Values)
      /\ "condition" \in Conditions
  BY CondFacts DEF Conditions
<1>6. v \in Seq(Clauses) /\ <<x>> \in Seq(Clauses)
  <2>1. CondClauses \subseteq Clauses
    BY CondFacts
  <2>2. QED
    BY <1>5, <2>1, SeqMonotonic
<1>7. u = v \o <<x>>
  BY <1>4, AppendIsConcat
<1>8. PICK h \in Seq(Values) : h = x.holes /\ x = Clause("condition", h)
  BY <1>5
<1>9. Runs("where", <<x>>, "condition", h)
  BY <1>5, <1>8, RunsFirst
<1>10. Holes(u) = Holes(v) \o h
  <2>1. Holes(v \o <<x>>) = Holes(v) \o Holes(<<x>>)
    BY <1>6, HolesConcat
  <2>2. Holes(<<x>>) = h
    BY <1>9 DEF Runs
  <2>3. QED
    BY <1>7, <2>1, <2>2
<1>11. CASE v = <<>>
  <2>1. u = <<x>> /\ Len(u) = 1 /\ u[1] = x
    BY <1>4, <1>11
  <2>2. Alternate(u) = <<x>>
    <3>1. Alternate(u) \in Seq(Clauses) /\ Len(Alternate(u)) = 1 /\ Alternate(u)[1] = x
      <4>1. PICK one \in Nat \ {0} : one = 1
        OBVIOUS
      <4>2. /\ Alternate(u) \in Seq(Clauses) /\ Len(Alternate(u)) = 2 * one - 1
            /\ \A i \in 1 .. 2 * one - 1 :
                 Alternate(u)[i] = IF i % 2 = 0 THEN And ELSE u[(i + 1) \div 2]
        BY <2>1, <4>1, AlternateType
      <4>3. 1 \in 1 .. 2 * one - 1 /\ 1 % 2 # 0 /\ (1 + 1) \div 2 = 1 /\ 2 * one - 1 = 1
        BY <4>1
      <4>4. QED
        BY <2>1, <4>2, <4>3
    <3>2. \A i \in 1 .. 1 : Alternate(u)[i] = <<x>>[i]
      BY <3>1
    <3>3. QED
      BY <1>6, <3>1, <3>2, SeqEqual
  <2>3. Holes(u) = h
    BY <1>9, <2>1 DEF Runs
  <2>4. QED
    BY <1>3, <1>9, <2>2, <2>3 DEF Wrong
<1>12. CASE v # <<>>
  <2>1. ~ Wrong(v)
    <3>1. SUFFICES ASSUME Wrong(v)
                   PROVE  FALSE
      OBVIOUS
    <3>2. Len(v) \in Nat /\ n = Len(v) + 1
      BY <1>3, <1>4, AppendProperties, LenProperties
    <3>3. Len(v) \in W /\ ~ (n <= Len(v))
      BY <1>12, <3>1, <3>2
    <3>4. QED
      BY <1>2, <3>3
  <2>2. Runs("where", (Alternate(v) \o <<And>>) \o <<x>>, "condition", Holes(v) \o h)
    BY <1>5, <1>8, <2>1, RunsAnd DEF Wrong
  <2>3. Alternate(u) = (Alternate(v) \o <<And>>) \o <<x>>
    BY <1>4, <1>12, AlternateAppend
  <2>4. QED
    BY <1>3, <1>10, <2>2, <2>3 DEF Wrong
<1>13. QED
  BY <1>11, <1>12

\* A request has no condition and no value, or conditions and their values.
Apt(req) ==
  /\ {"where", "values"} \subseteq DOMAIN req
  /\ \/ req.where = Nil /\ req.values = <<>>
     \/ /\ req.where # Nil /\ req.where \in Seq(CondClauses) /\ req.where # <<>>
        /\ Holes(req.where) = req.values

\* A text of conditions with its parameters; it may be empty.
Built(b) ==
  IF b.text = <<>> THEN b.params = <<>>
  ELSE Runs("where", b.text, "condition", b.params)

\* checkInitiateWhere builds a text of conditions, an empty one for no condition.
LEMMA InitiateIsBuilt ==
  ASSUME NEW req, Apt(req)
  PROVE  /\ Built(CheckInitiateWhere(req))
         /\ CheckInitiateWhere(req).text = <<>> <=> req.where = Nil
<1>1. PICK b : b = CheckInitiateWhere(req)
  OBVIOUS
<1>2. CASE req.where = Nil
  <2>1. PICK n \in Nat : n = 0
    OBVIOUS
  <2>2. b = [text |-> [i \in 1 .. 2 * n - 1 |-> IF i % 2 = 0 THEN And
                                                ELSE req.where[(i + 1) \div 2]],
             params |-> req.values]
    BY <1>1, <1>2, <2>1 DEF CheckInitiateWhere
  <2>3. 1 .. 2 * n - 1 = {}
    BY <2>1
  <2>4. b.text = <<>>
    <3>1. PICK t : t = b.text
      OBVIOUS
    <3>2. t = [i \in 1 .. 2 * n - 1 |-> IF i % 2 = 0 THEN And ELSE req.where[(i + 1) \div 2]]
      BY <2>2, <3>1
    <3>3. t \in [1 .. n -> Clauses]
      BY <2>1, <2>3, <3>2
    <3>4. t \in Seq(Clauses) /\ Len(t) = 0
      BY <2>1, <3>3, SeqDef
    <3>5. QED
      BY <3>1, <3>4, EmptySeq
  <2>5. b.params = <<>>
    BY <1>2, <2>2, EmptySeq DEF Apt
  <2>6. QED
    BY <1>1, <1>2, <2>4, <2>5 DEF Built
<1>3. CASE req.where # Nil
  <2>1. PICK w \in Seq(CondClauses) : w = req.where /\ w # <<>> /\ Holes(w) = req.values
    BY <1>3 DEF Apt
  <2>2. b = [text |-> Alternate(w), params |-> Holes(w)]
    BY <1>1, <1>3, <2>1 DEF CheckInitiateWhere, Alternate
  <2>3. b.text = Alternate(w) /\ b.params = Holes(w)
    BY <2>2
  <2>4. Alternate(w) # <<>>
    <3>1. PICK n \in Nat \ {0} : n = Len(w)
      BY <2>1, EmptySeq
    <3>2. Alternate(w) \in Seq(Clauses) /\ Len(Alternate(w)) = 2 * n - 1 /\ 2 * n - 1 # 0
      BY <3>1, AlternateType
    <3>3. QED
      BY <3>2, EmptySeq
  <2>5. QED
    BY <1>1, <1>3, <2>1, <2>3, <2>4, AlternateRuns DEF Built
<1>4. QED
  BY <1>2, <1>3

\* One more condition leaves a text of conditions.
LEMMA ConjoinIsBuilt ==
  ASSUME NEW b, Built(b), NEW name \in Conditions, NEW h \in Seq(Values)
  PROVE  /\ Built(Conjoin(b, name, h)) /\ Conjoin(b, name, h).text # <<>>
         /\ Runs("where", Conjoin(b, name, h).text, "condition", b.params \o h)
         /\ Conjoin(b, name, h).params = b.params \o h
<1>1. PICK c : c = Conjoin(b, name, h)
  OBVIOUS
<1>2. c.text = b.text \o AndIf(b) \o <<Clause(name, h)>> /\ c.params = b.params \o h
  BY <1>1 DEF Conjoin
<1>3. Runs("where", c.text, "condition", c.params)
  <2>1. CASE b.text = <<>>
    <3>1. Runs("where", <<Clause(name, h)>>, "condition", h)
      BY RunsFirst
    <3>2. PICK s \in Seq(Clauses) : s = <<Clause(name, h)>>
      BY <3>1 DEF Runs
    <3>3. (<<>> \o <<>>) \o s = s /\ <<>> \o h = h
      BY ConcatEmptySeq
    <3>4. c.text = s /\ c.params = h
      BY <1>2, <2>1, <3>2, <3>3 DEF AndIf, Built
    <3>5. QED
      BY <3>1, <3>2, <3>4
  <2>2. CASE b.text # <<>>
    BY <1>2, <2>2, RunsAnd DEF AndIf, Built
  <2>3. QED
    BY <2>1, <2>2
<1>4. c.text # <<>>
  <2>1. Leads("where", c.text, "condition")
    BY <1>3 DEF Runs
  <2>2. QED
    BY <2>1 DEF Leads
<1>5. QED
  BY <1>1, <1>2, <1>3, <1>4 DEF Built

\* What the builders name themselves, and the columns, are values.
LEMMA NamedAre ==
  /\ {"id", "updated_at", "keyword", "CreatedStart", "CreatedEnd", "Limit", "Offset"}
       \subseteq Values
  /\ STRING \subseteq Values
  /\ {"LIKE", "created_at >=", "created_at <=", "deleted_at IS NULL",
      "deleted_at IS NOT NULL"} \subseteq Conditions
BY DEF Values, Named, Conditions

\* checkKeyword leaves a text of conditions.
LEMMA KeywordIsBuilt ==
  ASSUME NEW req, NEW b, Built(b), b.text = <<>> <=> req.where = Nil
  PROVE  Built(CheckKeyword(req, b))
<1>1. CASE "Keyword" \in req.set
  <2>1. PICK like : like = [i \in DOMAIN SearchCols |-> "keyword"]
    OBVIOUS
  <2>2. like \in Seq(Values)
    <3>1. PICK k \in Values : k = "keyword"
      BY NamedAre
    <3>2. DOMAIN SearchCols = 1 .. 2
      BY DEF SearchCols
    <3>3. like \in [1 .. 2 -> Values]
      BY <2>1, <3>1, <3>2
    <3>4. QED
      BY <3>3, SeqDef
  <2>3. PICK c : c = CheckKeyword(req, b)
    OBVIOUS
  <2>4. /\ c.text = b.text \o AndIf(b) \o <<Clause("LIKE", like)>>
        /\ c.params = b.params \o like
    BY <1>1, <2>1, <2>3 DEF CheckKeyword, If, AndIf
  <2>5. PICK d : d = Conjoin(b, "LIKE", like)
    OBVIOUS
  <2>6. d.text = c.text /\ d.params = c.params
    BY <2>4, <2>5 DEF Conjoin
  <2>7. Built(d)
    BY <2>2, <2>5, ConjoinIsBuilt, NamedAre
  <2>8. QED
    BY <2>3, <2>6, <2>7 DEF Built
<1>2. CASE "Keyword" \notin req.set
  BY <1>2 DEF CheckKeyword, If
<1>3. QED
  BY <1>1, <1>2

\* So does checkCreatedDateParam.
LEMMA DateIsBuilt ==
  ASSUME NEW req, NEW b, Built(b)
  PROVE  Built(CheckCreatedDateParam(req, b))
<1>1. PICK start : start = If(req.set, "CreatedStart",
                              Conjoin(b, "created_at >=", <<"CreatedStart">>), b)
  OBVIOUS
<1> PICK none \in Seq(Values), from \in Seq(Values), to \in Seq(Values) :
      none = <<>> /\ from = <<"CreatedStart">> /\ to = <<"CreatedEnd">>
  <2>1. ASSUME NEW V, NEW x \in V
        PROVE  <<x>> \in Seq(V) /\ <<>> \in Seq(V)
    OBVIOUS
  <2>2. "CreatedStart" \in Values /\ "CreatedEnd" \in Values
    BY NamedAre
  <2>3. QED
    BY <2>1, <2>2
<1>2. Built(start)
  <2>1. Built(Conjoin(b, "created_at >=", from))
    BY ConjoinIsBuilt, NamedAre
  <2>2. QED
    BY <1>1, <2>1 DEF If
<1>3. PICK end : end = If(req.set, "CreatedEnd",
                          Conjoin(start, "created_at <=", <<"CreatedEnd">>), start)
  OBVIOUS
<1>4. Built(end)
  <2>1. Built(Conjoin(start, "created_at <=", to))
    BY <1>2, ConjoinIsBuilt, NamedAre
  <2>2. QED
    BY <1>2, <1>3, <2>1 DEF If
<1>5. PICK name : name = If(req.set, "IsDeleted", "deleted_at IS NOT NULL",
                            "deleted_at IS NULL")
  OBVIOUS
<1>6. name \in Conditions
  BY <1>5, NamedAre DEF If
<1>7. Built(Conjoin(end, name, none))
  BY <1>4, <1>6, ConjoinIsBuilt
<1>8. \/ CheckCreatedDateParam(req, b) = end
      \/ CheckCreatedDateParam(req, b) = Conjoin(end, name, none)
  BY <1>1, <1>3, <1>5 DEF CheckCreatedDateParam
<1>9. QED
  BY <1>4, <1>7, <1>8

\* What a statement may end with, or have before its page and its lock.
Open == {"outside", "condition"}
RunsOn(p, s, h) == \E q \in Open : Runs(p, s, q, h)

\* A clause that is no condition, after any that may be last,
LEMMA RunsWord ==
  ASSUME NEW p \in Open, NEW name \in ClauseNames \ Conditions,
         name \notin {"AND", "WHERE", "RETURNING id"}, NEW h \in Seq(Values)
  PROVE  Runs(p, <<Clause(name, h)>>, "outside", h)
<1>1. PlaceOf(name) = "outside"
  BY PlacesAre
<1>2. CanFollow(p, PlaceOf(name))
  BY <1>1 DEF CanFollow, Open
<1>3. QED
  BY <1>1, <1>2, RunsOne

\* A part that may follow any of them, and may be last.
Follows(t, g) == \A q \in Open : RunsOn(q, t, g)

\* A clause that is no condition may follow, with its placeholders,
LEMMA FollowsOne ==
  ASSUME NEW name \in ClauseNames \ Conditions,
         name \notin {"AND", "WHERE", "RETURNING id"}, NEW h \in Seq(Values)
  PROVE  Follows(<<Clause(name, h)>>, h)
<1>1. "outside" \in Open
  BY DEF Open
<1>2. QED
  BY <1>1, RunsWord DEF Follows, RunsOn

\* a word may follow,
LEMMA FollowsWord ==
  ASSUME NEW name \in ClauseNames \ Conditions,
         name \notin {"AND", "WHERE", "RETURNING id"}
  PROVE  Follows(Word(name), <<>>)
<1>1. <<>> \in Seq(Values)
  BY EmptySeq
<1>2. QED
  BY <1>1, FollowsOne DEF Word

\* and so may nothing.
LEMMA FollowsNone == Follows(<<>>, <<>>)
BY RunsNone DEF Follows, RunsOn

\* What may follow is added with its placeholders.
LEMMA RunsOnConcat ==
  ASSUME NEW p, NEW s, NEW h, RunsOn(p, s, h), NEW t, NEW g, Follows(t, g)
  PROVE  RunsOn(p, s \o t, h \o g)
<1>1. PICK q \in Open : Runs(p, s, q, h)
  BY DEF RunsOn
<1>2. PICK r \in Open : Runs(q, t, r, g)
  BY DEF RunsOn, Follows
<1>3. QED
  BY <1>1, <1>2, RunsConcat DEF RunsOn

\* A part without placeholders does not change those there are.
LEMMA RunsOnWords ==
  ASSUME NEW p, NEW s, NEW h, RunsOn(p, s, h), NEW t, Follows(t, <<>>)
  PROVE  RunsOn(p, s \o t, h)
<1>1. h \in Seq(Values)
  BY DEF RunsOn, Runs
<1>2. h \o <<>> = h
  BY <1>1, ConcatEmptySeq
<1>3. RunsOn(p, s \o t, h \o <<>>)
  BY RunsOnConcat
<1>4. QED
  BY <1>2, <1>3

\* The page has its limit and its offset, in the order of the engine.
LEMMA PagingFollows ==
  ASSUME NEW req
  PROVE  Follows(Paging(req), PagingParams(req))
<1>1. {"LIMIT", "LIMIT OFFSET"} \subseteq ClauseNames \ Conditions
  BY DEF ClauseNames, Conditions
<1>2. PICK lo \in Seq(Values), ol \in Seq(Values) :
        lo = <<"Limit", "Offset">> /\ ol = <<"Offset", "Limit">>
  <2>1. ASSUME NEW V, NEW x \in V, NEW y \in V
        PROVE  <<x, y>> \in Seq(V)
    OBVIOUS
  <2>2. "Limit" \in Values /\ "Offset" \in Values
    BY NamedAre
  <2>3. QED
    BY <2>1, <2>2
<1>3. /\ Follows(<<Clause("LIMIT OFFSET", lo)>>, lo)
      /\ Follows(<<Clause("LIMIT", ol)>>, ol)
  BY <1>1, FollowsOne
<1>4. \/ Paging(req) = <<>> /\ PagingParams(req) = <<>>
      \/ Paging(req) = <<Clause("LIMIT OFFSET", lo)>> /\ PagingParams(req) = lo
      \/ Paging(req) = <<Clause("LIMIT", ol)>> /\ PagingParams(req) = ol
  <2>1. CASE "Page" \notin req.set
    BY <2>1 DEF Paging, PagingParams
  <2>2. CASE "Page" \in req.set /\ req.engine = "postgres"
    BY <1>2, <2>2 DEF Paging, PagingParams
  <2>3. CASE "Page" \in req.set /\ req.engine = "mysql"
    BY <1>2, <2>3 DEF Paging, PagingParams
  <2>4. CASE "Page" \in req.set /\ req.engine \notin {"postgres", "mysql"}
    BY <2>4 DEF Paging, PagingParams
  <2>5. QED
    BY <2>1, <2>2, <2>3, <2>4
<1>5. QED
  BY <1>3, <1>4, FollowsNone

\* What a request adds to a statement (GenerateAddOnQuery).
LEMMA AddOnFollows ==
  ASSUME NEW req, Apt(req)
  PROVE  Follows(AddOn(req).stmt, AddOn(req).params)
<1>1. PICK b : b = CheckCreatedDateParam(req, CheckKeyword(req, CheckInitiateWhere(req)))
  OBVIOUS
<1>2. Built(b)
  BY <1>1, InitiateIsBuilt, KeywordIsBuilt, DateIsBuilt
<1>3. PICK s : s = IF b.text = <<>> THEN <<>> ELSE <<Where>> \o b.text
  OBVIOUS
<1>4. Follows(s, b.params)
  <2>1. CASE b.text = <<>>
    BY <1>2, <1>3, <2>1, FollowsNone DEF Built
  <2>2. CASE b.text # <<>>
    <3>1. ASSUME NEW q \in Open
          PROVE  RunsOn(q, s, b.params)
      <4>1. Runs(q, <<Where>>, "where", <<>>)
        <5>1. "WHERE" \in ClauseNames /\ <<>> \in Seq(Values)
          BY EmptySeq DEF ClauseNames
        <5>2. PlaceOf("WHERE") = "where" /\ CanFollow(q, PlaceOf("WHERE"))
          BY PlacesAre DEF CanFollow, Open
        <5>3. QED
          BY <5>1, <5>2, RunsOne DEF Where
      <4>2. Runs("where", b.text, "condition", b.params)
        BY <1>2, <2>2 DEF Built
      <4>3. Runs(q, <<Where>> \o b.text, "condition", <<>> \o b.params)
        BY <4>1, <4>2, RunsConcat
      <4>4. <<>> \o b.params = b.params
        BY <4>2, ConcatEmptySeq DEF Runs
      <4>5. QED
        BY <1>3, <2>2, <4>3, <4>4 DEF RunsOn, Open
    <3>2. QED
      BY <3>1 DEF Follows
  <2>3. QED
    BY <2>1, <2>2
<1>5. PICK g, o : /\ g = If(req.set, "GroupBy", Word("GROUP BY"), <<>>)
                  /\ o = If(req.set, "OrderBy", Word("ORDER BY"), <<>>)
  OBVIOUS
<1>6. Follows(g, <<>>) /\ Follows(o, <<>>)
  <2>1. {"GROUP BY", "ORDER BY"} \subseteq ClauseNames \ Conditions
    BY DEF ClauseNames, Conditions
  <2>2. Follows(Word("GROUP BY"), <<>>) /\ Follows(Word("ORDER BY"), <<>>)
    BY <2>1, FollowsWord
  <2>3. QED
    BY <1>5, <2>2, FollowsNone DEF If
<1>7. ASSUME NEW q \in Open
      PROVE  RunsOn(q, ((s \o g) \o o) \o Paging(req), b.params \o PagingParams(req))
  <2>1. RunsOn(q, s \o g, b.params)
    BY <1>4, <1>6, RunsOnWords DEF Follows
  <2>2. RunsOn(q, (s \o g) \o o, b.params)
    BY <1>6, <2>1, RunsOnWords
  <2>3. QED
    BY <2>2, PagingFollows, RunsOnConcat
<1>8. /\ AddOn(req).stmt = ((s \o g) \o o) \o Paging(req)
      /\ AddOn(req).params = b.params \o PagingParams(req)
  BY <1>1, <1>3, <1>5 DEF AddOn
<1>9. QED
  BY <1>7, <1>8 DEF Follows

\* A read is the base query and what is added to it (SQL.Read).
LEMMA ReadRuns ==
  ASSUME NEW base, NEW params, NEW addOn, NEW lock,
         RunsOn("outside", base, params), Follows(addOn.stmt, addOn.params),
         Follows(lock, <<>>), NEW s, s = ReadStatement(base, params, addOn, lock)
  PROVE  RunsOn("outside", s.stmt, s.params)
<1>1. RunsOn("outside", base \o addOn.stmt, params \o addOn.params)
  BY RunsOnConcat
<1>2. RunsOn("outside", (base \o addOn.stmt) \o lock, params \o addOn.params)
  BY <1>1, RunsOnWords
<1>3. /\ s.stmt = (base \o addOn.stmt) \o lock
      /\ s.params = params \o addOn.params
  BY DEF ReadStatement
<1>4. QED
  BY <1>2, <1>3

\* A statement that may end where it does is right.
LEMMA RunsOnFit ==
  ASSUME NEW st, RunsOn("outside", st.stmt, st.params)
  PROVE  Fits(st)
<1>1. PICK q \in Open : Runs("outside", st.stmt, q, st.params)
  BY DEF RunsOn
<1>2. q \notin {"where", "and"}
  BY DEF Open
<1>3. QED
  BY <1>1, <1>2, RunsFit

\* The lock of a read may follow.
LEMMA LockFollows == ASSUME NEW locking PROVE Follows(LockClause(locking), <<>>)
<1>1. {"LOCK IN SHARE MODE", "FOR SHARE", "FOR UPDATE"} \subseteq ClauseNames \ Conditions
  BY DEF ClauseNames, Conditions
<1>2. /\ Follows(Word("LOCK IN SHARE MODE"), <<>>) /\ Follows(Word("FOR SHARE"), <<>>)
      /\ Follows(Word("FOR UPDATE"), <<>>)
  BY <1>1, FollowsWord
<1>3. \/ LockClause(locking) = Word("LOCK IN SHARE MODE")
      \/ LockClause(locking) = Word("FOR SHARE")
      \/ LockClause(locking) = Word("FOR UPDATE")
      \/ LockClause(locking) = <<>>
  BY DEF LockClause
<1>4. QED
  BY <1>2, <1>3, FollowsNone

\* Columns of a struct's fields.
LEMMA PickedType ==
  ASSUME NEW struct \in Struct, NEW f, DOMAIN f = DOMAIN struct,
         f = [i \in DOMAIN f |-> f[i]],
         \A i \in DOMAIN struct : f[i] = <<>> \/ f[i] = <<struct[i].col>>
  PROVE  FlattenSeq(f) \in Seq(Named) /\ FlattenSeq(f) \in Seq(Values)
<1>1. PICK F : F = [col : STRING, tag : STRING, type : STRING, state : STRING]
  OBVIOUS
<1>2. struct \in Seq(F)
  BY <1>1 DEF Struct
<1>3. PICK n \in Nat : n = Len(struct) /\ DOMAIN struct = 1 .. n
  BY <1>2, LenProperties
<1>4. \A i \in 1 .. n : struct[i].col \in Named
  <2>1. \A i \in 1 .. n : struct[i] \in F
    BY <1>2, <1>3, ElementOfSeq
  <2>2. \A x \in F : x.col \in STRING
    BY <1>1
  <2>3. STRING \subseteq Named
    BY DEF Named
  <2>4. QED
    BY <2>1, <2>2, <2>3
<1>5. \A i \in 1 .. n : f[i] \in Seq(Named)
  <2>1. ASSUME NEW V, NEW x \in V
        PROVE  <<>> \in Seq(V) /\ <<x>> \in Seq(V)
    OBVIOUS
  <2>2. <<>> \in Seq(Named)
    BY EmptySeq
  <2>3. QED
    BY <1>3, <1>4, <2>1, <2>2
<1>6. f \in [1 .. n -> Seq(Named)]
  BY <1>3, <1>5
<1>7. f \in Seq(Seq(Named))
  BY <1>6, SeqDef
<1>8. FlattenSeq(f) \in Seq(Named)
  BY <1>7, FlattenType
<1>9. Named \subseteq Values
  BY DEF Values
<1>10. QED
  BY <1>8, <1>9, SeqMonotonic

\* The columns of an INSERT are those of its values.
LEMMA ReadFieldType ==
  ASSUME NEW struct \in Struct
  PROVE  /\ ReadField(struct).cols \in Seq(Named)
         /\ ReadField(struct).cols \in Seq(Values)
         /\ ReadField(struct).values = ReadField(struct).cols
<1>1. PICK f : f = [i \in DOMAIN struct |-> ReadOne(struct[i]).cols]
  OBVIOUS
<1>2. \A i \in DOMAIN struct : ReadOne(struct[i]).values = ReadOne(struct[i]).cols
  BY DEF ReadOne
<1>3. \A i \in DOMAIN struct : f[i] = <<>> \/ f[i] = <<struct[i].col>>
  BY <1>1 DEF ReadOne
<1>4. FlattenSeq(f) \in Seq(Named) /\ FlattenSeq(f) \in Seq(Values)
  BY <1>1, <1>3, PickedType
<1>5. ReadField(struct).cols = FlattenSeq(f) /\ ReadField(struct).values = FlattenSeq(f)
  <2>1. PICK read : read = [i \in DOMAIN struct |-> ReadOne(struct[i])]
    OBVIOUS
  <2>2. [i \in DOMAIN read |-> read[i].cols] = f /\ [i \in DOMAIN read |-> read[i].values] = f
    BY <1>1, <1>2, <2>1
  <2>3. ReadField(struct) = [cols |-> FlattenSeq([i \in DOMAIN read |-> read[i].cols]),
                             values |-> FlattenSeq([i \in DOMAIN read |-> read[i].values])]
    BY <2>1 DEF ReadField
  <2>4. QED
    BY <2>2, <2>3
<1>6. QED
  BY <1>4, <1>5

\* The column updated_at, or none.
LEMMA StampType ==
  ASSUME NEW b
  PROVE  (IF b THEN <<>> ELSE <<"updated_at">>) \in Seq(Values)
<1>1. ASSUME NEW V, NEW x \in V
      PROVE  <<>> \in Seq(V) /\ <<x>> \in Seq(V)
  OBVIOUS
<1>2. "updated_at" \in Values
  BY NamedAre
<1>3. QED
  BY <1>1, <1>2

\* Those of an UPDATE come first among its values.
LEMMA UpdateType ==
  ASSUME NEW struct \in Struct, NEW another
  PROVE  /\ UpdateValues(struct, another).cols \in Seq(Values)
         /\ UpdateValues(struct, another).values = UpdateValues(struct, another).cols \o another
         /\ UpdateValues(struct, another).cols = UpdateValues(struct, <<>>).cols
<1>1. PICK f : f = [i \in DOMAIN struct |->
                     IF /\ Updatable(struct[i])
                        /\ Kind(struct[i]) \in {"string", "pointer", "null"} => Given(struct[i])
                     THEN <<struct[i].col>> ELSE <<>>]
  OBVIOUS
<1>2. FlattenSeq(f) \in Seq(Values)
  <2>1. \A i \in DOMAIN struct : f[i] = <<>> \/ f[i] = <<struct[i].col>>
    BY <1>1, Zenon
  <2>2. DOMAIN f = DOMAIN struct /\ f = [i \in DOMAIN f |-> f[i]]
    BY <1>1
  <2>3. QED
    BY <2>1, <2>2, PickedType
<1>3. PICK stamp \in Seq(Values) :
        stamp = IF HaveUpdatedAt(struct) THEN <<>> ELSE <<"updated_at">>
  BY StampType
<1>4. \A a : UpdateValues(struct, a) = [cols |-> FlattenSeq(f) \o stamp,
                                        values |-> FlattenSeq(f) \o stamp \o a]
  BY <1>1, <1>3, Zenon DEF UpdateValues, Columns
<1>5. PICK g \in Seq(Values) : g = FlattenSeq(f) \o stamp
  BY <1>2, <1>3, ConcatProperties
<1>6. /\ UpdateValues(struct, another) = [cols |-> g, values |-> g \o another]
      /\ UpdateValues(struct, <<>>) = [cols |-> g, values |-> g \o <<>>]
  BY <1>4, <1>5
<1>7. QED
  BY <1>6

\* And those of an UPDATE of all columns.
LEMMA FixedUpdateType ==
  ASSUME NEW struct \in Struct, NEW another
  PROVE  /\ FixedUpdateValues(struct, another).cols \in Seq(Values)
         /\ FixedUpdateValues(struct, another).values
              = FixedUpdateValues(struct, another).cols \o another
<1>1. PICK f : f = [i \in DOMAIN struct |->
                     IF Updatable(struct[i]) THEN <<struct[i].col>> ELSE <<>>]
  OBVIOUS
<1>2. FlattenSeq(f) \in Seq(Values)
  <2>1. \A i \in DOMAIN struct : f[i] = <<>> \/ f[i] = <<struct[i].col>>
    BY <1>1, Zenon
  <2>2. DOMAIN f = DOMAIN struct /\ f = [i \in DOMAIN f |-> f[i]]
    BY <1>1
  <2>3. QED
    BY <2>1, <2>2, PickedType
<1>3. PICK stamp \in Seq(Values) :
        stamp = IF HaveUpdatedAt(struct) THEN <<>> ELSE <<"updated_at">>
  BY StampType
<1>4. FixedUpdateValues(struct, another)
        = [cols |-> FlattenSeq(f) \o stamp, values |-> FlattenSeq(f) \o stamp \o another]
  BY <1>1, <1>3, Zenon DEF FixedUpdateValues, UpdateTemplate, Columns
<1>5. FlattenSeq(f) \o stamp \in Seq(Values)
  BY <1>2, <1>3, ConcatProperties
<1>6. QED
  BY <1>4, <1>5

\* No value, and the id alone.
LEMMA NoneType == <<>> \in Seq(Values) /\ <<"id">> \in Seq(Values)
<1>1. ASSUME NEW V, NEW x \in V
      PROVE  <<>> \in Seq(V) /\ <<x>> \in Seq(V)
  OBVIOUS
<1>2. "id" \in Values
  BY NamedAre
<1>3. QED
  BY <1>1, <1>2

\* A condition on the id, after a clause that names what to do.
LEMMA RunsById ==
  ASSUME NEW s, NEW h, Runs("outside", s, "outside", h)
  PROVE  RunsOn("outside", s \o <<Where, Condition("id", TRUE)>>, h \o <<"id">>)
<1>1. PICK x, y, i : x = Where /\ y = Condition("id", TRUE) /\ i = <<"id">>
  OBVIOUS
<1>2. y = Clause("condition", i)
  BY <1>1 DEF Condition
<1>3. Runs("outside", <<x>>, "where", <<>>)
  <2>1. "WHERE" \in ClauseNames
    BY DEF ClauseNames
  <2>2. PlaceOf("WHERE") = "where" /\ CanFollow("outside", PlaceOf("WHERE"))
    BY PlacesAre DEF CanFollow
  <2>3. QED
    BY <1>1, <2>1, <2>2, NoneType, RunsOne DEF Where
<1>4. Runs("where", <<y>>, "condition", i)
  <2>1. "condition" \in Conditions
    BY DEF Conditions
  <2>2. QED
    BY <1>1, <1>2, <2>1, NoneType, RunsFirst
<1>5. Runs("outside", <<x>> \o <<y>>, "condition", <<>> \o i)
  BY <1>3, <1>4, RunsConcat
<1>6. <<x>> \o <<y>> = <<x, y>> /\ <<>> \o i = i
  <2>3. i \in Seq(Values)
    BY <1>1, NoneType
  <2>4. <<x>> \o <<y>> = <<x, y>>
    BY TextTwo
  <2>5. <<>> \o i = i
    BY <2>3, ConcatEmptySeq
  <2>6. QED
    BY <2>4, <2>5
<1>7. Runs("outside", s \o <<x, y>>, "condition", h \o i)
  BY <1>5, <1>6, RunsConcat
<1>8. QED
  BY <1>1, <1>7 DEF RunsOn, Open

\* A clause with the columns of a struct.
LEMMA RunsColumns ==
  ASSUME NEW name \in {"INSERT", "UPDATE", "ON DUPLICATE KEY UPDATE", "SELECT",
                       "UPDATE deleted_at", "DELETE", "VALUES"},
         NEW h \in Seq(Values)
  PROVE  Runs("outside", <<Clause(name, h)>>, "outside", h)
<1>1. name \in ClauseNames \ Conditions /\ name \notin {"AND", "WHERE", "RETURNING id"}
  BY DEF ClauseNames, Conditions
<1>2. "outside" \in Open
  BY DEF Open
<1>3. QED
  BY <1>1, <1>2, RunsWord

\* Several rows with the same columns, one group for each.
LEMMA BulkRuns ==
  ASSUME NEW rws, NEW n \in Nat, DOMAIN rws = 1 .. n, NEW head \in Seq(Named),
         \A i \in 1 .. n : rws[i].values = head /\ rws[i].cols = head
  PROVE  RunsOn("outside", BulkInsert(rws).stmt, BulkInsert(rws).params)
<1> DEFINE group(i) == [j \in DOMAIN rws[i].values |->
                          <<i, IF j \in DOMAIN Header(rws) THEN Header(rws)[j] ELSE Nil>>]
<1>1. PICK m \in Nat : DOMAIN head = 1 .. m /\ \A j \in 1 .. m : head[j] \in Named
  BY LenProperties, ElementOfSeq
<1>2. n # 0 => Header(rws) = head
  <2>1. CASE head = <<>>
    BY <2>1 DEF Header
  <2>2. CASE head # <<>> /\ n # 0
    <3>1. {i \in DOMAIN rws : rws[i].cols # <<>>} = 1 .. n
      BY <2>2
    <3>2. \E i \in 1 .. n : \A j \in 1 .. n : i <= j
      <4>1. 1 \in 1 .. n /\ \A j \in 1 .. n : 1 <= j
        BY <2>2
      <4>2. QED
        BY <4>1
    <3>3. PICK i : i = CHOOSE x \in 1 .. n : \A j \in 1 .. n : x <= j
      OBVIOUS
    <3>4. i \in 1 .. n
      BY <3>2, <3>3
    <3>5. 1 .. n # {}
      BY <3>4
    <3>6. Header(rws) = rws[i].cols
      BY <3>1, <3>3, <3>5 DEF Header
    <3>7. QED
      BY <3>4, <3>6
  <2>3. QED
    BY <2>1, <2>2
<1>3. \A i \in 1 .. n : /\ group(i) = [j \in 1 .. m |-> <<i, head[j]>>]
                        /\ Tagged(i, rws[i].values) = [j \in 1 .. m |-> <<i, head[j]>>]
  <2>1. ASSUME NEW i \in 1 .. n
        PROVE  /\ group(i) = [j \in 1 .. m |-> <<i, head[j]>>]
               /\ Tagged(i, rws[i].values) = [j \in 1 .. m |-> <<i, head[j]>>]
    <3>1. Header(rws) = head /\ rws[i].values = head
      BY <1>2
    <3>2. QED
      BY <1>1, <3>1 DEF Tagged
  <2>2. QED
    BY <2>1
<1>4. \A i \in 1 .. n : group(i) \in Seq(Values)
  <2>1. ASSUME NEW i \in 1 .. n
        PROVE  group(i) \in Seq(Values)
    <3>1. PICK g : g = [j \in 1 .. m |-> <<i, head[j]>>]
      OBVIOUS
    <3>2. \A j \in 1 .. m : <<i, head[j]>> \in Nat \X Named
      BY <1>1
    <3>3. g \in [1 .. m -> Nat \X Named]
      BY <3>1, <3>2
    <3>4. g \in Seq(Nat \X Named)
      BY <3>3, SeqDef
    <3>5. Nat \X Named \subseteq Values
      BY DEF Values
    <3>6. g \in Seq(Values)
      BY <3>4, <3>5, SeqMonotonic
    <3>7. QED
      BY <1>3, <3>1, <3>6
  <2>2. QED
    BY <2>1
<1> HIDE DEF group
<1>5. PICK V : V = [i \in 1 .. n |-> Clause("VALUES", group(i))]
  OBVIOUS
<1>6. "VALUES" \in ClauseNames /\ "VALUES" \in ClauseNames \ Conditions
      /\ PlaceOf("VALUES") = "outside" /\ CanFollow("outside", PlaceOf("VALUES"))
  <2>1. "VALUES" \in ClauseNames \ Conditions /\ "VALUES" \notin {"AND", "WHERE", "RETURNING id"}
    BY DEF ClauseNames, Conditions
  <2>2. PlaceOf("VALUES") = "outside"
    BY <2>1, PlacesAre
  <2>3. QED
    BY <2>1, <2>2 DEF CanFollow
<1>7. /\ V \in Seq(Clauses) /\ Len(V) = n /\ DOMAIN V = 1 .. n
      /\ \A i \in 1 .. n : V[i].name = "VALUES" /\ V[i].holes = group(i)
  <2>1. \A i \in 1 .. n : /\ Clause("VALUES", group(i)) \in Clauses
                          /\ Clause("VALUES", group(i)).name = "VALUES"
                          /\ Clause("VALUES", group(i)).holes = group(i)
    BY <1>4, <1>6, ClauseFields
  <2>2. V \in [1 .. n -> Clauses]
    BY <1>5, <2>1
  <2>3. V \in Seq(Clauses) /\ Len(V) = n
    BY <2>2, SeqDef
  <2>4. QED
    BY <1>5, <2>1, <2>3
<1>8. Leads("outside", V, "outside")
  <2>1. CASE n = 0
    BY <1>7, <2>1, EmptySeq DEF Leads
  <2>2. CASE n # 0
    <3>1. V # <<>> /\ 1 \in 1 .. n /\ n \in 1 .. n
      BY <1>7, <2>2, EmptySeq
    <3>2. \A i \in 1 .. n : PlaceOf(V[i].name) = "outside"
      BY <1>6, <1>7
    <3>3. CanFollow("outside", "outside")
      BY <1>6
    <3>4. QED
      BY <1>7, <3>1, <3>2, <3>3 DEF Leads
  <2>3. QED
    BY <2>1, <2>2
<1>9. Runs("outside", V, "outside", Holes(V))
  BY <1>7, <1>8, HolesType DEF Runs
<1>10. Holes(V) = BulkInsert(rws).params
  <2>1. \A i \in 1 .. n : group(i) = Tagged(i, rws[i].values)
    BY <1>3
  <2>3. \A i \in 1 .. n : V[i].holes = Tagged(i, rws[i].values)
    BY <1>7, <2>1
  <2>4. DOMAIN V = DOMAIN rws
    BY <1>7
  <2>5. [i \in DOMAIN V |-> V[i].holes] = [i \in DOMAIN rws |-> Tagged(i, rws[i].values)]
    BY <2>3, <2>4
  <2>2. QED
    BY <2>5 DEF Holes, BulkInsert
<1>11. Runs("outside", <<Clause("INSERT", <<>>)>>, "outside", <<>>)
  BY NoneType, RunsColumns
<1>12. Runs("outside", <<Clause("INSERT", <<>>)>> \o V, "outside", <<>> \o Holes(V))
  BY <1>9, <1>11, RunsConcat
<1>13. <<>> \o Holes(V) = Holes(V)
  BY <1>7, HolesType, ConcatEmptySeq
<1>14. BulkInsert(rws).stmt = <<Clause("INSERT", <<>>)>> \o V
  BY <1>5 DEF BulkInsert, Word, group
<1>15. QED
  BY <1>10, <1>12, <1>13, <1>14 DEF RunsOn, Open

\* The text of an action, and RETURNING where it has it: what may stand before
\* it, it leads to the end.
LEMMA ReturningRuns ==
  ASSUME NEW p \in Open
  PROVE  \E q \in Open \cup {"end"} : Runs(p, Returning, q, <<>>)
<1>1. "RETURNING id" \in ClauseNames /\ <<>> \in Seq(Values)
  BY EmptySeq DEF ClauseNames
<1>2. PlaceOf("RETURNING id") = "end" /\ CanFollow(p, PlaceOf("RETURNING id"))
  BY PlacesAre DEF CanFollow, Open
<1>3. Runs(p, Word("RETURNING id"), "end", <<>>)
  BY <1>1, <1>2, RunsOne DEF Word
<1>4. Runs(p, <<>>, p, <<>>)
  BY RunsNone
<1>5. QED
  BY <1>3, <1>4 DEF Returning

\* A statement that may end, and RETURNING or nothing after it, is right.
LEMMA ReturningFits ==
  ASSUME NEW s, NEW h, RunsOn("outside", s, h), NEW t, t = Returning \/ t = <<>>,
         NEW st, st.stmt = s \o t, st.params = h
  PROVE  Fits(st)
<1>1. PICK p \in Open : Runs("outside", s, p, h)
  BY DEF RunsOn
<1>2. PICK q \in Open \cup {"end"} : Runs(p, t, q, <<>>)
  <2>1. Runs(p, <<>>, p, <<>>)
    BY RunsNone
  <2>2. QED
    BY <2>1, ReturningRuns
<1>3. Runs("outside", s \o t, q, h \o <<>>)
  BY <1>1, <1>2, RunsConcat
<1>4. h \o <<>> = h
  BY <1>1, ConcatEmptySeq DEF Runs
<1>5. q \notin {"where", "and"}
  BY DEF Open
<1>6. QED
  BY <1>3, <1>4, <1>5, RunsFit

\* The rows of a regular BulkInsert have the same columns.
LEMMA BulkIsRegular ==
  ASSUME NEW k \in CallRecord, Regular(k), k.op = "bulkInsert"
  PROVE  /\ RunsOn("outside", BulkInsert(BulkRows(k)).stmt, BulkInsert(BulkRows(k)).params)
         /\ ~ BulkInsert(BulkRows(k)).panics
<1>1. PICK rs \in Seq(Struct) : rs = k.rows
  BY DEF CallRecord
<1>2. PICK n \in Nat : n = Len(rs) /\ DOMAIN rs = 1 .. n
  BY LenProperties
<1>3. PICK rws : rws = BulkRows(k)
  OBVIOUS
<1>4. DOMAIN rws = 1 .. n /\ \A i \in 1 .. n : rws[i] = ReadField(rs[i])
  BY <1>1, <1>2, <1>3 DEF BulkRows
<1>5. \A i \in 1 .. n : rws[i].cols \in Seq(Named) /\ rws[i].values = rws[i].cols
  <2>1. \A i \in 1 .. n : rs[i] \in Struct
    BY <1>2, ElementOfSeq
  <2>2. QED
    BY <1>4, <2>1, ReadFieldType
<1>6. \A i \in 1 .. n : rws[i].cols = rws[1].cols /\ rws[i].cols # <<>>
  <2>1. \A i \in DOMAIN k.rows : /\ BulkRows(k)[i].cols = BulkRows(k)[1].cols
                                 /\ BulkRows(k)[i].cols # <<>>
    BY Zenon DEF Regular
  <2>2. QED
    BY <1>1, <1>2, <1>3, <2>1
<1>7. PICK head \in Seq(Named) : n # 0 => head = rws[1].cols
  <2>1. CASE n = 0
    BY <2>1, EmptySeq
  <2>2. CASE n # 0
    <3>1. 1 \in 1 .. n
      BY <2>2
    <3>2. QED
      BY <1>5, <3>1
  <2>3. QED
    BY <2>1, <2>2
<1>8. \A i \in 1 .. n : rws[i].values = head /\ rws[i].cols = head
  <2>1. ASSUME NEW i \in 1 .. n
        PROVE  rws[i].values = head /\ rws[i].cols = head
    <3>1. n # 0
      OBVIOUS
    <3>2. QED
      BY <1>5, <1>6, <1>7, <3>1
  <2>2. QED
    BY <2>1
<1>9. RunsOn("outside", BulkInsert(rws).stmt, BulkInsert(rws).params)
  BY <1>4, <1>8, BulkRuns
<1>10. ~ \E i \in DOMAIN rws : rws[i].values = <<>>
  BY <1>4, <1>5, <1>6
<1>11. ~ BulkInsert(rws).panics
  BY <1>10 DEF BulkInsert
<1>12. QED
  BY <1>3, <1>9, <1>11

\* The actions of a call.
ActionOf(k, act) ==
  /\ act = k.op \/ (k.op = "upsert" /\ act \in {"update", "insert"})
  /\ act \in Operations \ (Reads \cup {"upsert"})

\* What the struct of a regular call gives the text of its action, for an
\* INSERT up to RETURNING; it does not panic.
LEMMA ActionRuns ==
  ASSUME NEW k \in CallRecord, Regular(k), NEW act, ActionOf(k, act), NEW order,
         NEW d, d = Data(act, k, order)
  PROVE  /\ ~ ActionPanics(act, d)
         /\ act = "insert" => RunsOn("outside", <<Clause("INSERT", d.cols)>>, d.values)
         /\ act # "insert" => RunsOn("outside", ActionText(act, d, SoftDelete), d.values)
<1>1. k.row \in Struct
  BY DEF CallRecord
<1> PICK none \in Seq(Values), id \in Seq(Values) : none = <<>> /\ id = <<"id">>
  BY NoneType
<1>2. "outside" \in Open
  BY DEF Open
<1>3. PICK w : w = Word(IF SoftDelete THEN "UPDATE deleted_at" ELSE "DELETE")
  OBVIOUS
<1>4. Runs("outside", w, "outside", none)
  BY <1>3, RunsColumns DEF Word
<1>5. none \o id = id
  BY ConcatEmptySeq
<1>6. CASE act = "insert"
  <2>1. PICK r : r = ReadField(k.row)
    OBVIOUS
  <2>2. d = [cols |-> r.cols, values |-> r.values, bulk |-> <<>>, panics |-> FALSE]
    BY <1>6, <2>1 DEF Data
  <2>3. d.cols \in Seq(Values) /\ d.values = d.cols /\ d.panics = FALSE /\ d.cols = r.cols
    BY <1>1, <2>1, <2>2, ReadFieldType
  <2>4. RunsOn("outside", <<Clause("INSERT", d.cols)>>, d.values)
    BY <1>2, <2>3, RunsColumns DEF RunsOn
  <2>5. r.cols # <<>>
    <3>1. k.op \in {"insert", "upsert"}
      BY <1>6 DEF ActionOf
    <3>2. QED
      BY <2>1, <3>1, Zenon DEF Regular
  <2>6. ~ ActionPanics(act, d)
    BY <2>3, <2>5 DEF ActionPanics
  <2>7. QED
    BY <1>6, <2>4, <2>6
<1>7. CASE act \in {"update", "updateById", "fixedUpdate"}
  <2>1. PICK r : r = CASE act = "update" -> UpdateValues(k.row, <<>>)
                       [] act = "updateById" -> UpdateValues(k.row, <<"id">>)
                       [] act = "fixedUpdate" -> FixedUpdateValues(k.row, <<"id">>)
    OBVIOUS
  <2>2. d = [cols |-> r.cols, values |-> r.values, bulk |-> <<>>, panics |-> FALSE]
    BY <1>7, <2>1 DEF Data
  <2> PICK tail \in Seq(Values) : tail = IF act = "update" THEN none ELSE id
    OBVIOUS
  <2>3. PICK C \in Seq(Values) : C = r.cols /\ r.values = C \o tail
    <3>1. CASE act = "update"
      BY <1>1, <2>1, <3>1, UpdateType
    <3>2. CASE act = "updateById"
      BY <1>1, <2>1, <3>2, UpdateType
    <3>3. CASE act = "fixedUpdate"
      BY <1>1, <2>1, <3>3, FixedUpdateType
    <3>4. QED
      BY <1>7, <3>1, <3>2, <3>3
  <2>4. d.cols = C /\ d.values = C \o tail /\ d.panics = FALSE
    <3>1. d.cols = r.cols /\ d.values = r.values /\ d.panics = FALSE
      BY <2>2
    <3>2. QED
      BY <2>3, <3>1
  <2>5. Runs("outside", <<Clause("UPDATE", C)>>, "outside", C)
    BY RunsColumns
  <2>6. RunsOn("outside", ActionText(act, d, SoftDelete), d.values)
    <3>1. CASE act = "update"
      <4>1. ActionText(act, d, SoftDelete) = <<Clause("UPDATE", C)>>
        BY <2>4, <3>1 DEF ActionText, ById
      <4>2. d.values = C
        BY <2>4, <3>1, ConcatEmptySeq
      <4>3. QED
        BY <1>2, <2>5, <4>1, <4>2 DEF RunsOn
    <3>2. CASE act # "update"
      <4>1. act \in ById
        BY <1>7, <3>2 DEF ById
      <4>2. ActionText(act, d, SoftDelete)
              = <<Clause("UPDATE", C)>> \o <<Where, Condition("id", TRUE)>>
        <5>1. ActionText(act, d, SoftDelete) = <<Clause("UPDATE", C), Where, Condition("id", TRUE)>>
          BY <2>4, <4>1 DEF ActionText, ById
        <5>2. QED
          BY <5>1, TextThree
      <4>3. QED
        BY <2>4, <2>5, <3>2, <4>2, RunsById
    <3>3. QED
      BY <3>1, <3>2
  <2>7. ~ ActionPanics(act, d)
    BY <1>7, <2>4 DEF ActionPanics
  <2>8. QED
    BY <1>7, <2>6, <2>7
<1>8. CASE act = "upsertAction"
  <2>1. PICK r : r = UpdateValues(k.row, <<>>)
    OBVIOUS
  <2>2. PICK C \in Seq(Values) : C = r.cols /\ r.values = C \o none
    BY <1>1, <2>1, UpdateType
  <2>3. C \o none = C
    BY ConcatEmptySeq
  <2>4. r = [cols |-> r.cols, values |-> r.values]
    BY <2>1, Zenon DEF UpdateValues
  <2>5. PICK e : e = [r EXCEPT !.values = @ \o @]
    OBVIOUS
  <2>6. e.cols = C /\ e.values = C \o C
    BY <2>2, <2>3, <2>4, <2>5
  <2>7. d = [cols |-> e.cols, values |-> e.values, bulk |-> <<>>, panics |-> FALSE]
    BY <1>8, <2>1, <2>5 DEF Data
  <2>8. d.cols = C /\ d.values = C \o C /\ d.panics = FALSE
    BY <2>6, <2>7
  <2>9. ActionText(act, d, SoftDelete)
          = <<Clause("INSERT", C)>> \o <<Clause("ON DUPLICATE KEY UPDATE", C)>>
    <3>1. ActionText(act, d, SoftDelete)
            = <<Clause("INSERT", C), Clause("ON DUPLICATE KEY UPDATE", C)>>
      BY <1>8, <2>8 DEF ActionText, ById
    <3>2. QED
      BY <3>1, TextTwo
  <2>10. /\ Runs("outside", <<Clause("INSERT", C)>>, "outside", C)
         /\ Runs("outside", <<Clause("ON DUPLICATE KEY UPDATE", C)>>, "outside", C)
    BY RunsColumns
  <2>11. Runs("outside", ActionText(act, d, SoftDelete), "outside", d.values)
    BY <2>8, <2>9, <2>10, RunsConcat
  <2>12. C # <<>>
    <3>1. k.op = "upsertAction"
      BY <1>8 DEF ActionOf
    <3>2. QED
      BY <2>1, <2>2, <3>1, Zenon DEF Regular
  <2>13. ~ ActionPanics(act, d)
    BY <2>8, <2>12 DEF ActionPanics
  <2>14. QED
    BY <1>2, <1>8, <2>11, <2>13 DEF RunsOn
<1>9. CASE act \in {"delete", "deleteById"}
  <2>1. /\ d.values = IF act = "delete" THEN none ELSE id
        /\ d.panics = FALSE
    BY <1>9 DEF Data
  <2>2. ActionText(act, d, SoftDelete)
          = IF act = "delete" THEN w ELSE w \o <<Where, Condition("id", TRUE)>>
    BY <1>3, <1>9 DEF ActionText, ById
  <2>3. RunsOn("outside", w \o <<Where, Condition("id", TRUE)>>, none \o id)
    BY <1>4, RunsById
  <2>4. RunsOn("outside", ActionText(act, d, SoftDelete), d.values)
    BY <1>2, <1>4, <1>5, <2>1, <2>2, <2>3 DEF RunsOn
  <2>5. ~ ActionPanics(act, d)
    BY <1>9, <2>1 DEF ActionPanics
  <2>6. QED
    BY <1>9, <2>4, <2>5
<1>10. CASE act = "bulkInsert"
  <2>1. k.op = "bulkInsert"
    BY <1>10 DEF ActionOf
  <2>2. PICK b : b = BulkInsert(BulkRows(k))
    OBVIOUS
  <2>3. RunsOn("outside", b.stmt, b.params) /\ ~ b.panics
    BY <2>1, <2>2, BulkIsRegular
  <2>4. d = [cols |-> <<>>, values |-> b.params, bulk |-> b.stmt, panics |-> b.panics]
    BY <1>10, <2>2 DEF Data
  <2>5. d.values = b.params /\ d.bulk = b.stmt /\ d.panics = b.panics
    BY <2>4
  <2>6. ActionText(act, d, SoftDelete) = b.stmt
    BY <1>10, <2>5 DEF ActionText, ById
  <2>7. ~ ActionPanics(act, d)
    BY <1>10, <2>3, <2>5 DEF ActionPanics
  <2>8. QED
    BY <1>10, <2>3, <2>5, <2>6, <2>7
<1>11. act # "bulkUpdate"
  BY DEF ActionOf, Regular
<1>12. QED
  BY <1>6, <1>7, <1>8, <1>9, <1>10, <1>11 DEF ActionOf, Operations, Reads

\* What a regular write sends is right, with what its request adds.
LEMMA WriteFits ==
  ASSUME NEW k \in CallRecord, Regular(k), NEW act, ActionOf(k, act), NEW order,
         NEW addOn, Follows(addOn.stmt, addOn.params),
         act = "insert" => addOn = NoAddOn,
         NEW s, s = WriteStatement(act, Data(act, k, order), SoftDelete, addOn)
  PROVE  Fits(s)
<1>1. PICK d, t : /\ d = Data(act, k, order)
                  /\ t = IF act \in ById \cup {"update"} THEN Returning ELSE <<>>
  OBVIOUS
<1>2. /\ s.stmt = (ActionText(act, d, SoftDelete) \o addOn.stmt) \o t
      /\ s.params = d.values \o addOn.params
  BY <1>1 DEF WriteStatement
<1>3. CASE act # "insert"
  <2>1. RunsOn("outside", ActionText(act, d, SoftDelete), d.values)
    BY <1>1, <1>3, ActionRuns
  <2>2. RunsOn("outside", ActionText(act, d, SoftDelete) \o addOn.stmt,
               d.values \o addOn.params)
    BY <2>1, RunsOnConcat
  <2>3. t = Returning \/ t = <<>>
    BY <1>1
  <2>4. QED
    BY <1>2, <2>2, <2>3, ReturningFits
<1>4. CASE act = "insert"
  <2>1. PICK i : i = <<Clause("INSERT", d.cols)>>
    OBVIOUS
  <2>2. RunsOn("outside", i, d.values)
    BY <1>1, <1>4, <2>1, ActionRuns
  <2>3. t = <<>> /\ addOn.stmt = <<>> /\ addOn.params = <<>>
    BY <1>1, <1>4 DEF ById, NoAddOn
  <2>4. ActionText(act, d, SoftDelete) = i \o Returning
    BY <1>4, <2>1 DEF ActionText, ById
  <2>5. i \o Returning \in Seq(Clauses) /\ d.values \in Seq(Values)
    <3>1. Returning \in Seq(Clauses)
      <4>1. "outside" \in Open
        BY DEF Open
      <4>2. QED
        BY <4>1, ReturningRuns DEF Runs
    <3>2. i \in Seq(Clauses) /\ d.values \in Seq(Values)
      BY <2>2 DEF RunsOn, Runs
    <3>3. QED
      BY <3>1, <3>2, ConcatProperties
  <2>6. s.stmt = i \o Returning /\ s.params = d.values
    BY <1>2, <2>3, <2>4, <2>5, ConcatEmptySeq
  <2>7. QED
    BY <2>2, <2>6, ReturningFits
<1>5. QED
  BY <1>3, <1>4

\* Conditions of which those that have a value have a placeholder for it.
Matched(conds) ==
  \A i \in DOMAIN conds : /\ conds[i].holed <=> conds[i].value # Nil
                          /\ conds[i].value \in {conds[i].col, Nil}

\* A request that is filled with them has a value for every placeholder.
LEMMA MatchedIsApt ==
  ASSUME NEW conds \in Seq(CondRecord), Matched(conds), NEW include, NEW req,
         \/ req = NewRequest
         \/ (\E r : req = Reset(r)) /\ conds # <<>>
  PROVE  Apt(WithConditions(req, conds, include))
<1>1. PICK full : full = WithConditions(req, conds, include)
  OBVIOUS
<1>2. PICK given : given = [i \in DOMAIN conds |->
                             IF conds[i].value = Nil THEN <<>> ELSE <<conds[i].value>>]
  OBVIOUS
<1>3. PICK n \in Nat : n = Len(conds) /\ DOMAIN conds = 1 .. n
  BY LenProperties
<1>4. \A i \in 1 .. n : conds[i] \in CondRecord
  BY <1>3, ElementOfSeq
<1>5. \A i \in 1 .. n :
        given[i] = IF conds[i].holed THEN <<conds[i].col>> ELSE <<>>
  BY <1>2, <1>3 DEF Matched
<1>6. FlattenSeq(given) \in Seq(Values)
  <2>1. \A i \in 1 .. n : given[i] \in Seq(Values)
    <3>1. ASSUME NEW V, NEW x \in V
          PROVE  <<>> \in Seq(V) /\ <<x>> \in Seq(V)
      OBVIOUS
    <3>2. \A i \in 1 .. n : conds[i].col \in STRING
      BY <1>4 DEF CondRecord
    <3>3. <<>> \in Seq(Values) /\ \A i \in 1 .. n : conds[i].col \in Values
      BY <3>2, NamedAre, NoneType
    <3>4. QED
      BY <1>5, <3>1, <3>3
  <2>2. given \in [1 .. n -> Seq(Values)]
    BY <1>2, <1>3, <2>1
  <2>3. given \in Seq(Seq(Values))
    BY <2>2, SeqDef
  <2>4. QED
    BY <2>3, FlattenType
<1>7. /\ {"where", "values"} \subseteq DOMAIN full
      /\ full.values = FlattenSeq(given)
      /\ conds = <<>> => full.where = req.where
  <2>1. PICK x, v, e : /\ req = [where |-> x, values |-> v, set |-> {}, engine |-> e]
                       /\ v = <<>>
    BY DEF NewRequest, Reset
  <2>2. {"where", "values"} \subseteq DOMAIN full
    BY <1>1, <2>1 DEF WithConditions, SetWhereConditions
  <2>3. full.values = <<>> \o FlattenSeq(given)
    BY <1>1, <1>2, <2>1 DEF WithConditions, SetWhereConditions
  <2>4. conds = <<>> => full.where = req.where
    BY <1>1, <2>1 DEF WithConditions, SetWhereConditions
  <2>5. QED
    BY <1>6, <2>2, <2>3, <2>4, ConcatEmptySeq
<1>8. CASE conds = <<>>
  <2>1. req.where = Nil
    <3>1. req = NewRequest
      BY <1>8
    <3>2. QED
      BY <3>1 DEF NewRequest
  <2>2. given = <<>>
    BY <1>2, <1>8
  <2>3. QED
    BY <1>1, <1>7, <1>8, <2>1, <2>2, FlattenNone DEF Apt
<1>9. CASE conds # <<>>
  <2>1. PICK w : w = full.where
    OBVIOUS
  <2>2. /\ w = [i \in DOMAIN conds |-> Condition(conds[i].col, conds[i].holed)]
        /\ w \in Seq(CondClauses)
    BY <1>1, <1>9, <2>1, RequestText DEF CondClauses
  <2>3. DOMAIN w = 1 .. n /\ w # <<>>
    <3>1. DOMAIN w = 1 .. n /\ n # 0
      BY <1>3, <1>9, <2>2, EmptySeq
    <3>2. Len(w) = n
      BY <2>2, <3>1, LenProperties
    <3>3. QED
      BY <3>1, <3>2
  <2>4. w # Nil
    BY <2>2, WritesAssumption DEF CondClauses
  <2>5. \A i \in 1 .. n : w[i].holes = given[i]
    BY <1>3, <1>5, <2>2, Zenon DEF Condition, Clause
  <2>6. DOMAIN given = 1 .. n /\ given = [i \in DOMAIN given |-> given[i]]
    BY <1>2, <1>3
  <2>7. [i \in DOMAIN w |-> w[i].holes] = given
    BY <2>3, <2>5, <2>6
  <2>8. Holes(w) = full.values
    BY <1>7, <2>7 DEF Holes
  <2>9. QED
    BY <1>1, <1>7, <2>1, <2>2, <2>3, <2>4, <2>8 DEF Apt
<1>10. QED
  BY <1>8, <1>9

\* The conditions of a regular call, in any order and as Upsert normalises
\* them, fill a request with its values.
LEMMA RegularIsMatched ==
  ASSUME NEW k \in CallRecord, IsFiniteSet(k.conds), Regular(k),
         \A x \in k.conds : x.value \in {x.col, Nil},
         NEW conds \in SetToSeqs(k.conds)
  PROVE  /\ conds \in Seq(CondRecord) /\ Matched(conds)
         /\ Normal(conds) \in Seq(CondRecord) /\ Matched(Normal(conds))
         /\ k.conds # {} => conds # <<>> /\ Normal(conds) # <<>>
<1>1. conds \in Seq(CondRecord) /\ Normal(conds) \in Seq(CondRecord)
  BY HoledIsSought
<1>2. conds \in Seq(k.conds) /\ Range(conds) = k.conds
  BY OrderMeetsAll
<1>3. PICK n \in Nat : n = Len(conds) /\ DOMAIN conds = 1 .. n
  BY <1>1, LenProperties
<1>4. \A i \in 1 .. n : conds[i] \in CondRecord /\ conds[i] \in k.conds
  BY <1>1, <1>2, <1>3, ElementOfSeq
<1>5. \A x \in k.conds : x.holed <=> x.value # Nil
  BY Zenon DEF Regular
<1>6. Matched(conds)
  BY <1>3, <1>4, <1>5 DEF Matched
<1>7. PICK normal : normal = Normal(conds)
  OBVIOUS
<1>8. normal = [i \in 1 .. n |-> [conds[i] EXCEPT !.holed = @ \/ conds[i].value # Nil]]
  BY <1>3, <1>7 DEF Normal
<1>9. ASSUME NEW x \in CondRecord
      PROVE  /\ [x EXCEPT !.holed = @ \/ x.value # Nil].col = x.col
             /\ [x EXCEPT !.holed = @ \/ x.value # Nil].value = x.value
             /\ [x EXCEPT !.holed = @ \/ x.value # Nil].holed <=> (x.holed \/ x.value # Nil)
  BY <1>9 DEF CondRecord
<1>10. \A i \in 1 .. n : /\ normal[i].col = conds[i].col /\ normal[i].value = conds[i].value
                         /\ normal[i].holed <=> (conds[i].holed \/ conds[i].value # Nil)
  BY <1>4, <1>8, <1>9
<1>11. DOMAIN normal = 1 .. n
  BY <1>8
<1>12. Matched(normal)
  BY <1>3, <1>6, <1>10, <1>11 DEF Matched
<1>13. k.conds # {} => n # 0
  BY <1>2, <1>3 DEF Range
<1>14. n # 0 => conds # <<>> /\ normal # <<>>
  <2>1. DOMAIN <<>> = {} /\ (n # 0 => 1 \in 1 .. n)
    OBVIOUS
  <2>2. QED
    BY <1>3, <1>11, <2>1
<1>15. QED
  BY <1>1, <1>6, <1>7, <1>12, <1>13, <1>14

\* Its other fields do not matter for that.
LEMMA FieldsStayApt ==
  ASSUME NEW req, Apt(req), NEW x
  PROVE  Apt([req EXCEPT !.set = x]) /\ Apt([req EXCEPT !.engine = x])
<1>1. ASSUME NEW s, s.where = req.where, s.values = req.values, DOMAIN s = DOMAIN req
      PROVE  Apt(s)
  BY <1>1 DEF Apt
<1>2. {"where", "values"} \subseteq DOMAIN req
  BY DEF Apt
<1>3. /\ [req EXCEPT !.set = x].where = req.where
      /\ [req EXCEPT !.set = x].values = req.values
      /\ DOMAIN [req EXCEPT !.set = x] = DOMAIN req
      /\ [req EXCEPT !.engine = x].where = req.where
      /\ [req EXCEPT !.engine = x].values = req.values
      /\ DOMAIN [req EXCEPT !.engine = x] = DOMAIN req
  BY <1>2
<1>4. QED
  BY <1>1, <1>3

\* An apt request has a condition to cut the last AND from.
LEMMA AptDoesNotPanic ==
  ASSUME NEW req, Apt(req)
  PROVE  ~ InitiateWherePanics(req)
<1>1. Nil # <<>>
  <2>1. PICK C : C = [name : {"condition"}, holes : Seq(STRING)]
    OBVIOUS
  <2>2. <<>> \in Seq(C)
    BY EmptySeq
  <2>3. QED
    BY <2>1, <2>2, WritesAssumption
<1>2. QED
  BY <1>1 DEF Apt, InitiateWherePanics

(***************************************************************************)
(* The calls under way                                                     *)
(***************************************************************************)
\* What a regular call has sent is right, and so are the requests it will
\* build its next statement from.
FitInv(c) ==
  /\ pc[c] = "idle" => result[c] = "none"
  /\ pc[c] # "idle" => \A x \in call[c].conds : x.value \in {x.col, Nil}
  /\ pc[c] # "idle" /\ Regular(call[c]) =>
       /\ result[c] # "panic"
       /\ sent[c] # Nil => Fits(sent[c])
       /\ pc[c] = "reading" /\ call[c].op = "upsert" => Apt(request[held[c][1]])
       /\ pc[c] = "writing" /\ action[c] \in OnRequest => Apt(request[Last(held[c])])
FitsInv == DOMAIN result = Caller /\ \A c \in Caller : FitInv(c)

\* What is right depends on the placeholders and their values only.
LEMMA FitsOfParts ==
  ASSUME NEW s, NEW st, s.stmt = st.stmt, s.params = st.params, Fits(st)
  PROVE  Fits(s)
BY Zenon DEF Fits

\* What a read sends is right.
LEMMA ReadFits ==
  ASSUME CallerInv, FitsInv, NEW c \in Caller, ReadBy(c), Regular(call[c])
  PROVE  Fits(sent'[c])
<1>1. PICK k \in CallRecord : k = call[c] /\ IsFiniteSet(k.conds)
                              /\ \A x \in k.conds : x.value \in {x.col, Nil}
  BY ReadFacts DEF CallerInv, CallsInv, FitsInv, FitInv
<1>2. PICK base, req, addOn, lock, params, s :
        /\ base = CASE k.op = "detailById" -> Word("SELECT")
                                              \o <<Where, Condition("id", TRUE)>>
                    [] OTHER -> Word("SELECT")
        /\ req = [WithConditions(NewRequest, SetToSeq(k.conds), FALSE)
                    EXCEPT !.set = k.set]
        /\ addOn = IF k.op = "detailById" THEN NoAddOn ELSE Selected(req)
        /\ lock = IF OnTrx(c) THEN LockClause(k.lock) ELSE <<>>
        /\ params = IF k.op = "detailById" THEN <<"id">> ELSE <<>>
        /\ s = ReadStatement(base, params, addOn, lock)
  OBVIOUS
<1>3. sent' = [sent EXCEPT ![c] = [stmt |-> s.stmt, params |-> s.params,
                                   table |-> Text(k).table, cols |-> Text(k).cols]]
  BY <1>1, <1>2, Zenon DEF ReadBy
<1>4. sent'[c].stmt = s.stmt /\ sent'[c].params = s.params
  BY <1>3 DEF CallerInv, CallerTypes
<1>5. Follows(lock, <<>>)
  BY <1>2, LockFollows, FollowsNone
<1>6. Runs("outside", Word("SELECT"), "outside", <<>>)
  BY NoneType, RunsColumns DEF Word
<1>7. RunsOn("outside", base, params)
  <2>1. CASE k.op = "detailById"
    <3>1. RunsOn("outside", Word("SELECT") \o <<Where, Condition("id", TRUE)>>, <<>> \o <<"id">>)
      BY <1>6, RunsById
    <3>2. <<>> \o <<"id">> = <<"id">>
      BY NoneType, ConcatEmptySeq
    <3>3. base = Word("SELECT") \o <<Where, Condition("id", TRUE)>> /\ params = <<"id">>
      BY <1>2, <2>1
    <3>4. QED
      BY <3>1, <3>2, <3>3
  <2>2. CASE k.op # "detailById"
    <3>1. base = Word("SELECT") /\ params = <<>>
      BY <1>2, <2>2
    <3>2. QED
      BY <1>6, <3>1 DEF RunsOn, Open
  <2>3. QED
    BY <2>1, <2>2
<1>8. Follows(addOn.stmt, addOn.params)
  <2>1. SetToSeq(k.conds) \in SetToSeqs(k.conds)
    BY <1>1, SequenceMeetsAll
  <2>2. PICK conds : conds = SetToSeq(k.conds)
    OBVIOUS
  <2>3. conds \in Seq(CondRecord) /\ Matched(conds)
    BY <1>1, <2>1, <2>2, RegularIsMatched
  <2>4. Apt(WithConditions(NewRequest, conds, FALSE))
    BY <2>3, MatchedIsApt
  <2>5. Apt(req)
    BY <1>2, <2>2, <2>4, FieldsStayApt
  <2>6. Follows(Selected(req).stmt, Selected(req).params)
    BY <2>5, FieldsStayApt, AddOnFollows DEF Selected
  <2>7. Follows(NoAddOn.stmt, NoAddOn.params)
    BY FollowsNone DEF NoAddOn
  <2>8. QED
    BY <1>2, <2>6, <2>7
<1>9. RunsOn("outside", s.stmt, s.params)
  BY <1>2, <1>5, <1>7, <1>8, ReadRuns
<1>10. QED
  BY <1>4, <1>9, RunsOnFit, FitsOfParts

\* So is what an Upsert counts by, and it does not panic.
LEMMA CountFits ==
  ASSUME CallerInv, FitsInv, NEW c \in Caller, Count(c), Regular(call[c])
  PROVE  /\ result'[c] # "panic"
         /\ Fits(sent'[c])
<1>1. pc[c] = "reading" /\ call[c].op = "upsert"
  BY CountFacts
<1>2. PICK req, addOn, s :
        /\ req = request[held[c][1]]
        /\ addOn = Selected(req)
        /\ s = ReadStatement(Word("SELECT"), <<>>, addOn, <<>>)
  OBVIOUS
<1>3. Apt(req)
  BY <1>1, <1>2 DEF FitsInv, FitInv
<1>4. /\ sent' = [sent EXCEPT ![c] = [stmt |-> s.stmt, params |-> s.params,
                                      table |-> call[c].table, cols |-> <<>>]]
      /\ result' = [result EXCEPT ![c] = "error"] \/ result' = result
  <2>1. ~ InitiateWherePanics(req)
    BY <1>3, AptDoesNotPanic
  <2>2. QED
    BY <1>2, <2>1, Zenon DEF Count, Ends
<1>5. sent'[c].stmt = s.stmt /\ sent'[c].params = s.params
  BY <1>4 DEF CallerInv, CallerTypes
<1>6. Runs("outside", Word("SELECT"), "outside", <<>>)
  BY NoneType, RunsColumns DEF Word
<1>7. RunsOn("outside", Word("SELECT"), <<>>)
  BY <1>6 DEF RunsOn, Open
<1>8. Follows(addOn.stmt, addOn.params)
  BY <1>2, <1>3, FieldsStayApt, AddOnFollows DEF Selected
<1>9. RunsOn("outside", s.stmt, s.params)
  BY <1>2, <1>7, <1>8, FollowsNone, ReadRuns
<1>10. result'[c] # "panic"
  <2>1. result[c] # "panic" /\ DOMAIN result = Caller
    BY <1>1 DEF FitsInv, FitInv
  <2>2. QED
    BY <1>4, <2>1
<1>11. QED
  BY <1>5, <1>9, <1>10, RunsOnFit, FitsOfParts

\* And what a write sends.
LEMMA WriteIsRight ==
  ASSUME CallerInv, SharedInv, FitsInv, NEW c \in Caller, pc[c] = "writing", NEW order,
         Write(c, order), Regular(call[c])
  PROVE  /\ result'[c] # "panic"
         /\ sent'[c] # Nil => Fits(sent'[c])
<1>1. PICK k \in CallRecord, act \in Operations \cup {Nil} : k = call[c] /\ act = action[c]
  BY DEF CallerInv, CallerTypes, CallsInv
<1>2. /\ ActionOf(k, act)
      /\ act \in OnRequest => held[c] # <<>> /\ Apt(request[Last(held[c])])
  <2>1. k.op \in Operations
    BY DEF CallRecord
  <2>2. /\ act = k.op \/ (k.op = "upsert" /\ act \in {"update", "insert"})
        /\ act \notin Reads \cup {"upsert"}
    BY <1>1 DEF SharedInv, OwnInv
  <2>3. act \in OnRequest => held[c] # <<>>
    BY <1>1 DEF SharedInv, OwnInv
  <2>4. act \in OnRequest => Apt(request[Last(held[c])])
    BY <1>1 DEF FitsInv, FitInv
  <2>5. QED
    BY <2>1, <2>2, <2>3, <2>4 DEF ActionOf, Operations
<1>3. PICK d, req, selects, addOn, s, table :
        /\ d = Data(act, k, order)
        /\ req = request[Last(held[c])]
        /\ selects = (held[c] # <<>> /\ act \in {"update", "delete"})
        /\ addOn = IF selects THEN AddOn(req) ELSE NoAddOn
        /\ s = WriteStatement(act, d, SoftDelete, addOn)
        /\ table = IF act = "deleteById" /\ ~OnTrx(c) THEN Text(k).table ELSE k.table
  OBVIOUS
<1>4. selects => Apt(req)
  BY <1>2, <1>3 DEF OnRequest
<1>5. ~ ActionPanics(act, d) /\ ~ (selects /\ InitiateWherePanics(req))
  BY <1>1, <1>2, <1>3, <1>4, ActionRuns, AptDoesNotPanic
<1>6. Fits(s)
  <2>1. Follows(AddOn(req).stmt, AddOn(req).params) \/ ~ selects
    BY <1>4, AddOnFollows
  <2>2. Follows(NoAddOn.stmt, NoAddOn.params)
    BY FollowsNone DEF NoAddOn
  <2>3. Follows(addOn.stmt, addOn.params)
    BY <1>3, <2>1, <2>2
  <2>4. act = "insert" => addOn = NoAddOn
    BY <1>3
  <2>5. QED
    BY <1>1, <1>2, <1>3, <2>3, <2>4, WriteFits
<1>7. /\ \/ sent' = sent
         \/ sent' = [sent EXCEPT ![c] = [stmt |-> s.stmt, params |-> s.params,
                                         table |-> table, cols |-> <<>>]]
      /\ \E r \in {"ok", "error"} : result' = [result EXCEPT ![c] = r]
  BY <1>1, <1>3, <1>5, Zenon DEF Write, Ends
<1>8. sent[c] # Nil => Fits(sent[c])
  BY DEF FitsInv, FitInv
<1>9. sent'[c] # Nil => Fits(sent'[c])
  <2>1. CASE sent' = sent
    BY <1>8, <2>1
  <2>2. CASE sent' = [sent EXCEPT ![c] = [stmt |-> s.stmt, params |-> s.params,
                                          table |-> table, cols |-> <<>>]]
    <3>1. sent'[c].stmt = s.stmt /\ sent'[c].params = s.params
      BY <2>2 DEF CallerInv, CallerTypes
    <3>2. QED
      BY <1>6, <3>1, FitsOfParts
  <2>3. QED
    BY <1>7, <2>1, <2>2
<1>10. QED
  BY <1>7, <1>9 DEF FitsInv

\* A caller that is left alone, with its requests, is as right as it was.
LEMMA FitStays ==
  ASSUME CallerInv, NEW d \in Caller, OwnInv(d), FitInv(d),
         pc'[d] = pc[d], call'[d] = call[d], action'[d] = action[d],
         held'[d] = held[d], sent'[d] = sent[d], result'[d] = result[d],
         \A o \in ToSet(held[d]) : request'[o] = request[o]
  PROVE  FitInv(d)'
<1>1. PICK h \in Seq(Request) : h = held[d]
  BY DEF CallerInv, CallerTypes
<1>2. h # <<>> => h[1] \in ToSet(h) /\ Last(h) \in ToSet(h)
  <2>1. Len(h) \in Nat /\ DOMAIN h = 1 .. Len(h) /\ (h # <<>> => Len(h) > 0)
    BY LenProperties, EmptySeq
  <2>2. QED
    BY <2>1 DEF Last, ToSet
<1>3. held[d] # <<>> => /\ request'[held'[d][1]] = request[held[d][1]]
                        /\ request'[Last(held'[d])] = request[Last(held[d])]
  BY <1>1, <1>2
<1>4. /\ pc[d] = "reading" /\ call[d].op = "upsert" => held[d] # <<>>
      /\ pc[d] = "writing" /\ action[d] \in OnRequest => held[d] # <<>>
  BY DEF OwnInv
<1>5. QED
  BY <1>3, <1>4 DEF FitInv

\* The step of one caller: the others, and their requests, stay as they are.
LEMMA FitsAfter ==
  ASSUME CallerInv, SharedInv, FitsInv, NEW c \in Caller,
         \A d \in Caller : d # c =>
           /\ pc'[d] = pc[d] /\ call'[d] = call[d] /\ action'[d] = action[d]
           /\ held'[d] = held[d] /\ sent'[d] = sent[d]
           /\ \A o \in ToSet(held[d]) : request'[o] = request[o],
         result' = result \/ \E r : result' = [result EXCEPT ![c] = r], FitInv(c)'
  PROVE  FitsInv'
<1>1. DOMAIN result' = Caller /\ \A d \in Caller : d # c => result'[d] = result[d]
  BY DEF FitsInv
<1>2. ASSUME NEW d \in Caller, d # c
      PROVE  FitInv(d)'
  <2>1. OwnInv(d) /\ FitInv(d)
    BY DEF SharedInv, FitsInv
  <2>2. QED
    BY <1>1, <1>2, <2>1, FitStays
<1>3. QED
  BY <1>1, <1>2 DEF FitsInv

\* A request that is taken for a regular call is filled with its values.
LEMMA TakenIsApt ==
  ASSUME CallerInv, NEW c \in Caller, NEW k \in CallRecord, IsFiniteSet(k.conds),
         Regular(k), k.conds # {}, \A x \in k.conds : x.value \in {x.col, Nil},
         NEW conds \in SetToSeqs(k.conds), NEW o \in Request, NEW include, NEW req,
         Take(c, o, req),
         \/ req = WithConditions(Obtained(o), conds, include)
         \/ req = WithConditions(Obtained(o), Normal(conds), include)
  PROVE  /\ Apt(request'[Last(held'[c])])
         /\ held[c] = <<>> => Apt(request'[held'[c][1]])
<1>1. PICK r : r = Obtained(o)
  OBVIOUS
<1>2. r = NewRequest \/ \E p : r = Reset(p)
  BY <1>1 DEF Obtained
<1>3. /\ conds \in Seq(CondRecord) /\ Matched(conds) /\ conds # <<>>
      /\ Normal(conds) \in Seq(CondRecord) /\ Matched(Normal(conds)) /\ Normal(conds) # <<>>
  BY RegularIsMatched
<1>4. /\ Apt(WithConditions(r, conds, include))
      /\ Apt(WithConditions(r, Normal(conds), include))
  BY <1>2, <1>3, MatchedIsApt
<1>5. Apt(req)
  BY <1>1, <1>4
<1>6. QED
  BY <1>5, LastIsTaken

\* A call that begins has sent nothing, and its request is filled.
LEMMA BeginFits ==
  ASSUME CallerInv, SharedInv, FitsInv, NEW c \in Caller, Begin(c)
  PROVE  FitsInv'
<1>1. PICK k \in Calls[calls + 1] :
        /\ pc[c] = "idle" /\ calls < MaxCalls
        /\ call' = [call EXCEPT ![c] = k]
        /\ action' = [action EXCEPT ![c] = k.op]
        /\ IF k.op \in NeedsRequest
           THEN \E o \in Request : \E conds \in SetToSeqs(k.conds) :
                  Take(c, o, IF k.op = "upsert"
                             THEN WithConditions(Obtained(o), Normal(conds), FALSE)
                             ELSE WithConditions(Obtained(o), conds, TRUE))
           ELSE UNCHANGED <<request, pool, held>>
        /\ pc' = [pc EXCEPT ![c] = IF k.op \in Reads \cup {"upsert"}
                                   THEN "reading" ELSE "writing"]
        /\ UNCHANGED <<queries, sent, result>>
  BY Zenon DEF Begin, Goto
<1>2. k \in CallRecord /\ IsFiniteSet(k.conds)
  BY <1>1, CallsFacts DEF CallerInv, CallerTypes
<1>3. \A x \in k.conds : x.value \in {x.col, Nil}
  <2>1. MaxCalls \in Nat /\ DOMAIN Calls = 1 .. MaxCalls
    BY LenProperties, WritesAssumption DEF MaxCalls
  <2>2. calls + 1 \in DOMAIN Calls
    BY <1>1, <2>1 DEF CallerInv, CallerTypes
  <2>3. QED
    BY <2>2, WritesAssumption
<1>4. held[c] = <<>> /\ sent'[c] = Nil /\ result'[c] = "none"
  BY <1>1 DEF SharedInv, OwnInv, FitsInv, FitInv
<1>5. /\ call'[c] = k /\ action'[c] = k.op
      /\ pc'[c] = IF k.op \in Reads \cup {"upsert"} THEN "reading" ELSE "writing"
      /\ \A d \in Caller : d # c =>
           pc'[d] = pc[d] /\ call'[d] = call[d] /\ action'[d] = action[d] /\ sent'[d] = sent[d]
  BY <1>1 DEF CallerInv, CallerTypes, CallsInv
<1>6. result' = result
  BY <1>1
<1>7. CASE k.op \in NeedsRequest
  <2>1. PICK o \in Request, conds \in SetToSeqs(k.conds) :
          Take(c, o, IF k.op = "upsert"
                     THEN WithConditions(Obtained(o), Normal(conds), FALSE)
                     ELSE WithConditions(Obtained(o), conds, TRUE))
    BY <1>1, <1>7
  <2>2. PICK req : /\ Take(c, o, req)
                   /\ \/ req = WithConditions(Obtained(o), Normal(conds), FALSE)
                      \/ req = WithConditions(Obtained(o), conds, TRUE)
    BY <2>1
  <2>3. ASSUME Regular(k)
        PROVE  /\ Apt(request'[Last(held'[c])])
               /\ Apt(request'[held'[c][1]])
    <3>1. k.conds # {}
      BY <1>7, <2>3, Zenon DEF Regular, NeedsRequest
    <3>2. QED
      BY <1>2, <1>3, <1>4, <2>2, <2>3, <3>1, TakenIsApt
  <2>4. \A d \in Caller : d # c =>
          held'[d] = held[d] /\ \A p \in ToSet(held[d]) : request'[p] = request[p]
    BY <2>2, TakeLeavesOthers
  <2>5. FitInv(c)'
    BY <1>3, <1>4, <1>5, <2>3 DEF FitInv
  <2>6. QED
    BY <1>5, <1>6, <2>4, <2>5, FitsAfter
<1>8. CASE k.op \notin NeedsRequest
  <2>1. UNCHANGED <<request, held>>
    BY <1>1, <1>8
  <2>2. k.op \notin OnRequest \cup {"upsert"}
    BY <1>8 DEF NeedsRequest, OnRequest
  <2>3. FitInv(c)'
    BY <1>3, <1>4, <1>5, <2>2 DEF FitInv
  <2>4. QED
    BY <1>5, <1>6, <2>1, <2>3, FitsAfter
<1>9. QED
  BY <1>7, <1>8

\* A read that is regular has sent what is right.
LEMMA ReadStaysFit ==
  ASSUME CallerInv, SharedInv, FitsInv, NEW c \in Caller, ReadBy(c)
  PROVE  FitsInv'
<1>1. PICK k \in CallRecord : k = call[c]
  BY ReadFacts DEF CallerInv, CallsInv
<1>2. /\ pc[c] = "reading" /\ k.op \in Reads /\ UNCHANGED <<request, pool, action, held>>
      /\ \/ /\ k.op = "count" /\ pc' = pc
            /\ call' = [call EXCEPT ![c].set = @ \ {"Page"}]
         \/ pc' = [pc EXCEPT ![c] = "returning"] /\ call' = call
  BY <1>1, ReadFacts
<1>3. /\ \E x : sent' = [sent EXCEPT ![c] = x]
      /\ result' = result \/ \E r \in {"ok", "error"} : result' = [result EXCEPT ![c] = r]
  <2>1. \E x : sent' = [sent EXCEPT ![c] = x]
    BY <1>1, Zenon DEF ReadBy
  <2>2. result' = result \/ \E r \in {"ok", "error"} : result' = [result EXCEPT ![c] = r]
    BY <1>1, Zenon DEF ReadBy, Ends, Reported
  <2>3. QED
    BY <2>1, <2>2
<1>4. PICK j : j = call'[c]
  OBVIOUS
<1>5. \/ j = k /\ pc'[c] = "returning"
      \/ k.op = "count" /\ pc'[c] = "reading" /\ j = [k EXCEPT !.set = @ \ {"Page"}]
  BY <1>1, <1>2, <1>4 DEF CallerInv, CallerTypes, CallsInv
<1>6. j.op = k.op /\ j.conds = k.conds /\ (Regular(j) => Regular(k))
  <2>1. CASE j = k
    BY <2>1
  <2>2. CASE j = [k EXCEPT !.set = @ \ {"Page"}]
    <3>1. PICK set : set = k.set \ {"Page"}
      OBVIOUS
    <3>2. j = [k EXCEPT !.set = set]
      BY <2>2, <3>1
    <3>3. QED
      BY <3>2, PageIsRegular
  <2>3. QED
    BY <1>5, <2>1, <2>2
<1>7. Regular(j) => result'[c] # "panic" /\ Fits(sent'[c])
  <2>1. SUFFICES ASSUME Regular(k)
                 PROVE  result'[c] # "panic" /\ Fits(sent'[c])
    BY <1>6
  <2>2. Fits(sent'[c])
    BY <1>1, <2>1, ReadFits
  <2>3. result[c] # "panic" /\ DOMAIN result = Caller
    BY <1>1, <1>2, <2>1 DEF FitsInv, FitInv
  <2>4. QED
    BY <1>3, <2>2, <2>3
<1>8. \A x \in j.conds : x.value \in {x.col, Nil}
  BY <1>1, <1>2, <1>6 DEF FitsInv, FitInv
<1>9. FitInv(c)'
  BY <1>2, <1>4, <1>5, <1>6, <1>7, <1>8 DEF FitInv, Reads
<1>10. \A d \in Caller : d # c =>
         pc'[d] = pc[d] /\ call'[d] = call[d] /\ action'[d] = action[d] /\ sent'[d] = sent[d]
  BY <1>2, <1>3 DEF CallerInv, CallerTypes, CallsInv
<1>11. QED
  BY <1>2, <1>3, <1>9, <1>10, FitsAfter

\* An Upsert that has counted has filled the request of its update.
LEMMA CountStaysFit ==
  ASSUME CallerInv, SharedInv, FitsInv, NEW c \in Caller, Count(c)
  PROVE  FitsInv'
<1>1. PICK k \in CallRecord : k = call[c] /\ IsFiniteSet(k.conds)
                              /\ \A x \in k.conds : x.value \in {x.col, Nil}
  BY CountFacts DEF CallerInv, CallsInv, FitsInv, FitInv
<1>2. /\ pc[c] = "reading" /\ k.op = "upsert" /\ UNCHANGED <<queries, call>>
      /\ \/ /\ UNCHANGED <<request, held, action>>
            /\ pc' = [pc EXCEPT ![c] = "returning"]
         \/ /\ pc' = [pc EXCEPT ![c] = "writing"]
            /\ action' = [action EXCEPT ![c] = Decide(follower[call[c].table])]
            /\ \/ UNCHANGED <<request, held>> /\ action'[c] # "update"
               \/ \E o \in Request : \E conds \in SetToSeqs(k.conds) :
                    Take(c, o, WithConditions(Obtained(o), conds, TRUE))
  BY <1>1, CountFacts
<1>3. \A d \in Caller : d # c =>
        pc'[d] = pc[d] /\ call'[d] = call[d] /\ action'[d] = action[d] /\ sent'[d] = sent[d]
  BY <1>2, CountIsOwn DEF CallerInv, CallerTypes
<1>4. result' = result \/ \E r : result' = [result EXCEPT ![c] = r]
  BY Zenon DEF Count, Ends
<1>5. call'[c] = k
  BY <1>1, <1>2
<1>6. Regular(k) => result'[c] # "panic" /\ Fits(sent'[c])
  BY <1>1, CountFits
<1>7. CASE pc' = [pc EXCEPT ![c] = "returning"] /\ UNCHANGED <<request, held, action>>
  <2>1. pc'[c] = "returning"
    BY <1>7 DEF CallerInv, CallerTypes
  <2>2. FitInv(c)'
    BY <1>1, <1>5, <1>6, <2>1 DEF FitInv
  <2>3. QED
    BY <1>3, <1>4, <1>7, <2>2, FitsAfter
<1>8. CASE /\ pc' = [pc EXCEPT ![c] = "writing"]
           /\ action' = [action EXCEPT ![c] = Decide(follower[call[c].table])]
  <2>1. pc'[c] = "writing" /\ action'[c] \in {"update", "insert"}
    BY <1>8 DEF CallerInv, CallerTypes, Decide
  <2>2. CASE UNCHANGED <<request, held>> /\ action'[c] # "update"
    <3>1. FitInv(c)'
      BY <1>1, <1>5, <1>6, <2>1, <2>2 DEF FitInv, OnRequest
    <3>2. QED
      BY <1>3, <1>4, <2>2, <3>1, FitsAfter
  <2>3. CASE \E o \in Request : \E conds \in SetToSeqs(k.conds) :
               Take(c, o, WithConditions(Obtained(o), conds, TRUE))
    <3>1. PICK o \in Request, conds \in SetToSeqs(k.conds) :
            Take(c, o, WithConditions(Obtained(o), conds, TRUE))
      BY <2>3
    <3>2. PICK req : Take(c, o, req) /\ req = WithConditions(Obtained(o), conds, TRUE)
      BY <3>1
    <3>3. ASSUME Regular(k)
          PROVE  Apt(request'[Last(held'[c])])
      <4>1. k.conds # {}
        BY <1>2, <3>3, Zenon DEF Regular
      <4>2. QED
        BY <1>1, <3>2, <3>3, <4>1, TakenIsApt
    <3>4. \A d \in Caller : d # c =>
            held'[d] = held[d] /\ \A p \in ToSet(held[d]) : request'[p] = request[p]
      BY <3>2, TakeLeavesOthers
    <3>5. FitInv(c)'
      BY <1>1, <1>5, <1>6, <2>1, <3>3 DEF FitInv
    <3>6. QED
      BY <1>3, <1>4, <3>4, <3>5, FitsAfter
  <2>4. QED
    BY <1>2, <1>8, <2>1, <2>2, <2>3 DEF CallerInv, CallerTypes
<1>9. QED
  BY <1>2, <1>7, <1>8

\* A write ends with what it has sent.
LEMMA WriteStaysFit ==
  ASSUME CallerInv, SharedInv, FitsInv, NEW c \in Caller, pc[c] = "writing", NEW order,
         Write(c, order)
  PROVE  FitsInv'
<1>1. /\ UNCHANGED <<request, call, action, held>>
      /\ pc' = [pc EXCEPT ![c] = "returning"]
  BY WriteFacts
<1>2. pc'[c] = "returning"
  BY <1>1 DEF CallerInv, CallerTypes
<1>3. \A d \in Caller : d # c =>
        pc'[d] = pc[d] /\ call'[d] = call[d] /\ action'[d] = action[d] /\ sent'[d] = sent[d]
  BY <1>1, WriteIsOwn DEF CallerInv, CallerTypes
<1>4. \E r : result' = [result EXCEPT ![c] = r]
  BY Zenon DEF Write, Ends
<1>5. Regular(call[c]) => result'[c] # "panic" /\ (sent'[c] # Nil => Fits(sent'[c]))
  BY WriteIsRight
<1>6. \A x \in call[c].conds : x.value \in {x.col, Nil}
  BY DEF FitsInv, FitInv
<1>7. FitInv(c)'
  BY <1>1, <1>2, <1>5, <1>6 DEF FitInv
<1>8. QED
  BY <1>1, <1>3, <1>4, <1>7, FitsAfter

\* A call that returns leaves the requests of the others filled.
LEMMA ReturnStaysFit ==
  ASSUME CallerInv, SharedInv, FitsInv, NEW c \in Caller, Return(c)
  PROVE  FitsInv'
<1>1. /\ request' = [o \in Request |-> IF o \in ToSet(held[c]) THEN Reset(request[o])
                                                              ELSE request[o]]
      /\ held' = [held EXCEPT ![c] = <<>>] /\ pc' = [pc EXCEPT ![c] = "idle"]
      /\ call' = [call EXCEPT ![c] = Nil] /\ action' = [action EXCEPT ![c] = Nil]
      /\ sent' = [sent EXCEPT ![c] = Nil] /\ result' = [result EXCEPT ![c] = "none"]
  BY DEF Return, PutAll, Goto
<1>2. /\ pc'[c] = "idle" /\ result'[c] = "none"
      /\ \A d \in Caller : d # c =>
           /\ pc'[d] = pc[d] /\ call'[d] = call[d] /\ action'[d] = action[d]
           /\ held'[d] = held[d] /\ sent'[d] = sent[d]
  BY <1>1 DEF CallerInv, CallerTypes, CallsInv, FitsInv
<1>3. ASSUME NEW d \in Caller, d # c, NEW o \in ToSet(held[d])
      PROVE  request'[o] = request[o]
  <2>1. o \in Request
    <3>1. PICK h \in Seq(Request) : h = held[d]
      BY DEF CallerInv, CallerTypes
    <3>2. ToSet(h) \subseteq Request
      BY ElementOfSeq, LenProperties DEF ToSet
    <3>3. QED
      BY <3>1, <3>2
  <2>2. o \notin ToSet(held[c])
    BY <1>3 DEF SharedInv
  <2>3. QED
    BY <1>1, <2>1, <2>2
<1>4. FitInv(c)'
  BY <1>2 DEF FitInv
<1>5. QED
  BY <1>1, <1>2, <1>3, <1>4, FitsAfter

\* Every step leaves what regular calls sent, and will send, right.
LEMMA FitsStep ==
  ASSUME CallerInv, SharedInv, FitsInv, [Next]_vars
  PROVE  FitsInv'
<1>1. ASSUME UNCHANGED <<request, held, pc, call, action, sent, result>>
      PROVE  FitsInv'
  <2>1. \A d \in Caller : FitInv(d)'
    BY <1>1, FitStays DEF SharedInv, FitsInv
  <2>2. QED
    BY <1>1, <2>1 DEF FitsInv
<1>2. CASE \E c \in Caller : BeginTrx(c)
  BY <1>1, <1>2 DEF BeginTrx, shared
<1>3. CASE \E c \in Caller : FinishTrx(c)
  BY <1>1, <1>3 DEF FinishTrx, shared
<1>4. CASE Replicate
  BY <1>1, <1>4 DEF Replicate, shared
<1>5. CASE UNCHANGED vars
  BY <1>1, <1>5 DEF vars
<1>6. QED
  BY <1>2, <1>3, <1>4, <1>5, BeginFits, ReadStaysFit, CountStaysFit, WriteStaysFit,
     ReturnStaysFit DEF Next

\* The statement of a regular call is built without a panic, its placeholders
\* are its parameters in their order, WHERE, AND and RETURNING stand where they
\* may, whoever had its TableRequest before: for calls with any number of
\* fields, rows and conditions (SQL.Read, SQL.Write, GenerateAddOnQuery and the
\* readers of structs).
THEOREM RegularCallsAreBuilt == Spec => []RegularCallsFit
<1>1. FitsInv => RegularCallsFit
  BY DEF FitsInv, FitInv, RegularCallsFit
<1>2. Init => FitsInv
  BY DEF Init, FitsInv, FitInv
<1>3. QED
  BY <1>1, <1>2, CallerStarts, CallerStep, SharedStarts, SharedStep, FitsStep, PTL DEF Spec
=============================================================================
