-------------------------------- MODULE Writes --------------------------------
(***************************************************************************)
(* The repository layer (database/action/read.go and write.go) and the      *)
(* parts of database/sql.go it calls: callers that count, list, insert,     *)
(* update, upsert and delete, in a transaction or outside one, with         *)
(* TableRequests from a pool they share, query texts from caches they       *)
(* share, and a follower that lags behind the master.  One row per table is *)
(* of interest, the one every condition and every id is about; a table is   *)
(* the number of live rows that match it.                                   *)
(***************************************************************************)
EXTENDS QueryBuilder, FiniteSets

CONSTANTS
  Caller,
  Table,
  Request,     \* the TableRequests the pool can make
  Calls,       \* a sequence: the calls that may be made first, second, ...
  SoftDelete,  \* baseAction.isSoftDelete
  CanFail      \* whether the database may fail a statement

\* A call: its operation, table, row or rows, conditions, and the other fields
\* of its TableRequest that are set. A value is named by what it is the value
\* of: that of a condition, if it has one, by its column.
Operations == {"insert", "update", "updateById", "fixedUpdate", "upsertAction",
               "delete", "deleteById", "bulkInsert", "bulkUpdate", "upsert",
               "list", "detailById", "count"}
Struct == Seq([col : STRING, tag : STRING, type : STRING, state : STRING])
CallRecord ==
  [op : Operations, table : Table, row : Struct, rows : Seq(Struct),
   conds : SUBSET [col : STRING, holed : BOOLEAN, value : STRING \cup {Nil}],
   set : SUBSET STRING, included : SUBSET STRING, excluded : SUBSET STRING,
   lock : STRING]

ASSUME WritesAssumption ==
  /\ Cardinality(Request) >= 2 * Cardinality(Caller)
  /\ SoftDelete \in BOOLEAN /\ CanFail \in BOOLEAN
  /\ Calls \in Seq(SUBSET CallRecord)
  /\ \A i \in DOMAIN Calls : \A k \in Calls[i] :
       IsFiniteSet(k.conds) /\ \A x \in k.conds : x.value \in {x.col, Nil}
  /\ Nil \notin Seq([name : {"condition"}, holes : Seq(STRING)])

MaxCalls == Len(Calls)

VARIABLES
  \* what the process shares
  request,  \* the contents of each TableRequest
  pool,     \* tableRequestPool
  queries,  \* readQueryCache, selectByIdCache and deleteByIdCache
  \* the callers
  pc,       \* "idle", "reading", "writing" or "returning"
  call,     \* the call under way
  action,   \* the action of the write that follows
  held,     \* the TableRequests taken, the last one is that of the write
  sent,     \* the statement of the last step, Nil when it was not built
  result,   \* "none", "ok", "error" or "panic"
  trx,      \* whether the caller has a transaction
  failed,   \* whether a call in it did not succeed
  calls,    \* number of calls made
  \* the databases
  rows, follower,
  pending,  \* what each transaction did to each table
  raced     \* history: rows changed since an Upsert counted them, or the
            \* follower did not show them

shared == <<request, pool, queries>>
data == <<rows, follower, pending, raced>>
vars == <<request, pool, queries, pc, call, action, held, sent, result, trx,
          failed, calls, rows, follower, pending, raced>>

Reads == {"list", "detailById", "count"}
NeedsRequest == {"update", "delete", "upsert"}

Goto(c, l) == pc' = [pc EXCEPT ![c] = l]
Ends(c, r) == /\ result' = [result EXCEPT ![c] = r]
              /\ Goto(c, "returning")
              /\ failed' = [failed EXCEPT ![c] = @ \/ r # "ok"]
\* sendNilResponse: to find no rows is not an error.
Reported(e) == IF e = "no rows" THEN "ok" ELSE "error"
InUse == UNION {ToSet(held[c]) : c \in Caller}

-----------------------------------------------------------------------------
(* The pool                                                                 *)

\* Mutant: the request goes back before the statement is built.
TakeAndPut(c, o, req) ==
  /\ o \notin InUse \ pool
  /\ request' = [request EXCEPT ![o] = req]
  /\ pool' = pool \cup {o}
  /\ held' = [held EXCEPT ![c] = Append(@, o)]

\* GetTableRequest, an object of the pool or a new one, and what the caller
\* sets in it.
Take(c, o, req) ==
  /\ o \notin InUse
  /\ request' = [request EXCEPT ![o] = req]
  /\ pool' = pool \ {o}
  /\ held' = [held EXCEPT ![c] = Append(@, o)]

Obtained(o) == IF o \in pool THEN Reset(request[o]) ELSE NewRequest

\* PutTableRequest of all that a call has taken, which its defers do on every
\* path.
PutAll(c) ==
  /\ pool' = pool \cup ToSet(held[c])
  /\ request' = [o \in Request |-> IF o \in ToSet(held[c]) THEN Reset(request[o])
                                                          ELSE request[o]]
  /\ held' = [held EXCEPT ![c] = <<>>]

\* The conditions of a map, in the order it is ranged over, in a request;
\* `include' is IncludeDeleted.
WithConditions(req, conds, include) ==
  [SetWhereConditions(req, conds) EXCEPT
     !.set = IF include THEN {"IncludeDeleted"} ELSE {}]

\* Upsert: a condition without a placeholder gets one, if it has a value.
Normal(conds) ==
  [i \in DOMAIN conds |->
     [conds[i] EXCEPT !.holed = @ \/ conds[i].value # Nil]]

-----------------------------------------------------------------------------
(* The query texts, and the caches in front of them                         *)

SelectKey(k) == [kind |-> k.op, table |-> k.table, type |-> k.row,
                 included |-> k.included, excluded |-> k.excluded]
DeleteKey(k) == [kind |-> IF SoftDelete THEN "softDelete" ELSE "delete",
                 table |-> k.table, type |-> <<>>, included |-> {}, excluded |-> {}]

\* readQueryCacheKey with its column filters, and deleteByIdCacheKey
QueryKey(k) == IF k.op = "deleteById" THEN DeleteKey(k) ELSE SelectKey(k)

\* What getBaseQueryCached, getSelectByIdQueryCached and getDeleteByIdQuery
\* compute: a table, and the columns of a SELECT; <<>> is `*'.
QueryText(k) ==
  [table |-> k.table,
   cols |-> CASE k.op = "detailById" -> SelectCols(k.row, {}, {})
              [] k.op = "list" /\ k.included \cup k.excluded # {} ->
                   SelectCols(k.row, k.included, k.excluded)
              [] OTHER -> <<>>]

Cached(k) == {q \in queries : q.key = QueryKey(k)}
\* LoadOrStore
Text(k) == IF Cached(k) = {} THEN QueryText(k)
           ELSE (CHOOSE q \in Cached(k) : TRUE).text
Remember(k) ==
  queries' = queries \cup {[key |-> QueryKey(k), text |-> Text(k)]}

-----------------------------------------------------------------------------
(* The databases.  A statement whose placeholders and parameters differ in  *)
(* number or order is refused.                                              *)

\* Mutant: the fast path of DeleteById is taken in a transaction as well.
OnTrxUnlessFast(c) == trx[c] /\ call[c].op # "deleteById"

\* Whether a statement is executed in the caller's transaction.
OnTrx(c) == trx[c]

\* What a statement does to the rows of its table: it may remove those that
\* match, and adds some.
NoEffect == [cleared |-> FALSE, added |-> 0]
Effect(c) ==
  CASE action[c] = "insert" -> [NoEffect EXCEPT !.added = 1]
    [] action[c] = "bulkInsert" -> [NoEffect EXCEPT !.added = Len(call[c].rows)]
    [] action[c] \in {"delete", "deleteById"} -> [NoEffect EXCEPT !.cleared = TRUE]
    [] OTHER -> NoEffect
Apply(n, e) == (IF e.cleared THEN 0 ELSE n) + e.added
Then(e, f) == [cleared |-> e.cleared \/ f.cleared, added |-> Apply(e.added, f)]
\* What the caller's statements see on the master.
Visible(c) == [t \in Table |-> Apply(rows[t], pending[c][t])]

\* The rows of a table changed: every Upsert that counted them is outrun.
OutrunOthers(c) ==
  raced' = [d \in Caller |->
              raced[d] \/ (/\ d # c /\ pc[d] = "writing"
                           /\ rows'[call[d].table] # rows[call[d].table])]

-----------------------------------------------------------------------------
(* The calls                                                                *)

BulkRows(k) == [i \in DOMAIN k.rows |-> ReadField(k.rows[i])]

\* cudProcess and BulkUpdate: the columns and values of each action; order[i]
\* is the order of the conditions for row i of a BulkUpdate.
Data(act, k, order) ==
  LET plain(r) == [cols |-> r.cols, values |-> r.values, bulk |-> <<>>,
                   panics |-> FALSE]
      bulk(b) == [cols |-> <<>>, values |-> b.params, bulk |-> b.stmt,
                  panics |-> b.panics]
  IN CASE act = "insert" -> plain(ReadField(k.row))
       [] act = "update" -> plain(UpdateValues(k.row, <<>>))
       [] act = "updateById" -> plain(UpdateValues(k.row, <<"id">>))
       [] act = "fixedUpdate" -> plain(FixedUpdateValues(k.row, <<"id">>))
       [] act = "upsertAction" ->
            LET r == UpdateValues(k.row, <<>>)
            IN plain([r EXCEPT !.values = @ \o @])
       [] act = "delete" -> plain([cols |-> <<>>, values |-> <<>>])
       [] act = "deleteById" -> plain([cols |-> <<>>, values |-> <<"id">>])
       [] act = "bulkInsert" -> bulk(BulkInsert(BulkRows(k)))
       [] act = "bulkUpdate" -> bulk(BulkUpdate(BulkRows(k), order))

\* The orders in which BulkUpdate may range over its conditions.
Orders(k) ==
  IF k.op # "bulkUpdate" THEN {<<>>}
  ELSE [0 .. Len(k.rows) -> SetToSeqs({x.col : x \in k.conds})]

\* A caller begins a transaction ...
BeginTrx(c) ==
  /\ pc[c] = "idle" /\ ~trx[c] /\ calls < MaxCalls
  /\ trx' = [trx EXCEPT ![c] = TRUE]
  /\ UNCHANGED <<shared, pc, call, action, held, sent, result, failed, calls, data>>

\* ... and finishes it: Finish rolls back if it is given an error, and tells
\* nobody when the commit fails.
FinishTrx(c) ==
  /\ pc[c] = "idle" /\ trx[c]
  /\ trx' = [trx EXCEPT ![c] = FALSE]
  /\ failed' = [failed EXCEPT ![c] = FALSE]
  /\ pending' = [pending EXCEPT ![c] = [t \in Table |-> NoEffect]]
  /\ \/ ~failed[c] /\ rows' = Visible(c)
     \/ (failed[c] \/ CanFail) /\ UNCHANGED rows
  /\ OutrunOthers(c)
  /\ UNCHANGED <<shared, pc, call, action, held, sent, result, calls, follower>>

\* A call of the repository layer, up to its first statement.
Begin(c) ==
  /\ pc[c] = "idle" /\ calls < MaxCalls
  /\ calls' = calls + 1
  /\ \E k \in Calls[calls + 1] :
       /\ call' = [call EXCEPT ![c] = k]
       /\ action' = [action EXCEPT ![c] = k.op]
       /\ IF k.op \in NeedsRequest
          THEN \E o \in Request : \E conds \in SetToSeqs(k.conds) :
                 Take(c, o, IF k.op = "upsert"
                            THEN WithConditions(Obtained(o), Normal(conds), FALSE)
                            ELSE WithConditions(Obtained(o), conds, TRUE))
          ELSE UNCHANGED <<request, pool, held>>
       /\ Goto(c, IF k.op \in Reads \cup {"upsert"} THEN "reading" ELSE "writing")
  /\ UNCHANGED <<queries, sent, result, trx, failed, data>>

\* Read, called by GetList, GetDetailById and both halves of Count.
ReadBy(c) ==
  LET k == call[c]
      base == CASE k.op = "detailById" -> Word("SELECT")
                                            \o <<Where, Condition("id", TRUE)>>
                [] OTHER -> Word("SELECT")
      req == [WithConditions(NewRequest, SetToSeq(k.conds), FALSE)
                EXCEPT !.set = k.set]
      lock == IF OnTrx(c) THEN LockClause(k.lock) ELSE <<>>
      s == ReadStatement(base, IF k.op = "detailById" THEN <<"id">> ELSE <<>>,
                         IF k.op = "detailById" THEN NoAddOn ELSE Selected(req),
                         lock)
  IN /\ pc[c] = "reading" /\ k.op \in Reads
     /\ sent' = [sent EXCEPT ![c] = [stmt |-> s.stmt, params |-> s.params,
                                     table |-> Text(k).table, cols |-> Text(k).cols]]
     /\ IF k.op = "count" THEN UNCHANGED queries ELSE Remember(k)
     /\ \/ k.op = "count" /\ "Page" \in k.set
           /\ call' = [call EXCEPT ![c].set = @ \ {"Page"}]
           /\ UNCHANGED <<pc, result, failed>>
        \/ ~(k.op = "count" /\ "Page" \in k.set)
           /\ Ends(c, "ok") /\ UNCHANGED call
        \/ /\ CanFail /\ UNCHANGED call
           /\ \E e \in {"no rows", "failure"} : Ends(c, Reported(e))
     /\ UNCHANGED <<request, pool, action, held, trx, calls, data>>

\* Mutant: one row is not enough to update.
DecideLate(n) == IF n > 1 THEN "update" ELSE "insert"
\* Upsert: `if existingId > 0'
Decide(n) == IF n > 0 THEN "update" ELSE "insert"

\* Upsert counts, always outside of the transaction and on the follower ...
Count(c) ==
  LET k == call[c]
      req == request[held[c][1]]
      s == ReadStatement(Word("SELECT"), <<>>, Selected(req), <<>>)
  IN /\ pc[c] = "reading" /\ k.op = "upsert"
     /\ IF InitiateWherePanics(req)
        THEN /\ Ends(c, "panic")
             /\ UNCHANGED <<request, pool, held, action, sent, raced>>
        ELSE /\ sent' = [sent EXCEPT ![c] = [stmt |-> s.stmt, params |-> s.params,
                                             table |-> k.table, cols |-> <<>>]]
             /\ \/ /\ (CanFail \/ Holes(s.stmt) # s.params)
                   /\ Ends(c, "error")
                   /\ UNCHANGED <<request, pool, held, action, raced>>
                \/ /\ Holes(s.stmt) = s.params
                   /\ Goto(c, "writing")
                   /\ raced' = [raced EXCEPT ![c] = follower[k.table] # Visible(c)[k.table]]
                   /\ action' = [action EXCEPT ![c] = Decide(follower[k.table])]
                   \* ... and for the update fills a second request.
                   /\ IF action'[c] = "update"
                      THEN \E o \in Request : \E conds \in SetToSeqs(k.conds) :
                             Take(c, o, WithConditions(Obtained(o), conds, TRUE))
                      ELSE UNCHANGED <<request, pool, held>>
                   /\ UNCHANGED <<result, failed>>
     /\ UNCHANGED <<queries, call, trx, calls, rows, follower, pending>>

\* Write, or the fast path of DeleteById: the statement is built, and executed
\* by the transaction or on the master.
Write(c, order) ==
  LET k == call[c]
      act == action[c]
      d == Data(act, k, order)
      selects == held[c] # <<>> /\ act \in {"update", "delete"}
      req == request[Last(held[c])]
      s == WriteStatement(act, d, SoftDelete, IF selects THEN AddOn(req) ELSE NoAddOn)
      table == IF act = "deleteById" /\ ~OnTrx(c) THEN Text(k).table ELSE k.table
      nothing == Scanned(act) /\ act # "insert" /\ Visible(c)[k.table] = 0
  IN /\ IF act = "deleteById" /\ ~OnTrx(c) THEN Remember(k) ELSE UNCHANGED queries
     /\ IF act \in {"bulkInsert", "bulkUpdate"} /\ BulkError(BulkRows(k))
        THEN Ends(c, "error") /\ UNCHANGED <<sent, data>>
        ELSE IF ActionPanics(act, d) \/ (selects /\ InitiateWherePanics(req))
        THEN Ends(c, "panic") /\ UNCHANGED <<sent, data>>
        ELSE /\ sent' = [sent EXCEPT ![c] = [stmt |-> s.stmt, params |-> s.params,
                                             table |-> table, cols |-> <<>>]]
             /\ UNCHANGED follower
             /\ \/ /\ Holes(s.stmt) = s.params /\ ~nothing
                   /\ Ends(c, "ok")
                   /\ IF OnTrx(c)
                      THEN /\ pending' = [pending EXCEPT ![c][k.table] = Then(@, Effect(c))]
                           /\ UNCHANGED <<rows, raced>>
                      ELSE /\ rows' = [rows EXCEPT ![k.table] = Apply(@, Effect(c))]
                           /\ OutrunOthers(c)
                           /\ UNCHANGED pending
                \/ /\ CanFail \/ Holes(s.stmt) # s.params \/ nothing
                   /\ Ends(c, "error")
                   /\ UNCHANGED <<rows, pending, raced>>
     /\ UNCHANGED <<request, pool, call, action, held, trx, calls>>

\* The call returns, its defers run.
Return(c) ==
  /\ pc[c] = "returning"
  /\ PutAll(c)
  /\ Goto(c, "idle")
  /\ call' = [call EXCEPT ![c] = Nil]
  /\ action' = [action EXCEPT ![c] = Nil]
  /\ sent' = [sent EXCEPT ![c] = Nil]
  /\ result' = [result EXCEPT ![c] = "none"]
  /\ raced' = [raced EXCEPT ![c] = FALSE]
  /\ failed' = [failed EXCEPT ![c] = @ /\ trx[c]]
  /\ UNCHANGED <<queries, trx, calls, rows, follower, pending>>

\* The follower catches up.
Replicate ==
  /\ follower # rows
  /\ follower' = rows
  /\ UNCHANGED <<shared, pc, call, action, held, sent, result, trx, failed, calls,
                 rows, pending, raced>>

Init ==
  /\ request = [o \in Request |-> NewRequest]
  /\ pool = {}
  /\ queries = {}
  /\ pc = [c \in Caller |-> "idle"]
  /\ call = [c \in Caller |-> Nil]
  /\ action = [c \in Caller |-> Nil]
  /\ held = [c \in Caller |-> <<>>]
  /\ sent = [c \in Caller |-> Nil]
  /\ result = [c \in Caller |-> "none"]
  /\ trx = [c \in Caller |-> FALSE]
  /\ failed = [c \in Caller |-> FALSE]
  /\ calls = 0
  /\ rows = [t \in Table |-> 0]
  /\ follower = rows
  /\ pending = [c \in Caller |-> [t \in Table |-> NoEffect]]
  /\ raced = [c \in Caller |-> FALSE]

Next ==
  \/ \E c \in Caller : \/ BeginTrx(c) \/ FinishTrx(c)
                       \/ Begin(c) \/ ReadBy(c) \/ Count(c) \/ Return(c)
                       \/ /\ pc[c] = "writing"
                          /\ \E order \in Orders(call[c]) : Write(c, order)
  \/ Replicate

Spec == Init /\ [][Next]_vars

-----------------------------------------------------------------------------
(* Properties                                                               *)

\* The calls the builder is made for: rows with the same columns, at least one
\* of them, a condition at least where there are any, each with a placeholder
\* if it has a value, and no BulkUpdate.
Regular(k) ==
  /\ k.op # "bulkUpdate"
  /\ k.op \in {"update", "delete", "upsert"} => k.conds # {}
  /\ \A x \in k.conds : x.holed <=> x.value # Nil
  /\ k.op \in {"insert", "upsert"} => ReadField(k.row).cols # <<>>
  /\ k.op = "upsertAction" => UpdateValues(k.row, <<>>).cols # <<>>
  /\ k.op = "bulkInsert" => \A i \in DOMAIN k.rows :
       BulkRows(k)[i].cols = BulkRows(k)[1].cols /\ BulkRows(k)[i].cols # <<>>

\* The statement of a regular call is built, whoever used its TableRequest
\* before, and every placeholder gets its value (SQL.Read, SQL.Write,
\* GenerateAddOnQuery and the readers of structs together).
RegularCallsFit ==
  \A c \in Caller :
    pc[c] # "idle" /\ Regular(call[c]) =>
      /\ result[c] # "panic"
      /\ sent[c] # Nil => Fits(sent[c])

\* A statement is about the table, the columns and the conditions of its own
\* call, although the requests and the query texts are shared.
StatementIsOwn ==
  \A c \in Caller :
    sent[c] # Nil =>
      LET conditions == {i \in DOMAIN sent[c].stmt :
                           sent[c].stmt[i].name = "condition"}
          asked == IF call[c].op \in ById \cup {"deleteById", "detailById"}
                   THEN {"id"}
                   ELSE {x.col : x \in {y \in call[c].conds : y.value # Nil}}
          ofInsert == {"insert", "bulkInsert", "bulkUpdate", "upsertAction"}
      IN /\ sent[c].table = call[c].table
         /\ call[c].op \in {"list", "detailById"} =>
              sent[c].cols = QueryText(call[c]).cols
         /\ action[c] \notin ofInsert /\ Regular(call[c]) =>
              UNION {ToSet(sent[c].stmt[i].holes) : i \in conditions} = asked

\* Nothing a caller does in a transaction is seen before it is committed, on
\* none of the paths of Write and DeleteById.
NothingBeforeCommit ==
  [][rows' # rows => \E c \in Caller :
                       \/ pc[c] = "writing" /\ ~trx[c]
                       \/ trx[c] /\ ~trx'[c] /\ ~failed[c]]_vars

\* An Upsert inserts a row that is there, or updates one that is not, only
\* when the row changed after it was counted or the follower, which does not
\* see the caller's transaction, showed another number.
UpsertErrsOnlyByRace ==
  \A c \in Caller :
    pc[c] = "writing" /\ call[c].op = "upsert" /\ ~raced[c] =>
      (action[c] = "insert" <=> Visible(c)[call[c].table] = 0)

\* A call with a TableRequest, Delete, Update or Upsert, never brings the
\* process down: the pool's requests are "safe to reuse" (database/pool.go).
NoCallPanics == \A c \in Caller : result[c] # "panic"
=============================================================================
