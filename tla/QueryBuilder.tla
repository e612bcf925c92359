---------------------------- MODULE QueryBuilder ----------------------------
(***************************************************************************)
(* How a call becomes a SQL statement and its parameters: the readers of   *)
(* structs in helper/struct.go and helper/struct_cache.go, and the builders *)
(* in database/sql.go.  A statement is a sequence of clauses; a clause has  *)
(* a name and, for each of its placeholders, the name of the value that     *)
(* belongs there.  A parameter is the name of what it is the value of.  So  *)
(* a statement is right when its placeholders, from left to right, are its  *)
(* parameters.                                                              *)
(***************************************************************************)
EXTENDS Naturals, SequencesExt

CONSTANTS Engine, \* "mysql", "postgres" or another name
          Nil

Clause(name, holes) == [name |-> name, holes |-> holes]
Word(name) == <<Clause(name, <<>>)>>
And == Clause("AND", <<>>)
Where == Clause("WHERE", <<>>)

Holes(stmt) == FlattenSeq([i \in DOMAIN stmt |-> stmt[i].holes])

-----------------------------------------------------------------------------
(* Reading a struct: the sequence of its fields, those of embedded structs  *)
(* in their place.  A field has a column, a `col' tag, a type and a state:  *)
(* "empty" is a nil pointer, an empty string, an id of zero or a null type  *)
(* that is not Valid.                                                       *)

\* getStructTypeInfo: how a field is treated.
Kind(f) == IF f.col = "-" THEN "skipped"
           ELSE IF f.tag \in {"pk", "json"} THEN f.tag
           ELSE IF f.col = "id" THEN "id"
           ELSE f.type

\* The columns of the fields that are taken.
Columns(struct, Taken(_)) ==
  FlattenSeq([i \in DOMAIN struct |-> IF Taken(struct[i]) THEN <<struct[i].col>>
                                                         ELSE <<>>])
Given(f) == f.state # "empty"

\* readField, one field: the columns and the values it contributes.  A null
\* type is read as a struct, which forgets its value when Valid is false.
ReadOne(f) ==
  LET present == CASE Kind(f) \in {"skipped", "pk"} -> FALSE
                   [] Kind(f) \in {"id", "string", "pointer", "null", "otherNull"} -> Given(f)
                   [] OTHER -> TRUE
  IN [cols |-> IF present THEN <<f.col>> ELSE <<>>,
      values |-> IF present THEN <<f.col>> ELSE <<>>]

\* ConstructColNameAndValue
ReadField(struct) ==
  LET read == [i \in DOMAIN struct |-> ReadOne(struct[i])]
  IN [cols |-> FlattenSeq([i \in DOMAIN read |-> read[i].cols]),
      values |-> FlattenSeq([i \in DOMAIN read |-> read[i].values])]

\* computeUpdateTemplate: the columns an UPDATE may set.
Updatable(f) ==
  /\ Kind(f) \notin {"skipped", "pk", "id", "map"}
  /\ f.col # "created_at"

UpdateTemplate(struct) == Columns(struct, Updatable)
HaveUpdatedAt(struct) == "updated_at" \in ToSet(UpdateTemplate(struct))

\* ExtractUpdateValues: what is empty (of the null types, seven) is left out, updated_at is added to a
\* struct that has no such field, and then the values of the condition.
UpdateValues(struct, another) ==
  LET given == Columns(struct, LAMBDA f :
                 /\ Updatable(f)
                 /\ Kind(f) \in {"string", "pointer", "null"} => Given(f))
      stamp == IF HaveUpdatedAt(struct) THEN <<>> ELSE <<"updated_at">>
  IN [cols |-> given \o stamp, values |-> given \o stamp \o another]

\* ExtractFixedUpdateValues: every column of the template, NULL when empty.
FixedUpdateValues(struct, another) ==
  LET all == UpdateTemplate(struct)
      stamp == IF HaveUpdatedAt(struct) THEN <<>> ELSE <<"updated_at">>
  IN [cols |-> all \o stamp, values |-> all \o stamp \o another]

\* GenerateSelectCols and populateColumns: a filter names the columns to take
\* or to leave; with both filters there are none, which is read as `*'.
SelectCols(struct, included, excluded) ==
  LET taken(f) == /\ Kind(f) # "skipped"
                  /\ included # {} => f.col \in included
                  /\ excluded # {} => f.col \notin excluded
  IN IF included # {} /\ excluded # {} THEN <<>>
     ELSE Columns(struct, taken)

-----------------------------------------------------------------------------
(* Several rows in one statement; value x of row i is <<i, x>>.             *)

Tagged(i, seq) == [j \in DOMAIN seq |-> <<i, seq[j]>>]
Occurs(col, rows) ==
  Len(SelectSeq(FlattenSeq([i \in DOMAIN rows |-> rows[i].cols]),
                LAMBDA c : c = col))

\* The checks of ConstructColNameAndValueBulk: no row is longer than those
\* before it, once one has columns, and every column has as many values.
BulkError(rows) ==
  LET all == UNION {ToSet(rows[i].cols) : i \in DOMAIN rows}
      longest(i) == {Len(rows[j].cols) : j \in 1 .. i}
      grows == {i \in DOMAIN rows : \A n \in longest(i - 1) \cup {0} :
                                      Len(rows[i].cols) > n}
  IN \/ Cardinality(grows) > 1
     \/ \E x, y \in all : Occurs(x, rows) # Occurs(y, rows)

\* The columns of the first row that has any.
Header(rows) ==
  LET filled == {i \in DOMAIN rows : rows[i].cols # <<>>}
  IN IF filled = {} THEN <<>>
     ELSE rows[CHOOSE i \in filled : \A j \in filled : i <= j].cols

\* generateBulk for an INSERT: a group of placeholders for every row, each as
\* long as the values of the row.
BulkInsert(rows) ==
  LET head == Header(rows)
      group(i) == [j \in DOMAIN rows[i].values |->
                     <<i, IF j \in DOMAIN head THEN head[j] ELSE Nil>>]
  IN [stmt |-> Word("INSERT")
                 \o [i \in DOMAIN rows |-> Clause("VALUES", group(i))],
      params |-> FlattenSeq([i \in DOMAIN rows |-> Tagged(i, rows[i].values)]),
      panics |-> \E i \in DOMAIN rows : rows[i].values = <<>>]

\* generateBulk for an UPDATE: a SELECT that names the columns, and one more
\* for every row; order[i] is the order in which the conditions of row i were
\* read from their map, order[0] that of the first SELECT.
BulkUpdate(rows, order) ==
  LET named == Header(rows) \o order[0]
      valuesOf(i) == Tagged(i, rows[i].values \o order[i])
  IN [stmt |-> Word("UPDATE JOIN")
                 \o <<Clause("SELECT", Tagged(1, named))>>
                 \o [i \in DOMAIN rows |->
                       Clause("UNION ALL SELECT", Tagged(i, named))]
                 \o Word("SET"),
      params |-> FlattenSeq([i \in DOMAIN rows |-> valuesOf(i)]),
      panics |-> \E i \in DOMAIN rows : rows[i].values \o order[i] = <<>>]

-----------------------------------------------------------------------------
(* A TableRequest: its conditions, Nil or a sequence, their values, and the *)
(* other fields that are set.                                               *)

NewRequest == [where |-> Nil, values |-> <<>>, set |-> {}, engine |-> ""]

\* A condition has a column, a text with or without a placeholder, and a
\* value or none.
Condition(col, holed) == Clause("condition", IF holed THEN <<col>> ELSE <<>>)

\* SetWhereCondition for each of a sequence of conditions: none leaves a
\* request without conditions as it is.
SetWhereConditions(req, conds) ==
  LET clauses == [i \in DOMAIN conds |-> Condition(conds[i].col, conds[i].holed)]
      given == FlattenSeq([i \in DOMAIN conds |->
                 IF conds[i].value = Nil THEN <<>> ELSE <<conds[i].value>>])
  IN [req EXCEPT !.where = IF conds = <<>> THEN @
                           ELSE (IF @ = Nil THEN <<>> ELSE @) \o clauses,
                 !.values = @ \o given]

\* Mutant: the values of the conditions stay.
ResetKeepsValues(req) ==
  [where |-> IF req.where = Nil THEN Nil ELSE <<>>, values |-> req.values,
   set |-> {}, engine |-> ""]

\* TableRequest.reset: a slice of no conditions is not a nil slice.
Reset(req) ==
  [where |-> IF req.where = Nil THEN Nil ELSE <<>>, values |-> <<>>,
   set |-> {}, engine |-> ""]

SearchCols == <<"name", "email">>

\* The text built so far, its parameters, and one more condition.
AndIf(b) == IF b.text = <<>> THEN <<>> ELSE <<And>>
Conjoin(b, name, holes) ==
  [text |-> b.text \o AndIf(b) \o <<Clause(name, holes)>>,
   params |-> b.params \o holes]
If(set, field, with, without) == IF field \in set THEN with ELSE without

\* checkInitiateWhere; `initWhere[:len(initWhere)-5]' panics when there is no
\* condition to cut the last " AND " from.
InitiateWherePanics(req) == req.where = <<>>
CheckInitiateWhere(req) ==
  LET n == IF req.where = Nil THEN 0 ELSE Len(req.where)
  IN [text |-> [i \in 1 .. 2 * n - 1 |-> IF i % 2 = 0 THEN And
                                         ELSE req.where[(i + 1) \div 2]],
      params |-> req.values]

\* checkKeyword
CheckKeyword(req, b) ==
  LET like == [i \in DOMAIN SearchCols |-> "keyword"]
      joint == IF req.where # Nil THEN <<And>> ELSE <<>>
  IN If(req.set, "Keyword",
        [text |-> b.text \o joint \o <<Clause("LIKE", like)>>,
         params |-> b.params \o like], b)

\* checkCreatedDateParam
CheckCreatedDateParam(req, b) ==
  LET start == If(req.set, "CreatedStart",
                  Conjoin(b, "created_at >=", <<"CreatedStart">>), b)
      end == If(req.set, "CreatedEnd",
                Conjoin(start, "created_at <=", <<"CreatedEnd">>), start)
  IN IF req.set \cap {"NotContainsDeletedCol", "IncludeDeleted"} # {} THEN end
     ELSE Conjoin(end, If(req.set, "IsDeleted", "deleted_at IS NOT NULL",
                                                "deleted_at IS NULL"), <<>>)

\* The page, in the order of the engine; another engine gets a warning only.
Paging(req) ==
  IF "Page" \notin req.set THEN <<>>
  ELSE CASE req.engine = "postgres" -> <<Clause("LIMIT OFFSET", <<"Limit", "Offset">>)>>
         [] req.engine = "mysql" -> <<Clause("LIMIT", <<"Offset", "Limit">>)>>
         [] OTHER -> <<>>
PagingParams(req) ==
  IF "Page" \notin req.set THEN <<>>
  ELSE CASE req.engine = "postgres" -> <<"Limit", "Offset">>
         [] req.engine = "mysql" -> <<"Offset", "Limit">>
         [] OTHER -> <<>>

\* GenerateAddOnQuery
AddOn(req) ==
  LET b == CheckCreatedDateParam(req, CheckKeyword(req, CheckInitiateWhere(req)))
  IN [stmt |-> (IF b.text = <<>> THEN <<>> ELSE <<Where>> \o b.text)
                 \o If(req.set, "GroupBy", Word("GROUP BY"), <<>>)
                 \o If(req.set, "OrderBy", Word("ORDER BY"), <<>>)
                 \o Paging(req),
      params |-> b.params \o PagingParams(req)]

-----------------------------------------------------------------------------
(* The statements                                                           *)

IsPostgres == Engine = "postgres"
Returning == IF IsPostgres THEN Word("RETURNING id") ELSE <<>>
\* An UPDATE by id, with the columns that are given or with all of them.
ById == {"updateById", "fixedUpdate"}
\* The actions whose statement Postgres answers with an id.
Scanned(action) ==
  IsPostgres /\ action \in ById \cup {"insert", "update"}

\* The text for each action of SQL.Write, up to the conditions; n columns
\* have n placeholders, and strings.Repeat panics when there are none.
ActionText(action, data, soft) ==
  CASE action = "insert" -> <<Clause("INSERT", data.cols)>> \o Returning
    [] action = "upsertAction" -> <<Clause("INSERT", data.cols),
                                    Clause("ON DUPLICATE KEY UPDATE", data.cols)>>
    [] action \in {"bulkInsert", "bulkUpdate"} -> data.bulk
    [] action \in ById -> <<Clause("UPDATE", data.cols), Where,
                                  Condition("id", TRUE)>>
    [] action = "update" -> <<Clause("UPDATE", data.cols)>>
    [] action = "delete" -> Word(IF soft THEN "UPDATE deleted_at" ELSE "DELETE")
    [] action = "deleteById" ->
         Word(IF soft THEN "UPDATE deleted_at" ELSE "DELETE")
           \o <<Where, Condition("id", TRUE)>>

ActionPanics(action, data) ==
  \/ action \in {"insert", "upsertAction"} /\ data.cols = <<>>
  \/ data.panics

\* What is added without a TableRequest, and for one that SQL.Read is given,
\* after it got the engine.
NoAddOn == [stmt |-> <<>>, params |-> <<>>]
Selected(req) == AddOn([req EXCEPT !.engine = Engine])

\* SQL.Write: the action, its conditions, and RETURNING where it is not part
\* of the action.
WriteStatement(action, data, soft, addOn) ==
  [stmt |-> ActionText(action, data, soft) \o addOn.stmt
              \o (IF action \in ById \cup {"update"} THEN Returning ELSE <<>>),
   params |-> data.values \o addOn.params]

\* SQL.Read: the base query with the parameters of the caller, the request,
\* and in a transaction the lock.
ReadStatement(base, params, addOn, lock) ==
  [stmt |-> base \o addOn.stmt \o lock, params |-> params \o addOn.params]

LockClause(locking) ==
  CASE locking = "share" -> Word(IF Engine = "mysql" THEN "LOCK IN SHARE MODE"
                                                    ELSE "FOR SHARE")
    [] locking = "update" -> Word("FOR UPDATE")
    [] OTHER -> <<>>

-----------------------------------------------------------------------------
(* What a statement has to be                                               *)

Conditions == {"condition", "LIKE", "created_at >=", "created_at <=",
               "deleted_at IS NULL", "deleted_at IS NOT NULL"}
IsCondition(c) == c.name \in Conditions

\* Every placeholder has its value; WHERE opens the conditions, AND stands
\* between two of them, and RETURNING is last.
Fits(s) ==
  LET name(i) == s.stmt[i].name
      cond(i) == i \in DOMAIN s.stmt /\ IsCondition(s.stmt[i])
  IN /\ Holes(s.stmt) = s.params
     /\ \A i \in DOMAIN s.stmt :
          /\ cond(i) => i > 1 /\ name(i - 1) \in {"WHERE", "AND"}
          /\ name(i) \in {"WHERE", "AND"} => cond(i + 1)
          /\ name(i) = "AND" => cond(i - 1)
          /\ name(i) = "RETURNING id" => i = Len(s.stmt)
=============================================================================
