------------------------------- MODULE MCWrites -------------------------------
(* Instances of Writes for TLC. *)
EXTENDS Writes

CONSTANTS c1, c2, users, orders, o1, o2, o3, o4

TwoCallers == {c1, c2}
OneCaller == {c1}
OneTable == {users}
TwoTables == {users, orders}
FourRequests == {o1, o2, o3, o4}
TwoRequests == {o1, o2}
Alike == Permutations(Request) \cup Permutations(Caller)

Field(col, type, state) ==
  [col |-> col, tag |-> IF type = "pk" THEN "pk" ELSE "", type |-> type,
   state |-> state]
User == << Field("id", "plain", "empty"), Field("name", "string", "set"),
           Field("email", "null", "set"), Field("age", "plain", "set"),
           Field("updated_at", "null", "empty") >>
Nameless == << Field("key", "pk", "set"), Field("name", "string", "empty"),
               Field("email", "pointer", "set"), Field("age", "null", "empty"),
               Field("-", "string", "set"), Field("tags", "map", "set"),
               Field("created_at", "string", "set") >>
Blank == << Field("id", "plain", "empty"), Field("name", "string", "empty") >>

Cond(col, holed, value) == [col |-> col, holed |-> holed, value |-> value]
ByKey == {Cond("key", TRUE, "key")}
ByStatus == {Cond("status", TRUE, "status"), Cond("closed_at", FALSE, Nil)}
ByBareKey == {Cond("key", FALSE, "key")}

Call(op, table, row, conds) ==
  [op |-> op, table |-> table, row |-> row, rows |-> <<row>>, conds |-> conds,
   set |-> {}, included |-> {}, excluded |-> {}, lock |-> ""]

\* Every operation, on one table or the other.
AllCalls ==
  { Call("insert", users, User, {}), Call("updateById", users, Nameless, {}),
    Call("update", users, Nameless, ByKey), Call("delete", users, User, ByStatus),
    Call("deleteById", users, User, {}), Call("upsert", users, User, ByKey),
    [Call("bulkInsert", orders, User, {}) EXCEPT !.rows = <<User, User>>],
    [Call("list", orders, User, {}) EXCEPT !.included = {"name"}, !.lock = "share"],
    [Call("list", orders, User, ByStatus) EXCEPT
       !.set = {"Keyword", "CreatedStart", "CreatedEnd", "OrderBy", "Page"}] }

\* Those that share nothing, or that the builder is not made for.
OtherCalls ==
  { Call("delete", users, User, {}), Call("upsert", orders, Nameless, ByBareKey),
    Call("upsertAction", users, User, {}), Call("fixedUpdate", users, User, {}),
    [Call("bulkInsert", orders, User, {}) EXCEPT !.rows = <<User, Blank>>],
    [Call("bulkUpdate", orders, User, ByStatus) EXCEPT !.rows = <<User, User>>],
    Call("detailById", orders, User, {}),
    [Call("count", orders, User, ByKey) EXCEPT !.set = {"Page", "IsDeleted"}] }

ThreeCalls == <<AllCalls \cup OtherCalls, AllCalls,
                AllCalls \cup {Call("delete", users, User, {})}>>

\* Updates and deletes whose conditions may be none.
Conditional ==
  { Call("update", users, Nameless, ByKey), Call("delete", users, User, {}),
    Call("insert", users, User, {}), Call("upsert", users, User, ByKey) }
TwoConditional == <<Conditional, Conditional>>
=============================================================================
