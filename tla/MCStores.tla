------------------------------ MODULE MCStores ------------------------------
(* An instance of Stores for TLC. *)
EXTENDS Stores, TLC

CONSTANTS p1, p2, p3, s1, s2, s3, s4, c1, c2, c3, c4, q1, q2, plain, hash, field, other

ThreeProcs == {p1, p2, p3}
ThreeKeys == {s1, s2, s3}
FourStmts == {s1, s2, s3, s4}
OneValue == {s4}
FourCallers == {c1, c2, c3, c4}
TwoQueries == {q1, q2}

\* Goroutines are alike, and so are keys, and three of the statements.
Alike == Permutations(ThreeProcs) \cup Permutations(ThreeKeys)

\* Four calls, one of them of another query and on the master.
Queries == [x \in FourCallers |-> IF x = c1 THEN q2 ELSE q1]
OnlyTheFirst == {c1}

\* Three calls of any operation on a plain key or a field of a hash, and a
\* pool of two connections.
AllAsks ==
  [op : {"get", "del", "set"}, target : {plain}]
    \cup [op : {"get", "del"}, target : {field, other}]
    \cup [op : {"hdel", "hset", "hsetbulk"}, target : {field}]
Targets == {plain, field, other}
Keys == {plain, hash}
TheHash == {hash}
KeyOfTarget == (plain :> plain) @@ (field :> hash) @@ (other :> hash)
OwnFlight == [t \in Targets |-> t]
=============================================================================
