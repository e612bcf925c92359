----------------------------- MODULE MCStmtCache -----------------------------
(* An instance of StmtCache for TLC: three calls of one query. *)
EXTENDS StmtCache, TLC

CONSTANTS c1, c2, c3, q1, s1, s2, s3

ThreeCallers == {c1, c2, c3}
OneQuery == {q1}
ThreeStmts == {s1, s2, s3}
Same == [c \in Caller |-> q1]
Nobody == {}
AlikeStmts == Permutations(Stmt)
=============================================================================
