------------------------------ MODULE MCSSEHub ------------------------------
(* Instances of SSEHub for TLC.  Shared is a peer that reconnects with the *)
(* same X-Client-ID while its old connection is still being served.        *)
EXTENDS SSEHub, TLC

CONSTANTS c1, c2, x, y, m1, m2

Conns == {c1, c2}
OneID == {x}
TwoIDs == {x, y}
Shared == [c \in Conns |-> x]
Distinct == (c1 :> x) @@ (c2 :> y)
NoMsg == {}
OneMsg == {m1}
TwoMsg == {m1, m2}

\* Swapping the connections together with their IDs, and the messages.
Alike == {(c1 :> c2) @@ (c2 :> c1) @@ (x :> y) @@ (y :> x)}
           \cup Permutations(TwoMsg)
=============================================================================
