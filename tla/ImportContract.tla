---------------------------- MODULE ImportContract ----------------------------
(***************************************************************************)
(* What an import promises to its caller: every row it takes from the file *)
(* is settled once, and the result it returns, if it returns one, names    *)
(* all of them, as failed exactly when their changes were undone.  A row   *)
(* whose commit fails is lost: it is reported as a success.                *)
(***************************************************************************)
CONSTANTS Row, Nil

VARIABLES
  fate,   \* what has become of each row
  result  \* what the caller got, or Nil

vars == <<fate, result>>

Are(f) == {r \in Row : fate[r] = f}

Take(r) ==
  /\ fate[r] = "unread"
  /\ fate' = [fate EXCEPT ![r] = "taken"]
  /\ UNCHANGED result

Settle(r) ==
  /\ fate[r] = "taken"
  /\ \E f \in {"kept", "undone", "lost"} : fate' = [fate EXCEPT ![r] = f]
  /\ UNCHANGED result

Return ==
  /\ result = Nil
  /\ Are("taken") = {}
  /\ result' = [success |-> Are("kept") \cup Are("lost"),
                failed |-> Are("undone")]
  /\ UNCHANGED fate

Init ==
  /\ fate = [r \in Row |-> "unread"]
  /\ result = Nil

Next == \/ Return
        \/ result = Nil /\ \E r \in Row : Take(r) \/ Settle(r)

Spec == Init /\ [][Next]_vars
=============================================================================
