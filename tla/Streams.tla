------------------------------- MODULE Streams -------------------------------
(***************************************************************************)
(* SubscribeStream of cache/redis.go: it reads a Redis stream from its     *)
(* beginning, hands every message to a function, and goes on after the     *)
(* last one for which the function succeeded.  A reply holds all messages  *)
(* after that one.  Redis is external, and so are the publishers;          *)
(* trimming is left out.                                                   *)
(***************************************************************************)
EXTENDS Naturals

CONSTANTS
  MaxID,     \* bound on the messages that are published
  MaxFailed  \* the failures in a row that are tolerated (10)

VARIABLES
  published, \* the stream holds the messages 1 .. published
  pc,        \* the subscriber: "looping", "reading", "acting" or "stopped"
  lastID,
  at, upto,  \* the messages of the last reply it has yet to handle
  failedCounter,
  cancelled, \* its context is done
  tried,     \* history: messages the function was called with, or unreadable
  acted      \* history: messages for which it succeeded

batch == <<at, upto>>
history == <<tried, acted>>
vars == <<published, pc, lastID, batch, failedCounter, cancelled, history>>

Publish ==
  /\ published < MaxID
  /\ published' = published + 1
  /\ UNCHANGED <<pc, lastID, batch, failedCounter, cancelled, history>>

Cancel ==
  /\ ~cancelled
  /\ cancelled' = TRUE
  /\ UNCHANGED <<published, pc, lastID, batch, failedCounter, history>>

\* The select, and the limit of failures.
Loop ==
  /\ pc = "looping"
  /\ pc' = IF cancelled \/ failedCounter > MaxFailed THEN "stopped" ELSE "reading"
  /\ UNCHANGED <<published, lastID, batch, failedCounter, cancelled, history>>

\* Mutant: it reads from the last message that was delivered.
ReadNew ==
  /\ pc = "reading"
  /\ lastID < published
  /\ at' = lastID + 1 /\ upto' = published
  /\ lastID' = published
  /\ pc' = "acting"
  /\ UNCHANGED <<published, failedCounter, cancelled, history>>

\* XREAD BLOCK 0: the reply comes when there is a message; until then not
\* even the end of the context is noticed.
Read ==
  /\ pc = "reading"
  /\ lastID < published
  /\ at' = lastID + 1 /\ upto' = published
  /\ pc' = "acting"
  /\ UNCHANGED <<published, lastID, failedCounter, cancelled, history>>

ReadFails ==
  /\ pc = "reading"
  /\ pc' = "looping"
  /\ failedCounter' = failedCounter + 1
  /\ UNCHANGED <<published, lastID, batch, cancelled, history>>

\* The function succeeds with the next message.
Act ==
  /\ pc = "acting" /\ at <= upto
  /\ lastID' = at
  /\ failedCounter' = 0
  /\ at' = at + 1
  /\ tried' = tried \cup {at}
  /\ acted' = acted \cup {at}
  /\ UNCHANGED <<published, pc, upto, cancelled>>

\* It fails, or the message cannot be read as a map: the next one follows.
ActFails ==
  /\ pc = "acting" /\ at <= upto
  /\ failedCounter' = failedCounter + 1
  /\ at' = at + 1
  /\ tried' = tried \cup {at}
  /\ UNCHANGED <<published, pc, lastID, upto, cancelled, acted>>

BatchDone ==
  /\ pc = "acting" /\ at > upto
  /\ pc' = "looping"
  /\ UNCHANGED <<published, lastID, batch, failedCounter, cancelled, history>>

Init ==
  /\ published = 0
  /\ pc = "looping"
  /\ lastID = 0
  /\ at = 1 /\ upto = 0
  /\ failedCounter = 0
  /\ cancelled = FALSE
  /\ tried = {}
  /\ acted = {}

Subscriber == Loop \/ Read \/ ReadFails \/ Act \/ ActFails \/ BatchDone

Next == Publish \/ Cancel \/ Subscriber

Spec == Init /\ [][Next]_vars

-----------------------------------------------------------------------------
(* Properties *)

\* No message is passed over untried, and none for which the function has
\* succeeded is handed to it again (SubscribeStream's lastID).  One for which
\* it failed is passed over when it succeeds for a later one.
TriedAndDoneOnce ==
  /\ 1 .. lastID \subseteq tried
  /\ pc = "acting" => \A id \in acted : id < at
=============================================================================
