---------------------------- MODULE MessageBuffer ----------------------------
(***************************************************************************)
(* The in-memory store of recent SSE messages (sse/message_buffer.go).     *)
(* It keeps at most MaxSize messages, keyed by message ID, evicts the      *)
(* oldest one when an insertion makes it too large, drops expired ones     *)
(* every thirty seconds, and replays "the messages since ID" to a client   *)
(* that reconnects.  Every operation runs under the buffer's mutex and is  *)
(* one action.  Time is a logical clock that an operation reads once and   *)
(* that may have advanced since the previous operation.                    *)
(***************************************************************************)
EXTENDS Naturals, FiniteSets

CONSTANTS
  MessageID,   \* IDs callers use; may contain NoID when they call AddMessage directly
  NoID,        \* the empty string
  MaxSize,     \* NewMessageBuffer's maxSize (1000 in NewHub)
  TTL,         \* NewMessageBuffer's ttl, in clock ticks
  MaxClock     \* bound on the logical clock (model checking only)

VARIABLES
  messages,    \* mb.messages: the CreatedAt of every buffered message, by ID
  clock,       \* the last reading of time.Now() under mb.mu
  replay       \* the last answer of GetMessagesSince: who asked, what it got

vars == <<messages, clock, replay>>

Held == DOMAIN messages

Newest(m) == {id \in DOMAIN m : \A k \in DOMAIN m : m[id] >= m[k]}   \* mutant

\* IDs whose CreatedAt no other message precedes (the scan keeps the first
\* one it meets among equals, and map iteration order is random).
Oldest(m) == {id \in DOMAIN m : \A k \in DOMAIN m : m[id] <= m[k]}

Without(m, S) == [id \in DOMAIN m \ S |-> m[id]]

\* evictOldest: nothing is deleted when the scan ends on the empty ID.
EvictOldest(m) == {Without(m, {id} \ {NoID}) : id \in Oldest(m)}

\* AddMessage under mb.mu.
Store(id) ==
  \E now \in clock .. MaxClock :
    LET stored == [k \in Held \cup {id} |-> IF k = id THEN now ELSE messages[k]]
    IN  /\ clock' = now
        /\ IF Cardinality(DOMAIN stored) > MaxSize
             THEN messages' \in EvictOldest(stored)
             ELSE messages' = stored

AddMessage(id) == Store(id) /\ UNCHANGED replay

CleanupExpired ==
  /\ \E now \in clock .. MaxClock :
       /\ clock' = now
       /\ messages' = Without(messages, {id \in Held : now > messages[id] + TTL})
  /\ UNCHANGED replay

Clear ==
  /\ messages' = << >>
  /\ UNCHANGED <<clock, replay>>

-----------------------------------------------------------------------------
(* GetMessagesSince ranges over a Go map, so it meets the messages in an   *)
(* arbitrary order, and collects what it meets after the requested ID.     *)

Orders(S) == {o \in [1 .. Cardinality(S) -> S] :
                \A i, j \in DOMAIN o : i # j => o[i] # o[j]}

\* Mutant: the requested message is sent again.
SinceInclusive(id, order) ==
  {order[j] : j \in {j \in DOMAIN order : id = NoID \/ \E i \in 1 .. j : order[i] = id}}

Since(id, order) ==
  {order[j] : j \in {j \in DOMAIN order :
                       \/ id = NoID
                       \/ \E i \in 1 .. j - 1 : order[i] = id}}

GetMessagesSince(id) ==
  /\ \E order \in Orders(Held) :
       replay' = [since |-> id, got |-> Since(id, order)]
  /\ UNCHANGED <<messages, clock>>

Init ==
  /\ messages = << >>
  /\ clock = 0
  /\ replay = [since |-> NoID, got |-> {}]

Next ==
  \/ \E id \in MessageID : AddMessage(id)
  \/ CleanupExpired
  \/ Clear
  \/ \E id \in MessageID \cup {NoID} : GetMessagesSince(id)

Spec == Init /\ [][Next]_vars

-----------------------------------------------------------------------------
\* A message disappears only if its TTL has passed, if the buffer is
\* cleared, or if no message that stays is older (AddMessage, evictOldest).
LosesOldestFirst ==
  [][ \A id \in Held \ DOMAIN messages' :
        \/ clock' > messages[id] + TTL
        \/ DOMAIN messages' = {}
        \/ \A k \in DOMAIN messages' : messages[id] <= messages'[k] ]_vars

\* A client is never replayed the message it names as its last one, and only
\* what is buffered at the time of the call; when it names none, it is replayed
\* everything buffered (GetMessagesSince).
ReplayIsOfTheBuffer ==
  [][ replay' # replay =>
        /\ replay'.got \subseteq Held
        /\ IF replay'.since = NoID THEN replay'.got = Held
                                   ELSE replay'.since \notin replay'.got ]_vars
=============================================================================
