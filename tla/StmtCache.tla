------------------------------ MODULE StmtCache ------------------------------
(***************************************************************************)
(* Cached prepared statements (getReadStmtx, evictReadStmt and the         *)
(* non-transactional path of SQL.Read in database/sql.go; getWriteStmt and *)
(* evictWriteStmt do the same for writes).  Goroutines look a query up in  *)
(* the LRU cache, prepare it when it is not there, execute the statement   *)
(* outside of any lock, and remove and close it when the execution fails.  *)
(* A statement that is closed fails every execution.                       *)
(***************************************************************************)
EXTENDS Naturals, Sequences, FiniteSets

CONSTANTS
  Caller,    \* goroutines; each makes one call of Read
  QueryOf,   \* the query of each call
  Query,
  OnMaster,  \* the calls with UseMaster
  Stmt,      \* the statements that can be prepared
  Cap,       \* capacity of the cache
  CanFail,   \* whether an execution may fail, or find no row
  Nil

VARIABLES
  ll, items, \* the cache, see LRUStmtCache
  prepared,  \* where each statement was prepared, or Nil, and for which query
  closed,    \* the statements on which Close was called
  pc,        \* where each call is
  stmt,      \* the statement it executes
  own,       \* the statement it prepared, or removed, and has to close
  dropped,   \* history: statements the cache discarded for want of room
  failed     \* history: queries whose execution failed

vars == <<ll, items, prepared, closed, pc, stmt, own, dropped, failed>>

Cache == INSTANCE LRUStmtCache WITH
           Key <- Query, Value <- Stmt, MaxOps <- 0,
           now <- 0, used <- Nil

Held(q) == Cache!Entry(q).value
Cached == {ll[i].value : i \in DOMAIN ll}
Database(c) == IF c \in OnMaster THEN "master" ELSE "follower"
Goto(c, l) == pc' = [pc EXCEPT ![c] = l]

\* readStmtCache.Load(query)
Load(c) ==
  LET q == QueryOf[c]
  IN /\ pc[c] = "idle"
     /\ Cache!Load(q)
     /\ IF q \in items
        THEN /\ stmt' = [stmt EXCEPT ![c] = Held(q)]
             /\ Goto(c, "executing")
        ELSE Goto(c, "preparing") /\ UNCHANGED stmt
     /\ UNCHANGED <<prepared, closed, own, dropped, failed>>

\* PreparexContext on the follower or the master.  When it fails, Read calls
\* the database without a statement, and is done.
Prepare(c) ==
  /\ pc[c] = "preparing"
  /\ \/ \E s \in Stmt :
          /\ prepared[s] = Nil
          /\ prepared' = [prepared EXCEPT ![s] = [query |-> QueryOf[c],
                                                  db |-> Database(c)]]
          /\ own' = [own EXCEPT ![c] = s]
          /\ Goto(c, "storing")
     \/ Goto(c, "done") /\ UNCHANGED <<prepared, own>>
  /\ UNCHANGED <<ll, items, closed, stmt, dropped, failed>>

\* Mutant: the entry that is there is replaced.
StoreAnyway(c) ==
  /\ pc[c] = "storing"
  /\ Cache!Store(QueryOf[c], own[c])
  /\ UNCHANGED dropped
  /\ stmt' = [stmt EXCEPT ![c] = own[c]]
  /\ own' = [own EXCEPT ![c] = Nil]
  /\ Goto(c, "executing")
  /\ UNCHANGED <<prepared, closed, failed>>

\* Mutant: the cache closes what it discards.
StoreClosesDropped(c) ==
  /\ pc[c] = "storing"
  /\ Cache!LoadOrStore(QueryOf[c], own[c])
  /\ closed' = closed \cup (Cached \ {ll'[i].value : i \in DOMAIN ll'})
  /\ stmt' = [stmt EXCEPT ![c] = IF QueryOf[c] \in items THEN Held(QueryOf[c])
                                                         ELSE own[c]]
  /\ Goto(c, "executing")
  /\ UNCHANGED <<prepared, own, dropped, failed>>

\* readStmtCache.LoadOrStore(query, stmt)
LoadOrStore(c) ==
  LET q == QueryOf[c]
  IN /\ pc[c] = "storing"
     /\ Cache!LoadOrStore(q, own[c])
     /\ dropped' = dropped \cup (Cached \ {ll'[i].value : i \in DOMAIN ll'})
     /\ IF q \in items
        THEN /\ stmt' = [stmt EXCEPT ![c] = Held(q)]
             /\ Goto(c, "closing")
             /\ UNCHANGED own
        ELSE /\ stmt' = [stmt EXCEPT ![c] = own[c]]
             /\ own' = [own EXCEPT ![c] = Nil]
             /\ Goto(c, "executing")
     /\ UNCHANGED <<prepared, closed, failed>>

\* Another call stored its statement first: this one's is closed.
CloseOwn(c) ==
  /\ pc[c] = "closing"
  /\ closed' = closed \cup {own[c]}
  /\ own' = [own EXCEPT ![c] = Nil]
  /\ Goto(c, "executing")
  /\ UNCHANGED <<ll, items, prepared, stmt, dropped, failed>>

\* SelectContext or GetContext; finding no row is an error as well.
Execute(c) ==
  /\ pc[c] = "executing"
  /\ \/ stmt[c] \notin closed /\ Goto(c, "done") /\ UNCHANGED failed
     \/ /\ stmt[c] \in closed \/ CanFail
        /\ Goto(c, "evicting")
        /\ failed' = failed \cup {QueryOf[c]}
  /\ UNCHANGED <<ll, items, prepared, closed, stmt, own, dropped>>

\* Mutant: the statement that failed is closed and left in the cache.
EvictByClosing(c) ==
  /\ pc[c] = "evicting"
  /\ IF QueryOf[c] \in items
     THEN /\ own' = [own EXCEPT ![c] = Held(QueryOf[c])]
          /\ Goto(c, "closingEvicted")
     ELSE Goto(c, "done") /\ UNCHANGED own
  /\ UNCHANGED <<ll, items, prepared, closed, stmt, dropped, failed>>

\* evictReadStmt(query): LoadAndDelete, whichever statement is there by now.
Evict(c) ==
  LET q == QueryOf[c]
  IN /\ pc[c] = "evicting"
     /\ Cache!LoadAndDelete(q)
     /\ IF q \in items
        THEN own' = [own EXCEPT ![c] = Held(q)] /\ Goto(c, "closingEvicted")
        ELSE Goto(c, "done") /\ UNCHANGED own
     /\ UNCHANGED <<prepared, closed, stmt, dropped, failed>>

\* ... and Close.
CloseEvicted(c) ==
  /\ pc[c] = "closingEvicted"
  /\ closed' = closed \cup {own[c]}
  /\ own' = [own EXCEPT ![c] = Nil]
  /\ Goto(c, "done")
  /\ UNCHANGED <<ll, items, prepared, stmt, dropped, failed>>

Init ==
  /\ ll = <<>>
  /\ items = {}
  /\ prepared = [s \in Stmt |-> Nil]
  /\ closed = {}
  /\ pc = [c \in Caller |-> "idle"]
  /\ stmt = [c \in Caller |-> Nil]
  /\ own = [c \in Caller |-> Nil]
  /\ dropped = {}
  /\ failed = {}

Submit(c) == \/ Load(c) \/ Prepare(c) \/ LoadOrStore(c) \/ CloseOwn(c)
           \/ Execute(c) \/ Evict(c) \/ CloseEvicted(c)
Next == \E c \in Caller : Submit(c)

Spec == Init /\ [][Next]_vars

-----------------------------------------------------------------------------
(* Properties *)

Open == {s \in Stmt : prepared[s] # Nil} \ closed

\* What the cache holds is open and is for the query it is held under: a call
\* that finds its query is never given a statement that is already closed,
\* and so a failure is followed by a fresh statement.
CachedIsOpen ==
  \A i \in DOMAIN ll :
    /\ ll[i].value \in Open
    /\ prepared[ll[i].value].query = ll[i].key

\* A statement has one owner who will close it: no call closes a statement
\* another call has to close, and none is left open that is neither cached,
\* nor about to be closed, nor discarded by the cache.
EveryStatementIsOwned ==
  /\ Open \subseteq Cached \cup dropped \cup {own[c] : c \in Caller}
  /\ \A c, d \in Caller : c # d /\ own[c] # Nil => own[c] # own[d]
  /\ \A c \in Caller : own[c] \notin Cached \cup closed

\* Eviction for want of room never leaves a call with a closed statement
\* (lruStmtCache.evictLocked): only calls of a query whose execution has failed
\* can meet one.
ClosedOnlyAfterFailure ==
  \A c \in Caller :
    pc[c] = "executing" /\ stmt[c] \in closed => QueryOf[c] \in failed

\* No call executes a closed statement.
NeverExecutesClosed ==
  \A c \in Caller : pc[c] = "executing" => stmt[c] \notin closed
=============================================================================
