-------------------------------- MODULE Import --------------------------------
(***************************************************************************)
(* The import pipeline (importer/import.go and its readers).  One          *)
(* goroutine reads the file row by row; workers take the rows, validate    *)
(* them, call the application's function inside of a transaction of their  *)
(* own and finish it; the caller collects the results.  Both channels are  *)
(* unbuffered, so a row and a result are handed over in a rendezvous.      *)
(* Neither readers nor workers recover: a panic of theirs ends the process *)
(* (crashed); one of the caller ends the import and leaves them behind.    *)
(***************************************************************************)
EXTENDS Naturals, FiniteSets

CONSTANTS
  Rows,      \* number of rows the file has
  Worker,    \* WithWorker
  Outcomes,  \* what the application's function may do
  CanFail,   \* whether Begin and Commit may fail
  Nil

ASSUME ImportAssumption ==
  /\ Rows \in Nat
  /\ IsFiniteSet(Worker) /\ Worker # {}
  /\ Outcomes \subseteq {"ok", "rejects", "rejectsBare", "panics"}
  /\ CanFail \in BOOLEAN
  /\ Nil \notin 1 .. Rows

Row == 1 .. Rows

VARIABLES
  format,    \* "csv" or "workbook", and whether it is
  pivot,     \* ProcessPivotData that runs; fixed before the import
  next,      \* the row the reader is at
  reader,    \* "reading", "offering" it, or "closed" (the channel of rows)
  worker,    \* where each worker is
  row,       \* the row it has in hand, or Nil
  trx,       \* its transaction: "none", "open" or "nil"
  err,       \* the Error of its processedResult: "none", "data" or "bare"
  fate,      \* history: what has become of each row
  results,   \* whether resultChan is open
  caller,    \* "collecting", "returned" or "panicked"
  success,   \* rows in the SuccessList
  failed,    \* rows in the FailedList
  crashed

workerVars == <<worker, row, trx, err>>
callerVars == <<caller, success, failed>>
fixed == <<format, pivot>>
vars == <<fixed, next, reader, workerVars, fate, results, callerVars, crashed>>

Alive == ~crashed
Goto(w, l) == worker' = [worker EXCEPT ![w] = l]

-----------------------------------------------------------------------------
(* The reader *)

\* Mutant: the channel of rows is not closed.
ReadWithoutClose ==
  /\ reader = "reading"
  /\ \/ next \in Row /\ reader' = "offering" /\ UNCHANGED next
     \/ next \in Row /\ format = "workbook" /\ next' = next + 1 /\ UNCHANGED reader
  /\ UNCHANGED <<fixed, workerVars, fate, results, callerVars, crashed>>

\* The next row is read and parsed, or is the last one.  A row that cannot be
\* read ends a CSV file and is left out of a workbook.
Read ==
  /\ reader = "reading"
  /\ \/ next \in Row /\ reader' = "offering" /\ UNCHANGED next
     \/ next \in Row /\ format = "workbook" /\ next' = next + 1 /\ UNCHANGED reader
     \/ /\ next \notin Row \/ format = "csv"
        /\ reader' = "closed" /\ UNCHANGED next
  /\ UNCHANGED <<fixed, workerVars, fate, results, callerVars, crashed>>

-----------------------------------------------------------------------------
(* The workers *)

\* `for dt := range data', with a processedResult that was reset.
Receive(w) ==
  /\ worker[w] = "receiving"
  /\ reader = "offering"
  /\ reader' = "reading"
  /\ next' = next + 1
  /\ row' = [row EXCEPT ![w] = next]
  /\ err' = [err EXCEPT ![w] = "none"]
  /\ fate' = [fate EXCEPT ![next] = "taken"]
  /\ Goto(w, IF pivot THEN "beginning" ELSE "validating")
  /\ UNCHANGED <<fixed, trx, results, callerVars, crashed>>

\* ValidateStruct; a row that is not valid is not processed.
Validate(w) ==
  /\ worker[w] = "validating"
  /\ \/ Goto(w, "beginning") /\ UNCHANGED <<err, fate>>
     \/ /\ err' = [err EXCEPT ![w] = "data"]
        /\ fate' = [fate EXCEPT ![row[w]] = "undone"]
        /\ Goto(w, "sending")
  /\ UNCHANGED <<fixed, next, reader, row, trx, results, callerVars, crashed>>

\* The error of Begin is kept only for Finish.
Begin(w) ==
  /\ worker[w] = "beginning"
  /\ \E t \in {"open"} \cup {u \in {"nil"} : CanFail} :
       trx' = [trx EXCEPT ![w] = t]
  /\ Goto(w, "calling")
  /\ UNCHANGED <<fixed, next, reader, row, err, fate, results, callerVars,
                 crashed>>

\* The function, which also runs when there is no transaction.
CallFn(w) ==
  /\ worker[w] = "calling"
  /\ \E o \in Outcomes :
       /\ err' = [err EXCEPT ![w] = CASE o = "rejects" -> "data"
                                      [] o = "rejectsBare" -> "bare"
                                      [] OTHER -> @]
       /\ crashed' = (o = "panics")
  /\ Goto(w, "finishing")
  /\ UNCHANGED <<fixed, next, reader, row, trx, fate, results, callerVars>>

\* Mutant: the error of the function does not reach Finish.
FinishCommits(w) ==
  /\ worker[w] = "finishing"
  /\ trx[w] = "open"
  /\ fate' = [fate EXCEPT ![row[w]] = "kept"]
  /\ trx' = [trx EXCEPT ![w] = "none"]
  /\ Goto(w, "sending")
  /\ UNCHANGED <<fixed, next, reader, row, err, results, callerVars, crashed>>

\* Finish rolls back or commits.  The error of either is logged, and without a
\* transaction there is a nil pointer to call.
Finish(w) ==
  /\ worker[w] = "finishing"
  /\ IF trx[w] = "nil"
     THEN crashed' = TRUE /\ UNCHANGED <<worker, trx, fate>>
     ELSE /\ \E f \in IF err[w] # "none" THEN {"undone"}
                      ELSE {"kept"} \cup {g \in {"lost"} : CanFail} :
               fate' = [fate EXCEPT ![row[w]] = f]
          /\ trx' = [trx EXCEPT ![w] = "none"]
          /\ Goto(w, "sending")
          /\ UNCHANGED crashed
  /\ UNCHANGED <<fixed, next, reader, row, err, results, callerVars>>

\* What the caller does with a result.  Outside of pivots it takes the data of
\* an error for a map, and panics when it is none.
Collect(r, e) ==
  CASE e = "none" ->
         success' = success \cup {r} /\ UNCHANGED <<failed, caller>>
    [] e = "data" \/ (e = "bare" /\ pivot) ->
         failed' = failed \cup {r} /\ UNCHANGED <<success, caller>>
    [] OTHER ->
         caller' = "panicked" /\ UNCHANGED <<success, failed>>

Send(w) ==
  /\ worker[w] = "sending"
  /\ caller = "collecting"
  /\ Collect(row[w], err[w])
  /\ row' = [row EXCEPT ![w] = Nil]
  /\ Goto(w, "receiving")
  /\ UNCHANGED <<fixed, next, reader, trx, err, fate, results, crashed>>

\* The channel of rows is closed: wait.Done().
WorkerDone(w) ==
  /\ worker[w] = "receiving"
  /\ reader = "closed"
  /\ Goto(w, "done")
  /\ UNCHANGED <<fixed, next, reader, row, trx, err, fate, results,
                 callerVars, crashed>>

\* Mutant: the first worker that is done closes the channel.
CloseResultsEarly ==
  /\ results
  /\ \E w \in Worker : worker[w] = "done"
  /\ results' = FALSE
  /\ UNCHANGED <<fixed, next, reader, workerVars, fate, callerVars, crashed>>

\* wait.Wait() returns, and the channel of results is closed.
CloseResults ==
  /\ results
  /\ \A w \in Worker : worker[w] = "done"
  /\ results' = FALSE
  /\ UNCHANGED <<fixed, next, reader, workerVars, fate, callerVars, crashed>>

Return ==
  /\ caller = "collecting"
  /\ ~results
  /\ caller' = "returned"
  /\ UNCHANGED <<fixed, next, reader, workerVars, fate, results, success,
                 failed, crashed>>

-----------------------------------------------------------------------------
Init ==
  /\ format \in {"csv", "workbook"}
  /\ pivot \in BOOLEAN
  /\ next = 1
  /\ reader = "reading"
  /\ worker = [w \in Worker |-> "receiving"]
  /\ row = [w \in Worker |-> Nil]
  /\ trx = [w \in Worker |-> "none"]
  /\ err = [w \in Worker |-> "none"]
  /\ fate = [r \in Row |-> "unread"]
  /\ results = TRUE
  /\ caller = "collecting"
  /\ success = {}
  /\ failed = {}
  /\ crashed = FALSE

Work(w) == \/ Receive(w) \/ Validate(w) \/ Begin(w) \/ CallFn(w) \/ Finish(w)
           \/ Send(w) \/ WorkerDone(w)

Next == /\ Alive
        /\ \/ Read \/ CloseResults \/ Return
           \/ \E w \in Worker : Work(w)

Spec == Init /\ [][Next]_vars

\* Goroutines that can run do run, and the application's function returns.
Fairness ==
  /\ WF_vars(Alive /\ Read)
  /\ WF_vars(Alive /\ CloseResults)
  /\ WF_vars(Alive /\ Return)
  /\ \A w \in Worker : WF_vars(Alive /\ Work(w))

FairSpec == Spec /\ Fairness

-----------------------------------------------------------------------------
(* Properties *)

TypeOK ==
  /\ format \in {"csv", "workbook"}
  /\ pivot \in BOOLEAN
  /\ next \in 1 .. Rows + 1
  /\ reader \in {"reading", "offering", "closed"}
  /\ worker \in [Worker -> {"receiving", "validating", "beginning", "calling",
                            "finishing", "sending", "done"}]
  /\ row \in [Worker -> Row \cup {Nil}]
  /\ trx \in [Worker -> {"none", "open", "nil"}]
  /\ err \in [Worker -> {"none", "data", "bare"}]
  /\ fate \in [Row -> {"unread", "taken", "kept", "undone", "lost"}]
  /\ results \in BOOLEAN
  /\ caller \in {"collecting", "returned", "panicked"}
  /\ success \subseteq Row
  /\ failed \subseteq Row
  /\ crashed \in BOOLEAN

Contract == INSTANCE ImportContract WITH
  result <- IF caller = "returned" THEN [success |-> success, failed |-> failed]
                                   ELSE Nil

\* Every row that was taken from the file is settled by one worker, once, and
\* the result tells what became of it: a row is in the FailedList exactly when
\* it was rolled back or not valid, whichever worker had it and in whatever
\* order the results came (processEachData, processData).
KeepsContract == Contract!Spec

\* When the result is returned, nothing goes on behind the caller's back: the
\* reader and the workers have ended, and no transaction is open.
NothingLeftBehind ==
  caller = "returned" =>
    /\ reader = "closed"
    /\ \A w \in Worker : worker[w] = "done" /\ trx[w] = "none"

\* The import ends, when the application's function returns: the reader, the
\* workers and the caller never wait for each other in a circle.
ImportEnds == <>(caller # "collecting" \/ crashed)

-----------------------------------------------------------------------------
(* Why it keeps its contract: where a worker is determines what it has in   *)
(* hand, every row that was taken is in one hand or collected, and the      *)
(* channels close one after the other.                                      *)

InHand == {"validating", "beginning", "calling", "finishing"}

HandsMatchFates ==
  \A w \in Worker :
    /\ worker[w] \in {"receiving", "done"} <=> row[w] = Nil
    /\ worker[w] \in InHand => fate[row[w]] = "taken"
    /\ worker[w] \in InHand \ {"finishing"} => err[w] = "none"
    /\ worker[w] = "sending" => fate[row[w]] \in IF err[w] = "none"
                                                 THEN {"kept", "lost"}
                                                 ELSE {"undone"}
    /\ trx[w] # "none" => worker[w] \in {"calling", "finishing"}

OneHandEach ==
  \A v, w \in Worker : v # w /\ row[v] # Nil => row[v] # row[w]

RowsInOrder ==
  /\ \A r \in Row : r >= next => fate[r] = "unread"
  /\ reader = "offering" => next \in Row

ListsMatchFates ==
  /\ success \subseteq {r \in Row : fate[r] \in {"kept", "lost"}}
  /\ failed \subseteq {r \in Row : fate[r] = "undone"}
  /\ \A r \in Row :
       \/ fate[r] = "unread"
       \/ r \in success \cup failed
       \/ \E w \in Worker : row[w] = r
       \/ caller = "panicked"

ClosedInOrder ==
  /\ caller = "returned" => ~results
  /\ ~results => \A w \in Worker : worker[w] = "done"
  /\ \A w \in Worker : worker[w] = "done" => reader = "closed"

PipelineInv ==
  /\ TypeOK
  /\ HandsMatchFates
  /\ OneHandEach
  /\ RowsInOrder
  /\ ListsMatchFates
  /\ ClosedInOrder
===============================================================================
