--------------------------------- MODULE Jobs ---------------------------------
(* What runs beside the requests, side by side: a behaviour is one of an   *)
(* import (Import), of the process that stops (Lifecycle), of the          *)
(* scheduler (Cron), of a subscriber of a Redis stream (Streams) or of a   *)
(* bulk of generated files (Bulk).                                         *)
EXTENDS Import, Sequences

CONSTANTS
  Conn,               \* the connections of Lifecycle
  Pattern, Job, MaxEntry,  \* of Cron
  MaxID, MaxFailed,   \* of Streams
  Total               \* the generators of Bulk

ASSUME JobsAssumption ==
  /\ Total \in Nat
  /\ Nil \notin 1 .. Total
  /\ Nil \notin {"ok", "error"}

VARIABLES
  live,  \* the component of this behaviour
  server, conn, listening, accepting, watcher, draining, late, verdict, main,
  entries, handlerList, total, made, active, entry, job, cronWorker, nilResp,
  again, dead,
  published, subscriber, lastID, at, upto, failedCounter, cancelled, tried, acted,
  sent, jobs, zipper, generating, idle, generated, nextFile, archive

Process == INSTANCE Lifecycle WITH Servers <- {"net/http"}

Scheduler == INSTANCE Cron WITH worker <- cronWorker

Stream == INSTANCE Streams WITH pc <- subscriber

Files == INSTANCE Bulk WITH
  main <- zipper, worker <- generating, done <- idle, results <- generated,
  next <- nextFile

-----------------------------------------------------------------------------
importVars == <<format, pivot, next, reader, worker, row, trx, err, fate, results,
                caller, success, failed, crashed>>
processVars == <<server, conn, listening, accepting, watcher, draining, late,
                 verdict, main>>
cronVars == <<entries, handlerList, total, made, active, entry, job, cronWorker,
              nilResp, again, dead>>
streamVars == <<published, subscriber, lastID, at, upto, failedCounter, cancelled,
                tried, acted>>
bulkVars == <<sent, jobs, zipper, generating, idle, generated, nextFile, archive>>
jobVars == <<live, importVars, processVars, cronVars, streamVars, bulkVars>>

JobsInit ==
  /\ live \in {"import", "process", "scheduler", "stream", "files"}
  /\ Init /\ Process!Init /\ Scheduler!Init /\ Stream!Init /\ Files!Init
  /\ live # "import" => format = "csv" /\ pivot

JobsNext ==
  \/ /\ live = "import" /\ Next
     /\ UNCHANGED <<live, processVars, cronVars, streamVars, bulkVars>>
  \/ /\ live = "process" /\ Process!Next
     /\ UNCHANGED <<live, importVars, cronVars, streamVars, bulkVars>>
  \/ /\ live = "scheduler" /\ Scheduler!Next
     /\ UNCHANGED <<live, importVars, processVars, streamVars, bulkVars>>
  \/ /\ live = "stream" /\ Stream!Next
     /\ UNCHANGED <<live, importVars, processVars, cronVars, bulkVars>>
  \/ /\ live = "files" /\ Files!Next
     /\ UNCHANGED <<live, importVars, processVars, cronVars, streamVars>>

\* The fairness of Import and of Lifecycle: goroutines that can run do run, the
\* application's function returns, and the timer of the shutdown fires.  Of
\* handlers, clients and signals nothing is assumed.
JobsFairness ==
  /\ WF_importVars(live = "import" /\ Alive /\ Read)
  /\ WF_importVars(live = "import" /\ Alive /\ CloseResults)
  /\ WF_importVars(live = "import" /\ Alive /\ Return)
  /\ \A w \in Worker : WF_importVars(live = "import" /\ Alive /\ Work(w))
  /\ WF_processVars(live = "process" /\ Process!Shutdown)
  /\ WF_processVars(live = "process" /\ Process!Return)

JobsSpec == JobsInit /\ [][JobsNext]_jobVars /\ JobsFairness

-----------------------------------------------------------------------------
(* The properties of the modules, by the names they have there, beside     *)
(* those of Import.                                                        *)

\* The import, when it is one, ends.
EveryImportEnds == live = "import" => ImportEnds
\* A stop cuts no connection before the ten seconds are over.
StopsGracefully == Process!StopsGracefully
\* A process that has got its signal ends.
StopEnds == Process!StopEnds
\* The schedules the engine runs are those that can be removed.
SchedulesAreListed == Scheduler!SchedulesAreListed
\* A subscriber passes over no message untried, and repeats none it has done.
TriedAndDoneOnce == Stream!TriedAndDoneOnce
\* Every generator has its result before the archive is made.
ResultsAreComplete == Files!ResultsAreComplete
=============================================================================
