--------------------------------- MODULE Cron ---------------------------------
(***************************************************************************)
(* The scheduler (cron/cron.go), around the entries of robfig/cron.  An    *)
(* entry that is due runs as a goroutine of its own, which starts another  *)
(* one for the handler and waits for its Response or for the time-out.     *)
(* The handler offers its Response on an unbuffered channel, and neither   *)
(* recovers.                                                               *)
(***************************************************************************)
EXTENDS Naturals, FiniteSets

CONSTANTS
  Pattern,
  Job,       \* the runs of entries; bounds how many there are
  MaxEntry,  \* bound on the registrations
  Nil

VARIABLES
  entries,     \* robfig/cron: the pattern of each entry, by its ID
  handlerList, \* Engine.handlerList: the entry of each pattern
  total,       \* Engine.handlerTotal
  made,        \* how many entries were ever added
  active,      \* the engine was started and not stopped
  entry,       \* the entry each run is of, or Nil
  job,         \* its goroutine: "none", "selecting" or "ended"
  worker,      \* its handler: "none", "handling", "offering" or "done"
  nilResp,     \* runs whose handler returned nil
  again,       \* history: patterns registered while they were listed
  dead         \* a goroutine panicked: the process has ended

tableVars == <<entries, handlerList, total, made, again>>
runVars == <<entry, job, worker, nilResp, dead>>
vars == <<tableVars, active, runVars>>

Without(f, x) == [y \in DOMAIN f \ {x} |-> f[y]]
With(f, x, v) == [y \in DOMAIN f \cup {x} |-> IF y = x THEN v ELSE f[y]]

RegisterScheduler(p) ==
  /\ made < MaxEntry
  /\ made' = made + 1
  /\ entries' = With(entries, made + 1, p)
  /\ handlerList' = With(handlerList, p, made + 1)
  /\ total' = total + 1
  /\ again' = IF p \in DOMAIN handlerList THEN again \cup {p} ELSE again
  /\ UNCHANGED <<active, runVars>>

\* Mutant: the entry is forgotten and stays in the engine.
RemoveListed(p) ==
  /\ p \in DOMAIN handlerList
  /\ handlerList' = Without(handlerList, p)
  /\ total' = total - 1
  /\ UNCHANGED <<entries, made, again, active, runVars>>

\* A pattern that is not listed is logged.
RemoveScheduler(p) ==
  /\ p \in DOMAIN handlerList
  /\ entries' = Without(entries, handlerList[p])
  /\ handlerList' = Without(handlerList, p)
  /\ total' = total - 1
  /\ UNCHANGED <<made, again, active, runVars>>

Start == active' = TRUE /\ UNCHANGED <<tableVars, runVars>>

\* Runs that are under way go on.
Stop == active' = FALSE /\ UNCHANGED <<tableVars, runVars>>

\* An entry is due; an earlier run of it may still be under way.
Run(j, e) ==
  /\ active /\ job[j] = "none"
  /\ entry' = [entry EXCEPT ![j] = e]
  /\ job' = [job EXCEPT ![j] = "selecting"]
  /\ worker' = [worker EXCEPT ![j] = "handling"]
  /\ UNCHANGED <<tableVars, active, nilResp, dead>>

\* `respChan <- handler(ctx)': it returns a Response, or nil, or panics.
HandlerReturns(j) ==
  /\ worker[j] = "handling"
  /\ \/ /\ worker' = [worker EXCEPT ![j] = "offering"]
        /\ nilResp' \in {nilResp, nilResp \cup {j}}
        /\ UNCHANGED dead
     \/ dead' = TRUE /\ UNCHANGED <<worker, nilResp>>
  /\ UNCHANGED <<tableVars, active, entry, job>>

\* `case resp := <-respChan': resp.processName of nil panics.
Receive(j) ==
  /\ job[j] = "selecting" /\ worker[j] = "offering"
  /\ worker' = [worker EXCEPT ![j] = "done"]
  /\ job' = [job EXCEPT ![j] = "ended"]
  /\ dead' = (j \in nilResp)
  /\ UNCHANGED <<tableVars, active, entry, nilResp>>

\* `case <-ctx.Done()': the handler is left to itself.
TimeOut(j) ==
  /\ job[j] = "selecting"
  /\ job' = [job EXCEPT ![j] = "ended"]
  /\ UNCHANGED <<tableVars, active, entry, worker, nilResp, dead>>

Init ==
  /\ entries = << >>
  /\ handlerList = << >>
  /\ total = 0
  /\ made = 0
  /\ active = FALSE
  /\ entry = [j \in Job |-> Nil]
  /\ job = [j \in Job |-> "none"]
  /\ worker = [j \in Job |-> "none"]
  /\ nilResp = {}
  /\ again = {}
  /\ dead = FALSE

Next ==
  /\ ~dead
  /\ \/ \E p \in Pattern : RegisterScheduler(p) \/ RemoveScheduler(p)
     \/ Start \/ Stop
     \/ \E j \in Job :
          \/ \E e \in DOMAIN entries : Run(j, e)
          \/ HandlerReturns(j) \/ Receive(j) \/ TimeOut(j)

Spec == Init /\ [][Next]_vars

-----------------------------------------------------------------------------
(* Properties *)

\* A schedule that runs can be removed: what the engine holds is what the
\* table lists, whatever was registered, removed and registered again, except
\* for patterns that were registered while they were listed, whose first entry
\* nobody can remove; and the total counts both.
SchedulesAreListed ==
  /\ total = Cardinality(DOMAIN entries)
  /\ \A p \in DOMAIN handlerList : handlerList[p] \in DOMAIN entries
  /\ \A e \in DOMAIN entries :
       \/ entries[e] \in again
       \/ entries[e] \in DOMAIN handlerList /\ handlerList[entries[e]] = e

\* "Jobs exceeding the timeout are stopped" (docs/integrations.md): a run that
\* has ended leaves no handler behind.
JobsAreStopped == \A j \in Job : job[j] = "ended" => worker[j] = "done"
=============================================================================
