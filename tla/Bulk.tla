--------------------------------- MODULE Bulk ---------------------------------
(***************************************************************************)
(* BulkGenerator (generator/bulk.go).  Workers take the numbers of         *)
(* generators from a channel that has room for them all, and put each      *)
(* result in its place; then the files are put into one archive, in order. *)
(***************************************************************************)
EXTENDS Naturals, Sequences

CONSTANTS Total, Worker, Nil

Gen == 1 .. Total

VARIABLES
  sent,    \* the jobs 1 .. sent are in the channel, or were
  jobs,    \* those that are still in it
  main,    \* "sending", "waiting", "zipping", "returned", or "failed"
  worker,  \* the job of each worker, or Nil
  done,    \* the workers that have ended
  results, \* for each generator: "ok", "error", or Nil while there is none
  next,    \* the result GenerateZip is at
  archive  \* the entries of the archive: a generator, and if its file is whole

vars == <<sent, jobs, main, worker, done, results, next, archive>>

Send ==
  /\ main = "sending" /\ sent < Total
  /\ sent' = sent + 1
  /\ jobs' = Append(jobs, sent + 1)
  /\ UNCHANGED <<main, worker, done, results, next, archive>>

Close ==
  /\ main = "sending" /\ sent = Total
  /\ main' = "waiting"
  /\ UNCHANGED <<sent, jobs, worker, done, results, next, archive>>

\* `for idx := range jobs'
Take(w) ==
  /\ w \notin done /\ worker[w] = Nil
  /\ \/ /\ jobs # << >>
        /\ worker' = [worker EXCEPT ![w] = Head(jobs)]
        /\ jobs' = Tail(jobs)
        /\ UNCHANGED done
     \/ /\ jobs = << >> /\ main # "sending"
        /\ done' = done \cup {w}
        /\ UNCHANGED <<jobs, worker>>
  /\ UNCHANGED <<sent, main, results, next, archive>>

Generate(w) ==
  /\ worker[w] # Nil
  /\ \E result \in {"ok", "error"} :
       results' = [results EXCEPT ![worker[w]] = result]
  /\ worker' = [worker EXCEPT ![w] = Nil]
  /\ UNCHANGED <<sent, jobs, main, done, next, archive>>

\* Mutant: wg.Add(1) is the worker's first step, so that Wait may come first.
WaitForNobody ==
  /\ main = "waiting"
  /\ \A w \in Worker \ done : worker[w] = Nil
  /\ main' = "zipping"
  /\ UNCHANGED <<sent, jobs, worker, done, results, next, archive>>

\* wg.Wait
Wait ==
  /\ main = "waiting"
  /\ done = Worker
  /\ main' = "zipping"
  /\ UNCHANGED <<sent, jobs, worker, done, results, next, archive>>

\* GenerateZip leaves out what failed.  An error of its own is assigned to a
\* copy of the result: a file that cannot be opened is left out, and one that
\* cannot be read is there in part, without a word.
Zip ==
  /\ main = "zipping" /\ next <= Total
  /\ next' = next + 1
  /\ \/ UNCHANGED archive
     \/ /\ results[next] = "ok"
        /\ \E whole \in BOOLEAN :
             archive' = Append(archive, [gen |-> next, whole |-> whole])
  /\ UNCHANGED <<sent, jobs, main, worker, done, results>>

CloseZip ==
  /\ main = "zipping" /\ next > Total
  /\ main' \in {"returned", "failed"}
  /\ UNCHANGED <<sent, jobs, worker, done, results, next, archive>>

Init ==
  /\ sent = 0
  /\ jobs = << >>
  /\ main = "sending"
  /\ worker = [w \in Worker |-> Nil]
  /\ done = {}
  /\ results = [g \in Gen |-> Nil]
  /\ next = 1
  /\ archive = << >>

Next ==
  \/ Send \/ Close \/ Wait \/ Zip \/ CloseZip
  \/ \E w \in Worker : Take(w) \/ Generate(w)

Spec == Init /\ [][Next]_vars

-----------------------------------------------------------------------------
(* Properties *)

\* Once the generators have been waited for, every one has its result and no
\* worker changes it any more; and the archive holds files of generators that
\* succeeded only, each at most once and in their order.
ResultsAreComplete ==
  main \in {"zipping", "returned", "failed"} =>
    /\ \A g \in Gen : results[g] # Nil
    /\ \A w \in Worker : worker[w] = Nil
    /\ \A i \in DOMAIN archive : results[archive[i].gen] = "ok"
    /\ \A i, j \in DOMAIN archive : i < j => archive[i].gen < archive[j].gen
=============================================================================
