------------------------------ MODULE JobsProofs ------------------------------
(***************************************************************************)
(* Proofs about what runs beside the requests, for any number of           *)
(* connections, patterns, runs, messages, generators and workers: that a   *)
(* process over net/http stops gracefully, that the schedules that run can *)
(* be removed, that a subscriber passes over no message, that a bulk has   *)
(* all its results, and that an import keeps its contract.  Each is proved *)
(* of the component's specification, which JobsSpec implements.            *)
(***************************************************************************)
EXTENDS Jobs, SequenceLemmas, FiniteSetTheorems

(***************************************************************************)
(* The process.                                                            *)
(***************************************************************************)
\* What the properties need to know of the types.
Types ==
  /\ server = "net/http"
  /\ watcher \in {"waiting", "handling", "selecting", "closed"}
  /\ draining \in {"none", "begins", "waits", "done"}
  /\ late \in BOOLEAN
  /\ verdict \in {"none", "succeed", "failed"}
  /\ conn \in [Conn -> {"none", "open", "ended", "cut"}]

\* Shutdown is under way only once the watcher has begun it, closes the listener
\* before it waits, and returns when there is nothing left to wait for.
ShutdownInOrder ==
  /\ draining # "none" => watcher \in {"selecting", "closed"}
  /\ draining \in {"waits", "done"} => ~listening
  /\ draining = "done" => Process!Open = {} \/ late

\* Neither the verdict nor the watcher, nor the goroutine of Start after them,
\* is ahead of Shutdown and its deadline.
NobodyIsAhead ==
  /\ verdict = "succeed" => draining = "done"
  /\ watcher = "closed" => draining = "done" \/ late
  /\ main \notin {"blocked", "fatal"} => watcher = "closed"

\* Only the end of the process cuts a connection.
CutAtTheEnd ==
  \A c \in Conn : conn[c] = "cut" => main = "fatal" \/ (main = "exited" /\ late)

StopInv == Types /\ ShutdownInOrder /\ NobodyIsAhead /\ CutAtTheEnd

\* StopInv holds at the start, for an application over net/http.
LEMMA StopInvInit ==
  Process!Init => StopInv
BY DEF Process!Init, StopInv, Types, ShutdownInOrder, NobodyIsAhead, CutAtTheEnd, Process!Open

\* Every step keeps StopInv.
LEMMA StopInvStep ==
  StopInv /\ [Process!Next]_(Process!vars) => StopInv'
<1> SUFFICES ASSUME StopInv, [Process!Next]_(Process!vars)
             PROVE  StopInv'
  OBVIOUS
<1> USE DEF StopInv, Types, ShutdownInOrder, NobodyIsAhead, CutAtTheEnd, Process!Open
<1>1. ASSUME NEW c \in Conn, Process!Accept(c)
      PROVE  StopInv'
  BY <1>1 DEF Process!Accept, Process!Running, Process!stopping
<1>2. ASSUME NEW c \in Conn, Process!Answer(c)
      PROVE  StopInv'
  BY <1>2 DEF Process!Answer, Process!Running, Process!stopping
<1>3. CASE Process!ServeReturns
  BY <1>3 DEF Process!ServeReturns, Process!stopping
<1>4. CASE Process!ServeFails
  BY <1>4 DEF Process!ServeFails, Process!End, Process!Running, Process!stopping
<1>5. CASE Process!Signal
  BY <1>5 DEF Process!Signal, Process!Running
<1>6. CASE Process!BeginShutdown
  BY <1>6 DEF Process!BeginShutdown, Process!Running
<1>7. CASE Process!CloseListener
  BY <1>7 DEF Process!CloseListener
<1>8. CASE Process!ShutdownReturns
  BY <1>8 DEF Process!ShutdownReturns
<1>9. CASE Process!TooLate
  BY <1>9 DEF Process!TooLate
<1>10. CASE Process!Select
  BY <1>10 DEF Process!Select
<1>11. CASE Process!CloseFastListener
  BY <1>11 DEF Process!CloseFastListener
<1>12. CASE Process!Return
  <2>1. CASE Process!ServerStopped \/ Process!StopTraces \/ Process!StopHub \/ Process!StopCron
    BY <2>1 DEF Process!ServerStopped, Process!StopTraces, Process!StopHub, Process!StopCron, Process!MainGoes, Process!stopping
  <2>2. CASE Process!Exit
    \* Start has returned, so the watcher is done: either no connection is
    \* open, and the end of the process cuts none, or it is late.
    <3>1. Process!Open = {} \/ late
      BY <2>2 DEF Process!Exit
    <3>2. QED
      BY <2>2, <3>1 DEF Process!Exit, Process!End, Process!stopping
  <2>3. QED
    BY <1>12, <2>1, <2>2 DEF Process!Return
<1>13. CASE UNCHANGED Process!vars
  BY <1>13 DEF Process!vars, Process!stopping
<1>14. QED
  BY <1>1, <1>2, <1>3, <1>4, <1>5, <1>6, <1>7, <1>8, <1>9, <1>10, <1>11, <1>12,
     <1>13 DEF Process!Next, Process!Shutdown

\* A stop of serveHTTPs is graceful for any number of connections: none that was
\* accepted is cut before the deadline of Shutdown, and a stop that is said to
\* have succeeded has left none open.
THEOREM StopIsGraceful ==
  Process!Spec => []StopsGracefully
<1>1. Process!Init => StopInv
  BY StopInvInit
<1>2. StopInv /\ [Process!Next]_(Process!vars) => StopInv'
  BY StopInvStep
<1>3. StopInv => StopsGracefully
  BY DEF StopInv, Types, ShutdownInOrder, NobodyIsAhead, CutAtTheEnd, StopsGracefully,
         Process!StopsGracefully
<1>4. QED
  BY <1>1, <1>2, <1>3, PTL DEF Process!Spec

(***************************************************************************)
(* The scheduler.                                                          *)
(***************************************************************************)
\* The engine's entries have the IDs it gave them, each pattern is listed with
\* an entry of its own, and every entry is listed or was hidden by a later one.
TableInv ==
  /\ made \in Nat
  /\ IsFiniteSet(DOMAIN entries) /\ DOMAIN entries \subseteq 1 .. made
  /\ total = Cardinality(DOMAIN entries)
  /\ \A p \in DOMAIN handlerList :
       handlerList[p] \in DOMAIN entries /\ entries[handlerList[p]] = p
  /\ \A e \in DOMAIN entries :
       \/ entries[e] \in again
       \/ entries[e] \in DOMAIN handlerList /\ handlerList[entries[e]] = e

\* The scheduler counts its entries as we do.
LEMMA SchedulerCounts == \A S : Scheduler!Cardinality(S) = Cardinality(S)
  BY DEF Scheduler!Cardinality, Cardinality, Scheduler!IsFiniteSet, IsFiniteSet

\* A new entry gets an ID no entry has; a listed pattern's first one is hidden.
LEMMA RegisterKeepsTable ==
  ASSUME TableInv, NEW p \in Pattern, Scheduler!RegisterScheduler(p)
  PROVE  TableInv'
<1> DEFINE e == made + 1
<1>1. /\ made' = e /\ total' = total + 1 /\ made \in Nat
      /\ entries' = Scheduler!With(entries, e, p)
      /\ handlerList' = Scheduler!With(handlerList, p, e)
      /\ again \subseteq again'
      /\ p \in DOMAIN handlerList => p \in again'
  BY DEF Scheduler!RegisterScheduler, TableInv
<1>2. e \notin DOMAIN entries /\ e \in Nat /\ DOMAIN entries \cup {e} \subseteq 1 .. e
  BY <1>1 DEF TableInv
<1> HIDE DEF e
<1>3. /\ DOMAIN entries' = DOMAIN entries \cup {e}
      /\ entries'[e] = p
      /\ \A d \in DOMAIN entries : entries'[d] = entries[d]
  BY <1>1, <1>2 DEF Scheduler!With
<1>4. /\ DOMAIN handlerList' = DOMAIN handlerList \cup {p}
      /\ handlerList'[p] = e
      /\ \A q \in DOMAIN handlerList : q # p => handlerList'[q] = handlerList[q]
  BY <1>1 DEF Scheduler!With
<1>5. /\ IsFiniteSet(DOMAIN entries')
      /\ total' = Cardinality(DOMAIN entries')
  BY <1>1, <1>2, <1>3, FS_AddElement DEF TableInv
<1>6. ASSUME NEW q \in DOMAIN handlerList'
      PROVE  handlerList'[q] \in DOMAIN entries' /\ entries'[handlerList'[q]] = q
  BY <1>3, <1>4 DEF TableInv
<1>7. ASSUME NEW d \in DOMAIN entries'
      PROVE  \/ entries'[d] \in again'
             \/ entries'[d] \in DOMAIN handlerList' /\ handlerList'[entries'[d]] = d
  <2>1. CASE d = e
    BY <1>3, <1>4, <2>1
  <2>2. CASE d # e
    <3>1. d \in DOMAIN entries /\ entries'[d] = entries[d]
      BY <1>3, <2>2
    <3>2. QED
      BY <1>1, <1>4, <3>1 DEF TableInv
  <2>3. QED
    BY <2>1, <2>2
<1>8. QED
  BY <1>1, <1>2, <1>3, <1>5, <1>6, <1>7 DEF TableInv

\* Removing a pattern removes the entry it is listed with, and no other.
LEMMA RemoveKeepsTable ==
  ASSUME TableInv, NEW p \in Pattern, Scheduler!RemoveScheduler(p)
  PROVE  TableInv'
<1> DEFINE e == handlerList[p]
<1>1. /\ made' = made /\ again' = again /\ total' = total - 1
      /\ p \in DOMAIN handlerList
      /\ entries' = Scheduler!Without(entries, e)
      /\ handlerList' = Scheduler!Without(handlerList, p)
  BY DEF Scheduler!RemoveScheduler
<1>2. e \in DOMAIN entries /\ entries[e] = p
  BY <1>1 DEF TableInv
<1> HIDE DEF e
<1>3. /\ DOMAIN entries' = DOMAIN entries \ {e}
      /\ \A d \in DOMAIN entries \ {e} : entries'[d] = entries[d]
      /\ DOMAIN handlerList' = DOMAIN handlerList \ {p}
      /\ \A q \in DOMAIN handlerList \ {p} : handlerList'[q] = handlerList[q]
  BY <1>1 DEF Scheduler!Without
<1>4. /\ IsFiniteSet(DOMAIN entries')
      /\ total' = Cardinality(DOMAIN entries')
  BY <1>1, <1>2, <1>3, FS_RemoveElement DEF TableInv
<1>5. ASSUME NEW q \in DOMAIN handlerList'
      PROVE  handlerList'[q] \in DOMAIN entries' /\ entries'[handlerList'[q]] = q
  BY <1>2, <1>3 DEF TableInv
<1>6. ASSUME NEW d \in DOMAIN entries'
      PROVE  \/ entries'[d] \in again'
             \/ entries'[d] \in DOMAIN handlerList' /\ handlerList'[entries'[d]] = d
  <2>1. d \in DOMAIN entries /\ d # e /\ entries'[d] = entries[d]
    BY <1>3
  <2>2. CASE entries[d] \in again
    BY <1>1, <2>1, <2>2
  <2>3. CASE entries[d] \in DOMAIN handlerList /\ handlerList[entries[d]] = d
    <3>1. entries[d] # p
      BY <2>1, <2>3 DEF e
    <3>2. QED
      BY <1>3, <2>1, <2>3, <3>1
  <2>4. QED
    BY <2>1, <2>2, <2>3 DEF TableInv
<1>7. DOMAIN entries' \subseteq 1 .. made'
  BY <1>1, <1>3 DEF TableInv
<1>8. made' \in Nat
  BY <1>1 DEF TableInv
<1>9. QED
  BY <1>4, <1>5, <1>6, <1>7, <1>8 DEF TableInv

\* A schedule that runs can be removed, unless its pattern was registered again
\* while it was listed, and the total counts them all.
THEOREM SchedulesCanBeRemoved == Scheduler!Spec => []SchedulesAreListed
<1>1. Scheduler!Init => TableInv
  <2> SUFFICES ASSUME Scheduler!Init
               PROVE  TableInv
    OBVIOUS
  <2>1. /\ DOMAIN entries = {} /\ DOMAIN handlerList = {} /\ made = 0 /\ total = 0
    BY DEF Scheduler!Init
  <2>2. QED
    BY <2>1, FS_EmptySet DEF TableInv
<1>2. TableInv /\ [Scheduler!Next]_(Scheduler!vars) => TableInv'
  <2> SUFFICES ASSUME TableInv, [Scheduler!Next]_(Scheduler!vars)
               PROVE  TableInv'
    OBVIOUS
  <2>1. CASE UNCHANGED Scheduler!tableVars
    BY <2>1 DEF TableInv, Scheduler!tableVars
  <2>2. ASSUME Scheduler!Start \/ Scheduler!Stop
        PROVE  UNCHANGED Scheduler!tableVars
    BY <2>2 DEF Scheduler!Start, Scheduler!Stop
  <2>3. ASSUME NEW j \in Job,
               \/ \E e \in DOMAIN entries : Scheduler!Run(j, e)
               \/ Scheduler!HandlerReturns(j) \/ Scheduler!Receive(j)
               \/ Scheduler!TimeOut(j)
        PROVE  UNCHANGED Scheduler!tableVars
    BY <2>3 DEF Scheduler!Run, Scheduler!HandlerReturns, Scheduler!Receive,
                Scheduler!TimeOut
  <2>4. QED
    BY <2>1, <2>2, <2>3, RegisterKeepsTable, RemoveKeepsTable
       DEF Scheduler!Next, Scheduler!vars
<1>3. TableInv => SchedulesAreListed
  BY SchedulerCounts DEF TableInv, SchedulesAreListed, Scheduler!SchedulesAreListed
<1>4. QED
  BY <1>1, <1>2, <1>3, PTL DEF Scheduler!Spec

(***************************************************************************)
(* The subscriber.                                                         *)
(***************************************************************************)
\* What lastID has passed was tried, and so was what the reply held up to the
\* message the subscriber is at; what succeeded is not after lastID.
SubscriberInv ==
  /\ published \in Nat /\ lastID \in Nat /\ at \in Nat
  /\ 1 .. lastID \subseteq tried
  /\ acted \subseteq 1 .. lastID
  /\ subscriber = "acting" =>
       lastID < at /\ (lastID + 1) .. (at - 1) \subseteq tried

\* A subscriber passes over no message untried, and the function is not called
\* again with one for which it succeeded.
THEOREM NoMessageIsPassedOver == Stream!Spec => []TriedAndDoneOnce
<1>1. Stream!Init => SubscriberInv
  BY DEF Stream!Init, SubscriberInv
<1>2. SubscriberInv /\ [Stream!Next]_(Stream!vars) => SubscriberInv'
  <2> SUFFICES ASSUME SubscriberInv, [Stream!Next]_(Stream!vars)
               PROVE  SubscriberInv'
    OBVIOUS
  <2> USE DEF SubscriberInv
  <2>1. CASE Stream!Publish
    BY <2>1 DEF Stream!Publish, Stream!batch, Stream!history
  <2>2. CASE Stream!Cancel
    BY <2>2 DEF Stream!Cancel, Stream!batch, Stream!history
  <2>3. CASE Stream!Loop
    BY <2>3 DEF Stream!Loop, Stream!batch, Stream!history
  <2>4. CASE Stream!Read
    BY <2>4 DEF Stream!Read, Stream!history
  <2>5. CASE Stream!ReadFails
    BY <2>5 DEF Stream!ReadFails, Stream!batch, Stream!history
  <2>6. CASE Stream!Act
    BY <2>6 DEF Stream!Act
  <2>7. CASE Stream!ActFails
    BY <2>7 DEF Stream!ActFails
  <2>8. CASE Stream!BatchDone
    BY <2>8 DEF Stream!BatchDone, Stream!batch, Stream!history
  <2>9. CASE UNCHANGED Stream!vars
    BY <2>9 DEF Stream!vars, Stream!batch, Stream!history
  <2>10. QED
    BY <2>1, <2>2, <2>3, <2>4, <2>5, <2>6, <2>7, <2>8, <2>9
       DEF Stream!Next, Stream!Subscriber
<1>3. SubscriberInv => TriedAndDoneOnce
  BY DEF SubscriberInv, TriedAndDoneOnce, Stream!TriedAndDoneOnce
<1>4. QED
  BY <1>1, <1>2, <1>3, PTL DEF Stream!Spec

(***************************************************************************)
(* A bulk.                                                                 *)
(***************************************************************************)
BulkTypes ==
  /\ sent \in 0 .. Total
  /\ jobs \in Seq(1 .. Total)
  /\ zipper \in {"sending", "waiting", "zipping", "returned", "failed"}
  /\ generating \in [Worker -> 1 .. Total \cup {Nil}]
  /\ idle \subseteq Worker
  /\ generated \in [1 .. Total -> {"ok", "error", Nil}]
  /\ nextFile \in 1 .. (Total + 1)
  /\ archive \in Seq([gen : 1 .. Total, whole : BOOLEAN])

\* A generator without a result is not sent yet, waits in the channel, or is
\* with a worker; a worker ends when there is nothing left to take.
WorkInv ==
  /\ \A g \in 1 .. Total : \/ generated[g] # Nil \/ g > sent \/ g \in Range(jobs)
                           \/ \E w \in Worker : generating[w] = g
  /\ zipper # "sending" => sent = Total
  /\ idle # {} => jobs = << >> /\ zipper # "sending"
  /\ \A w \in idle : generating[w] = Nil
  /\ zipper \in {"zipping", "returned", "failed"} => idle = Worker

\* The archive holds files of generators before the one GenerateZip is at.
ArchiveInv ==
  /\ zipper \in {"sending", "waiting"} => archive = << >>
  /\ \A i \in DOMAIN archive : generated[archive[i].gen] = "ok" /\ archive[i].gen < nextFile
  /\ \A i, j \in DOMAIN archive : i < j => archive[i].gen < archive[j].gen

BulkInv == BulkTypes /\ WorkInv /\ ArchiveInv

\* Sending a job takes it from those that are not sent to the channel.
LEMMA SendKeepsBulk ==
  ASSUME BulkInv, Files!Send
  PROVE  BulkInv'
<1> USE JobsAssumption
<1>1. /\ zipper = "sending" /\ sent' = sent + 1 /\ jobs' = Append(jobs, sent + 1)
      /\ UNCHANGED <<zipper, generating, idle, generated, nextFile, archive>>
      /\ sent + 1 \in 1 .. Total
  BY DEF Files!Send, BulkInv, BulkTypes
<1>2. PICK g \in 1 .. Total : g = sent + 1
  BY <1>1
<1>3. jobs' \in Seq(1 .. Total) /\ Range(jobs') = Range(jobs) \cup {g}
  <2>1. jobs \in Seq(1 .. Total) /\ jobs' = Append(jobs, g)
    BY <1>1, <1>2 DEF BulkInv, BulkTypes
  <2>2. QED
    BY <2>1, RangeAppend, AppendProperties
<1>4. BulkTypes'
  BY <1>1, <1>3 DEF BulkInv, BulkTypes
<1>5. WorkInv'
  <2>1. idle = {}
    BY <1>1 DEF BulkInv, WorkInv
  <2>2. ASSUME NEW k \in 1 .. Total
        PROVE  \/ generated'[k] # Nil \/ k > sent' \/ k \in Range(jobs')
               \/ \E w \in Worker : generating'[w] = k
    <3>1. k > sent => k = g \/ k > sent'
      BY <1>1, <1>2 DEF BulkInv, BulkTypes
    <3>2. QED
      BY <1>1, <1>3, <3>1 DEF BulkInv, WorkInv
  <2>3. QED
    BY <1>1, <2>1, <2>2 DEF WorkInv
<1>6. ArchiveInv'
  BY <1>1 DEF BulkInv, ArchiveInv
<1>7. QED
  BY <1>4, <1>5, <1>6 DEF BulkInv

\* A worker takes a job from the channel, or ends when there is none.
LEMMA TakeKeepsBulk ==
  ASSUME BulkInv, NEW w \in Worker, Files!Take(w)
  PROVE  BulkInv'
<1> USE JobsAssumption
<1>1. /\ w \notin idle /\ generating[w] = Nil
      /\ UNCHANGED <<sent, zipper, generated, nextFile, archive>>
  BY DEF Files!Take
<1>2. ArchiveInv'
  BY <1>1 DEF BulkInv, ArchiveInv
<1>3. CASE /\ jobs # << >> /\ generating' = [generating EXCEPT ![w] = Head(jobs)]
           /\ jobs' = Tail(jobs) /\ UNCHANGED idle
  <2>1. PICK g \in 1 .. Total : g = Head(jobs)
    BY <1>3, HeadTailProperties DEF BulkInv, BulkTypes
  <2>2. jobs' \in Seq(1 .. Total) /\ Range(jobs) = {g} \cup Range(jobs')
    BY <1>3, <2>1, RangeHeadTail, HeadTailProperties DEF BulkInv, BulkTypes
  <2>3. /\ generating'[w] = g /\ generating' \in [Worker -> 1 .. Total \cup {Nil}]
        /\ \A v \in Worker : v # w => generating'[v] = generating[v]
    BY <1>3, <2>1 DEF BulkInv, BulkTypes
  <2>4. idle = {}
    BY <1>3 DEF BulkInv, WorkInv
  <2>5. BulkTypes'
    BY <1>1, <1>3, <2>2, <2>3 DEF BulkInv, BulkTypes
  <2>6. WorkInv'
    <3>1. ASSUME NEW k \in 1 .. Total
          PROVE  \/ generated'[k] # Nil \/ k > sent' \/ k \in Range(jobs')
                 \/ \E v \in Worker : generating'[v] = k
      BY <1>1, <2>2, <2>3 DEF BulkInv, WorkInv
    <3>2. zipper' \in {"zipping", "returned", "failed"} => idle' = Worker
      BY <1>1, <1>3 DEF BulkInv, WorkInv
    <3>3. QED
      BY <1>1, <1>3, <2>4, <3>1, <3>2 DEF BulkInv, WorkInv
  <2>7. QED
    BY <1>2, <2>5, <2>6 DEF BulkInv
<1>4. CASE /\ jobs = << >> /\ zipper # "sending" /\ idle' = idle \cup {w}
           /\ UNCHANGED <<jobs, generating>>
  <2>1. BulkTypes'
    BY <1>1, <1>4 DEF BulkInv, BulkTypes
  <2>2. WorkInv'
    BY <1>1, <1>4 DEF BulkInv, WorkInv, BulkTypes
  <2>3. QED
    BY <1>2, <2>1, <2>2 DEF BulkInv
<1>5. QED
  BY <1>3, <1>4 DEF Files!Take

\* A worker leaves a result for the generator it had.
LEMMA GenerateKeepsBulk ==
  ASSUME BulkInv, NEW w \in Worker, Files!Generate(w)
  PROVE  BulkInv'
<1> USE JobsAssumption
<1>1. /\ generating[w] # Nil /\ generating' = [generating EXCEPT ![w] = Nil]
      /\ UNCHANGED <<sent, jobs, zipper, idle, nextFile, archive>>
  BY DEF Files!Generate
<1>2. PICK result \in {"ok", "error"} :
        generated' = [generated EXCEPT ![generating[w]] = result]
  BY DEF Files!Generate
<1>3. PICK g \in 1 .. Total : g = generating[w]
  BY <1>1 DEF BulkInv, BulkTypes
<1>4. /\ generated'[g] = result /\ result # Nil
      /\ \A k \in 1 .. Total : k # g => generated'[k] = generated[k]
      /\ generated' \in [1 .. Total -> {"ok", "error", Nil}]
      /\ \A v \in Worker : v # w => generating'[v] = generating[v]
      /\ generating' \in [Worker -> 1 .. Total \cup {Nil}]
      /\ generating'[w] = Nil
  BY <1>1, <1>2, <1>3 DEF BulkInv, BulkTypes
<1>5. w \notin idle /\ zipper \in {"sending", "waiting"} /\ archive = << >>
  BY <1>1 DEF BulkInv, BulkTypes, WorkInv, ArchiveInv
<1>6. BulkTypes'
  BY <1>1, <1>4 DEF BulkInv, BulkTypes
<1>7. WorkInv'
  <2>1. ASSUME NEW k \in 1 .. Total
        PROVE  \/ generated'[k] # Nil \/ k > sent' \/ k \in Range(jobs')
               \/ \E v \in Worker : generating'[v] = k
    <3>1. CASE k = g
      BY <1>4, <3>1
    <3>2. CASE k # g
      BY <1>1, <1>3, <1>4, <3>2 DEF BulkInv, WorkInv
    <3>3. QED
      BY <3>1, <3>2
  <2>2. QED
    BY <1>1, <1>4, <1>5, <2>1 DEF BulkInv, BulkTypes, WorkInv
<1>8. ArchiveInv'
  BY <1>1, <1>5 DEF ArchiveInv
<1>9. QED
  BY <1>6, <1>7, <1>8 DEF BulkInv

\* A file is put behind those of earlier generators.
LEMMA ZipKeepsBulk ==
  ASSUME BulkInv, Files!Zip
  PROVE  BulkInv'
<1> USE JobsAssumption
<1>1. /\ zipper = "zipping" /\ nextFile' = nextFile + 1 /\ nextFile \in 1 .. Total
      /\ UNCHANGED <<sent, jobs, zipper, generating, idle, generated>>
  BY DEF Files!Zip, BulkInv, BulkTypes
<1>2. WorkInv'
  BY <1>1 DEF BulkInv, WorkInv
<1>3. CASE archive' = archive
  <2>1. BulkTypes'
    BY <1>1, <1>3 DEF BulkInv, BulkTypes
  <2>2. \A i \in DOMAIN archive : archive[i].gen \in 1 .. Total
    <3> DEFINE F == [gen : 1 .. Total, whole : BOOLEAN]
    <3>1. archive \in Seq(F) /\ \A f \in F : f.gen \in 1 .. Total
      BY DEF BulkInv, BulkTypes
    <3> HIDE DEF F
    <3>2. \A i \in DOMAIN archive : archive[i] \in F
      BY <3>1, ElementOfSeq, LenProperties
    <3>3. QED
      BY <3>1, <3>2
  <2>3. ArchiveInv'
    BY <1>1, <1>3, <2>2 DEF BulkInv, ArchiveInv
  <2>4. QED
    BY <1>2, <2>1, <2>3 DEF BulkInv
<1>4. CASE /\ generated[nextFile] = "ok"
           /\ \E whole \in BOOLEAN :
                archive' = Append(archive, [gen |-> nextFile, whole |-> whole])
  <2>1. PICK whole \in BOOLEAN :
          archive' = Append(archive, [gen |-> nextFile, whole |-> whole])
    BY <1>4
  <2> DEFINE F == [gen : 1 .. Total, whole : BOOLEAN]
             f == [gen |-> nextFile, whole |-> whole]
  <2>2. /\ f \in F /\ f.gen = nextFile /\ archive \in Seq(F)
        /\ \A k \in F : k.gen \in 1 .. Total
    BY <1>1 DEF BulkInv, BulkTypes
  <2> HIDE DEF f, F
  <2>3. /\ archive' \in Seq(F) /\ Len(archive') = Len(archive) + 1
        /\ \A i \in 1 .. Len(archive) : archive'[i] = archive[i]
        /\ archive'[Len(archive) + 1] = f
        /\ Len(archive) \in Nat
    BY <2>1, <2>2, AppendProperties, LenProperties DEF f
  <2>4. /\ DOMAIN archive = 1 .. Len(archive)
        /\ DOMAIN archive' = 1 .. (Len(archive) + 1)
        /\ \A i \in DOMAIN archive : archive[i].gen \in 1 .. Total
    BY <2>2, <2>3, LenProperties, ElementOfSeq
  <2>5. \A i \in DOMAIN archive : generated[archive[i].gen] = "ok"
                                  /\ archive[i].gen < nextFile
    BY DEF BulkInv, ArchiveInv
  <2>6. BulkTypes'
    BY <1>1, <2>3 DEF BulkInv, BulkTypes, F
  <2>7. ASSUME NEW i \in DOMAIN archive'
        PROVE  generated'[archive'[i].gen] = "ok" /\ archive'[i].gen < nextFile'
    <3>1. CASE i \in DOMAIN archive
      BY <1>1, <2>3, <2>4, <2>5, <3>1
    <3>2. CASE i = Len(archive) + 1
      BY <1>1, <1>4, <2>2, <2>3, <3>2
    <3>3. QED
      BY <2>3, <2>4, <3>1, <3>2
  <2>8. ASSUME NEW i \in DOMAIN archive', NEW j \in DOMAIN archive', i < j
        PROVE  archive'[i].gen < archive'[j].gen
    <3>1. i \in DOMAIN archive
      BY <2>3, <2>4, <2>8
    <3>2. CASE j \in DOMAIN archive
      BY <2>3, <2>4, <2>8, <3>1, <3>2 DEF BulkInv, ArchiveInv
    <3>3. CASE j = Len(archive) + 1
      BY <2>2, <2>3, <2>4, <2>5, <3>1, <3>3
    <3>4. QED
      BY <2>3, <2>4, <3>2, <3>3
  <2>9. ArchiveInv'
    BY <1>1, <2>7, <2>8 DEF ArchiveInv
  <2>10. QED
    BY <1>2, <2>6, <2>9 DEF BulkInv
<1>5. QED
  BY <1>3, <1>4 DEF Files!Zip

\* Once the workers have ended every generator has its result, and the archive
\* holds the files of those that succeeded, at most once and in their order.
THEOREM BulkIsComplete == Files!Spec => []ResultsAreComplete
<1> USE JobsAssumption
<1>1. Files!Init => BulkInv
  <2> SUFFICES ASSUME Files!Init
               PROVE  BulkInv
    OBVIOUS
  <2>1. BulkTypes
    BY DEF Files!Init, Files!Gen, BulkTypes
  <2>2. WorkInv /\ ArchiveInv
    BY DEF Files!Init, Files!Gen, WorkInv, ArchiveInv
  <2>3. QED
    BY <2>1, <2>2 DEF BulkInv
<1>2. BulkInv /\ [Files!Next]_(Files!vars) => BulkInv'
  <2> SUFFICES ASSUME BulkInv, [Files!Next]_(Files!vars)
               PROVE  BulkInv'
    OBVIOUS
  <2>1. CASE Files!Close \/ Files!Wait \/ Files!CloseZip
    BY <2>1 DEF Files!Close, Files!Wait, Files!CloseZip, BulkInv, BulkTypes, WorkInv,
                ArchiveInv
  <2>2. CASE UNCHANGED Files!vars
    BY <2>2 DEF Files!vars, BulkInv, BulkTypes, WorkInv, ArchiveInv
  <2>3. QED
    BY <2>1, <2>2, SendKeepsBulk, ZipKeepsBulk, TakeKeepsBulk, GenerateKeepsBulk
       DEF Files!Next
<1>3. BulkInv => ResultsAreComplete
  <2> SUFFICES ASSUME BulkInv, zipper \in {"zipping", "returned", "failed"}
               PROVE  /\ \A g \in 1 .. Total : generated[g] # Nil
                      /\ \A w \in Worker : generating[w] = Nil
    BY DEF ResultsAreComplete, Files!ResultsAreComplete, Files!Gen, BulkInv, ArchiveInv
  <2>1. idle = Worker /\ sent = Total /\ \A w \in Worker : generating[w] = Nil
    BY DEF BulkInv, WorkInv
  <2>2. jobs = << >>
    BY <2>1, ImportAssumption DEF BulkInv, WorkInv
  <2>3. Range(jobs) = {}
    BY <2>2 DEF Range
  <2>4. ASSUME NEW g \in 1 .. Total
        PROVE  generated[g] # Nil
    BY <2>1, <2>3 DEF BulkInv, WorkInv
  <2>5. QED
    BY <2>1, <2>4
<1>4. QED
  BY <1>1, <1>2, <1>3, PTL DEF Files!Spec

(***************************************************************************)
(* Side by side.                                                           *)
(***************************************************************************)
\* A behaviour of what runs beside the requests is one of every component,
\* most of which stand still: what holds of the components holds of it.
THEOREM JobsRunTheComponents ==
  JobsSpec => Spec /\ Process!Spec /\ Scheduler!Spec /\ Stream!Spec /\ Files!Spec
<1>1. JobsInit => /\ Init /\ Process!Init /\ Scheduler!Init /\ Stream!Init /\ Files!Init
  BY DEF JobsInit
<1>2. [JobsNext]_jobVars => /\ [Next]_vars
                           /\ [Process!Next]_(Process!vars)
                           /\ [Scheduler!Next]_(Scheduler!vars)
                           /\ [Stream!Next]_(Stream!vars)
                           /\ [Files!Next]_(Files!vars)
  <2>1. ASSUME UNCHANGED importVars
        PROVE  UNCHANGED vars
    BY <2>1 DEF importVars, vars, fixed, workerVars, callerVars
  <2>2. ASSUME UNCHANGED processVars
        PROVE  UNCHANGED Process!vars
    BY <2>2 DEF processVars, Process!vars, Process!stopping
  <2>3. ASSUME UNCHANGED cronVars
        PROVE  UNCHANGED Scheduler!vars
    BY <2>3 DEF cronVars, Scheduler!vars, Scheduler!tableVars, Scheduler!runVars
  <2>4. ASSUME UNCHANGED streamVars
        PROVE  UNCHANGED Stream!vars
    BY <2>4 DEF streamVars, Stream!vars, Stream!batch, Stream!history
  <2>5. ASSUME UNCHANGED bulkVars
        PROVE  UNCHANGED Files!vars
    BY <2>5 DEF bulkVars, Files!vars
  <2>6. QED
    BY <2>1, <2>2, <2>3, <2>4, <2>5 DEF JobsNext, jobVars
<1>3. QED
  BY <1>1, <1>2, PTL DEF JobsSpec, Spec, Process!Spec, Scheduler!Spec, Stream!Spec,
                         Files!Spec

(***************************************************************************)
(* The import pipeline keeps its contract, and leaves nothing behind, for  *)
(* any number of rows and of workers and whatever fails.                   *)
(***************************************************************************)
USE DEF fixed, workerVars, callerVars, Goto

\* The row after one of the file is at most one past its end.
LEMMA Advance ==
  /\ 1 \in 1 .. Rows + 1
  /\ \A r \in Row : r + 1 \in 1 .. Rows + 1
BY ImportAssumption DEF Row

LEMMA TypeInit == Init => TypeOK
<1> SUFFICES ASSUME Init
             PROVE  TypeOK
  OBVIOUS
<1>1. next \in 1 .. Rows + 1
  BY Advance DEF Init
<1>2. success \subseteq Row /\ failed \subseteq Row
  BY DEF Init
<1>3. fate \in [Row -> {"unread", "taken", "kept", "undone", "lost"}]
  BY DEF Init
<1> QED
  BY <1>1, <1>2, <1>3 DEF Init, TypeOK

LEMMA TypeStep == 
  TypeOK /\ HandsMatchFates /\ RowsInOrder /\ [Next]_vars => TypeOK'
<1> SUFFICES ASSUME TypeOK, HandsMatchFates, RowsInOrder, [Next]_vars
             PROVE  TypeOK'
  OBVIOUS
<1> USE Advance DEF TypeOK
<1>1. CASE Read
  BY <1>1 DEF Read
<1>2. CASE CloseResults
  BY <1>2 DEF CloseResults
<1>3. CASE Return
  BY <1>3 DEF Return
<1>4. ASSUME NEW w \in Worker, Receive(w)
      PROVE  TypeOK'
  <2>1. next \in Row
    BY <1>4 DEF Receive, RowsInOrder
  <2>2. worker' \in [Worker -> {"receiving", "validating", "beginning",
                                "calling", "finishing", "sending", "done"}]
    BY <1>4 DEF Receive
  <2>3. fate' \in [Row -> {"unread", "taken", "kept", "undone", "lost"}]
    BY <1>4 DEF Receive
  <2> QED
    BY <1>4, <2>1, <2>2, <2>3 DEF Receive
<1>5. ASSUME NEW w \in Worker, Validate(w)
      PROVE  TypeOK'
  BY <1>5 DEF Validate
<1>6. ASSUME NEW w \in Worker, Begin(w)
      PROVE  TypeOK'
  BY <1>6 DEF Begin
<1>7. ASSUME NEW w \in Worker, CallFn(w)
      PROVE  TypeOK'
  BY <1>7 DEF CallFn
<1>8. ASSUME NEW w \in Worker, Finish(w)
      PROVE  TypeOK'
  <2>1. fate' \in [Row -> {"unread", "taken", "kept", "undone", "lost"}]
    BY <1>8 DEF Finish
  <2>2. crashed' \in BOOLEAN
    BY <1>8 DEF Finish
  <2> QED
    BY <1>8, <2>1, <2>2 DEF Finish
<1>9. ASSUME NEW w \in Worker, Send(w)
      PROVE  TypeOK'
  <2>1. row[w] \in Row
    BY <1>9 DEF Send, HandsMatchFates
  <2>2. /\ caller' \in {"collecting", "returned", "panicked"}
        /\ success' \subseteq Row
        /\ failed' \subseteq Row
    BY <1>9, <2>1 DEF Send, Collect
  <2> QED
    BY <1>9, <2>2 DEF Send
<1>10. ASSUME NEW w \in Worker, WorkerDone(w)
       PROVE  TypeOK'
  BY <1>10 DEF WorkerDone
<1>11. CASE UNCHANGED vars
  BY <1>11 DEF vars
<1> QED
  BY <1>1, <1>2, <1>3, <1>4, <1>5, <1>6, <1>7, <1>8, <1>9, <1>10, <1>11
     DEF Next, Work

-----------------------------------------------------------------------------
(* The inductive invariant.  A step of one worker changes what is known of  *)
(* that worker and of the row it has in hand, and of no other.              *)

LEMMA InvInit == Init => PipelineInv
<1> SUFFICES ASSUME Init
             PROVE  PipelineInv
  OBVIOUS
<1>1. TypeOK
  BY TypeInit
<1>2. HandsMatchFates
  BY DEF Init, HandsMatchFates, InHand
<1>3. OneHandEach /\ ClosedInOrder
  BY DEF Init, OneHandEach, ClosedInOrder
<1>4. RowsInOrder
  BY DEF Init, RowsInOrder
<1>5. ListsMatchFates
  BY DEF Init, ListsMatchFates
<1> QED
  BY <1>1, <1>2, <1>3, <1>4, <1>5 DEF PipelineInv

\* The steps that leave workers, rows and results alone.
LEMMA QuietStep ==
  ASSUME PipelineInv, Read \/ CloseResults \/ Return \/ UNCHANGED vars
  PROVE  /\ HandsMatchFates' /\ OneHandEach' /\ RowsInOrder'
         /\ ListsMatchFates' /\ ClosedInOrder'
<1> USE DEF PipelineInv
<1>1. UNCHANGED <<workerVars, fate, success, failed>>
  BY DEF Read, CloseResults, Return, vars
<1>2. HandsMatchFates' /\ OneHandEach'
  BY <1>1 DEF HandsMatchFates, OneHandEach, InHand
<1>3. RowsInOrder'
  <2>1. CASE Read
    <3>1. next' \in Nat /\ next \in Nat /\ next' >= next
      BY <2>1, ImportAssumption DEF Read, TypeOK
    <3>2. \A r \in Row : r >= next' => r >= next
      BY <3>1, ImportAssumption DEF Row
    <3>3. reader' = "offering" => next' \in Row
      BY <2>1 DEF Read
    <3> QED
      BY <1>1, <3>2, <3>3 DEF RowsInOrder
  <2>2. CASE UNCHANGED <<next, reader>>
    BY <1>1, <2>2 DEF RowsInOrder
  <2> QED
    BY <2>1, <2>2 DEF CloseResults, Return, vars
<1>4. ListsMatchFates'
  <2>1. caller = "panicked" => caller' = "panicked"
    BY DEF Read, CloseResults, Return, vars
  <2> QED
    BY <1>1, <2>1 DEF ListsMatchFates
<1>5. ClosedInOrder'
  <2>1. CASE Read
    BY <1>1, <2>1 DEF Read, ClosedInOrder
  <2>2. CASE CloseResults
    BY <2>2 DEF CloseResults, ClosedInOrder
  <2>3. CASE Return
    BY <2>3 DEF Return, ClosedInOrder
  <2>4. CASE UNCHANGED vars
    BY <2>4 DEF vars, ClosedInOrder
  <2> QED
    BY <2>1, <2>2, <2>3, <2>4
<1> QED
  BY <1>2, <1>3, <1>4, <1>5

\* A worker takes the row the reader offers.
LEMMA ReceiveStep ==
  ASSUME PipelineInv, NEW w \in Worker, Receive(w)
  PROVE  /\ HandsMatchFates' /\ OneHandEach' /\ RowsInOrder'
         /\ ListsMatchFates' /\ ClosedInOrder'
<1> USE DEF PipelineInv
<1>1. /\ next \in Row /\ fate[next] = "unread" /\ row[w] = Nil
      /\ next \in Nat /\ next' = next + 1
      /\ row' = [row EXCEPT ![w] = next]
      /\ fate' = [fate EXCEPT ![next] = "taken"]
      /\ UNCHANGED <<trx, results, caller, success, failed>>
  BY ImportAssumption DEF Receive, RowsInOrder, HandsMatchFates, Row
<1>2. next # Nil
  BY <1>1, ImportAssumption DEF Row
<1>3. \A v \in Worker : row[v] # Nil => row[v] # next
  BY <1>1 DEF HandsMatchFates, TypeOK, InHand
<1>4. \A v \in Worker \ {w} :
        /\ worker'[v] = worker[v] /\ row'[v] = row[v] /\ err'[v] = err[v]
        /\ row[v] # Nil => fate'[row[v]] = fate[row[v]]
  BY <1>1, <1>3 DEF Receive, TypeOK
<1>5. HandsMatchFates'
  <2>1. ASSUME NEW v \in Worker \ {w}
        PROVE  /\ worker'[v] \in {"receiving", "done"} <=> row'[v] = Nil
               /\ worker'[v] \in InHand => fate'[row'[v]] = "taken"
               /\ worker'[v] \in InHand \ {"finishing"} => err'[v] = "none"
               /\ worker'[v] = "sending" =>
                    fate'[row'[v]] \in IF err'[v] = "none"
                                       THEN {"kept", "lost"} ELSE {"undone"}
               /\ trx'[v] # "none" => worker'[v] \in {"calling", "finishing"}
    BY <1>1, <1>4 DEF HandsMatchFates, InHand
  <2>2. /\ worker'[w] \in {"validating", "beginning"}
        /\ row'[w] = next /\ fate'[next] = "taken" /\ err'[w] = "none"
        /\ trx'[w] = "none"
    BY <1>1 DEF Receive, TypeOK, HandsMatchFates
  <2> QED
    BY <1>2, <2>1, <2>2 DEF HandsMatchFates, InHand
<1>6. OneHandEach'
  BY <1>1, <1>3 DEF OneHandEach, TypeOK
<1>7. RowsInOrder'
  <2>1. \A r \in Row : r >= next' => r >= next /\ r # next
    BY <1>1, ImportAssumption DEF Row
  <2> QED
    BY <1>1, <2>1 DEF RowsInOrder, Receive, TypeOK
<1>8. ListsMatchFates'
  <2>1. next \notin success /\ next \notin failed
    BY <1>1 DEF ListsMatchFates
  <2>2. \A r \in Row : r # next => fate'[r] = fate[r]
    BY <1>1 DEF TypeOK
  <2>3. success' \subseteq {r \in Row : fate'[r] \in {"kept", "lost"}}
    BY <1>1, <2>1, <2>2 DEF ListsMatchFates
  <2>4. failed' \subseteq {r \in Row : fate'[r] = "undone"}
    BY <1>1, <2>1, <2>2 DEF ListsMatchFates
  <2>5. ASSUME NEW r \in Row
        PROVE  \/ fate'[r] = "unread"
               \/ r \in success' \cup failed'
               \/ \E v \in Worker : row'[v] = r
               \/ caller' = "panicked"
    <3>1. CASE r = next
      BY <1>1, <3>1 DEF TypeOK
    <3>2. CASE \E v \in Worker : row[v] = r
      <4>1. PICK v \in Worker : row[v] = r
        BY <3>2
      <4>2. v # w
        BY <1>1, <1>5, <4>1, ImportAssumption DEF Row
      <4> QED
        BY <1>4, <4>1, <4>2
    <3>3. CASE r # next /\ ~ \E v \in Worker : row[v] = r
      BY <1>1, <2>2, <3>3 DEF ListsMatchFates
    <3> QED
      BY <3>1, <3>2, <3>3
  <2> QED
    BY <2>3, <2>4, <2>5 DEF ListsMatchFates
<1>9. ClosedInOrder'
  BY <1>1 DEF ClosedInOrder, Receive, TypeOK
<1> QED
  BY <1>5, <1>6, <1>7, <1>8, <1>9

\* A worker goes on with the row it has in hand: to f, the fate of that row.
LEMMA HandStep ==
  ASSUME PipelineInv, NEW w \in Worker, worker[w] \in InHand,
         NEW l, NEW f,
         worker' = [worker EXCEPT ![w] = l],
         fate' = [fate EXCEPT ![row[w]] = f],
         \A v \in Worker \ {w} : err'[v] = err[v] /\ trx'[v] = trx[v],
         \/ l \in InHand \ {"finishing"} /\ f = "taken" /\ err'[w] = "none"
         \/ l = "finishing" /\ f = "taken"
         \/ l = "sending" /\ f \in IF err'[w] = "none" THEN {"kept", "lost"}
                                                       ELSE {"undone"},
         trx'[w] # "none" => l \in {"calling", "finishing"},
         UNCHANGED <<next, reader, row, results, caller, success, failed>>
  PROVE  /\ HandsMatchFates' /\ OneHandEach' /\ RowsInOrder'
         /\ ListsMatchFates' /\ ClosedInOrder'
<1> USE DEF PipelineInv
<1>1. row[w] \in Row /\ row[w] # Nil /\ fate[row[w]] = "taken"
  BY DEF HandsMatchFates, InHand, TypeOK
<1>2. \A r \in Row : r # row[w] => fate'[r] = fate[r]
  BY DEF TypeOK
<1>3. fate'[row[w]] = f /\ f # "unread"
  BY <1>1 DEF TypeOK, InHand
<1>4. HandsMatchFates'
  <2>1. ASSUME NEW v \in Worker \ {w}
        PROVE  /\ worker'[v] \in {"receiving", "done"} <=> row'[v] = Nil
               /\ worker'[v] \in InHand => fate'[row'[v]] = "taken"
               /\ worker'[v] \in InHand \ {"finishing"} => err'[v] = "none"
               /\ worker'[v] = "sending" =>
                    fate'[row'[v]] \in IF err'[v] = "none"
                                       THEN {"kept", "lost"} ELSE {"undone"}
               /\ trx'[v] # "none" => worker'[v] \in {"calling", "finishing"}
    <3>1. worker'[v] = worker[v] /\ err'[v] = err[v] /\ trx'[v] = trx[v]
      BY DEF TypeOK
    <3>2. CASE row[v] = Nil
      BY <3>1, <3>2 DEF HandsMatchFates, InHand
    <3>3. CASE row[v] # Nil
      <4>1. fate'[row[v]] = fate[row[v]]
        BY <1>1, <1>2, <3>3 DEF OneHandEach, TypeOK
      <4> QED
        BY <3>1, <4>1 DEF HandsMatchFates, InHand
    <3> QED
      BY <3>2, <3>3
  <2>2. worker'[w] = l /\ row'[w] = row[w]
    BY DEF TypeOK
  <2>3. /\ worker'[w] \in {"receiving", "done"} <=> row'[w] = Nil
        /\ worker'[w] \in InHand => fate'[row'[w]] = "taken"
        /\ worker'[w] \in InHand \ {"finishing"} => err'[w] = "none"
        /\ worker'[w] = "sending" =>
             fate'[row'[w]] \in IF err'[w] = "none"
                                THEN {"kept", "lost"} ELSE {"undone"}
        /\ trx'[w] # "none" => worker'[w] \in {"calling", "finishing"}
    BY <1>1, <1>3, <2>2 DEF InHand
  <2> QED
    BY <2>1, <2>3 DEF HandsMatchFates
<1>5. OneHandEach'
  BY DEF OneHandEach
<1>6. RowsInOrder'
  BY <1>1, <1>2 DEF RowsInOrder
<1>7. ListsMatchFates'
  BY <1>1, <1>2, <1>3 DEF ListsMatchFates
<1>8. ClosedInOrder'
  BY DEF ClosedInOrder, InHand, TypeOK
<1> QED
  BY <1>4, <1>5, <1>6, <1>7, <1>8

LEMMA ValidateStep ==
  ASSUME PipelineInv, NEW w \in Worker, Validate(w)
  PROVE  /\ HandsMatchFates' /\ OneHandEach' /\ RowsInOrder'
         /\ ListsMatchFates' /\ ClosedInOrder'
<1> USE DEF PipelineInv
<1>1. /\ worker[w] \in InHand /\ fate[row[w]] = "taken"
      /\ err[w] = "none" /\ trx[w] = "none"
      /\ UNCHANGED <<next, reader, row, trx, results, caller, success, failed>>
  BY DEF Validate, HandsMatchFates, InHand
<1>2. CASE Goto(w, "beginning") /\ UNCHANGED <<err, fate>>
  <2>1. fate' = [fate EXCEPT ![row[w]] = "taken"]
    BY <1>1, <1>2 DEF TypeOK
  <2> QED
    BY <1>1, <1>2, <2>1, HandStep DEF InHand
<1>3. CASE /\ err' = [err EXCEPT ![w] = "data"]
           /\ fate' = [fate EXCEPT ![row[w]] = "undone"]
           /\ Goto(w, "sending")
  <2>1. err'[w] = "data" /\ \A v \in Worker \ {w} : err'[v] = err[v]
    BY <1>3 DEF TypeOK
  <2> QED
    BY <1>1, <1>3, <2>1, HandStep
<1> QED
  BY <1>2, <1>3 DEF Validate

LEMMA BeginStep ==
  ASSUME PipelineInv, NEW w \in Worker, Begin(w)
  PROVE  /\ HandsMatchFates' /\ OneHandEach' /\ RowsInOrder'
         /\ ListsMatchFates' /\ ClosedInOrder'
<1> USE DEF PipelineInv
<1>1. /\ worker[w] \in InHand /\ fate[row[w]] = "taken" /\ err[w] = "none"
      /\ worker' = [worker EXCEPT ![w] = "calling"]
      /\ UNCHANGED <<next, reader, row, err, results, caller, success, failed>>
  BY DEF Begin, HandsMatchFates, InHand
<1>2. fate' = [fate EXCEPT ![row[w]] = "taken"]
  BY <1>1 DEF Begin, TypeOK
<1>3. \A v \in Worker \ {w} : trx'[v] = trx[v]
  BY DEF Begin, TypeOK
<1> QED
  BY <1>1, <1>2, <1>3, HandStep DEF InHand

LEMMA CallFnStep ==
  ASSUME PipelineInv, NEW w \in Worker, CallFn(w)
  PROVE  /\ HandsMatchFates' /\ OneHandEach' /\ RowsInOrder'
         /\ ListsMatchFates' /\ ClosedInOrder'
<1> USE DEF PipelineInv
<1>1. /\ worker[w] \in InHand /\ fate[row[w]] = "taken"
      /\ worker' = [worker EXCEPT ![w] = "finishing"]
      /\ UNCHANGED <<next, reader, row, trx, results, caller, success, failed>>
  BY DEF CallFn, HandsMatchFates, InHand
<1>2. fate' = [fate EXCEPT ![row[w]] = "taken"]
  BY <1>1 DEF CallFn, TypeOK
<1>3. \A v \in Worker \ {w} : err'[v] = err[v]
  BY DEF CallFn, TypeOK
<1> QED
  BY <1>1, <1>2, <1>3, HandStep

LEMMA FinishStep ==
  ASSUME PipelineInv, NEW w \in Worker, Finish(w)
  PROVE  /\ HandsMatchFates' /\ OneHandEach' /\ RowsInOrder'
         /\ ListsMatchFates' /\ ClosedInOrder'
<1> USE DEF PipelineInv
<1>1. /\ worker[w] = "finishing" /\ worker[w] \in InHand
      /\ fate[row[w]] = "taken"
      /\ UNCHANGED <<next, reader, row, err, results, caller, success, failed>>
  BY DEF Finish, HandsMatchFates, InHand
<1>2. CASE UNCHANGED <<worker, trx, fate>>
  <2>1. worker' = [worker EXCEPT ![w] = "finishing"]
    BY <1>1, <1>2 DEF TypeOK
  <2>2. fate' = [fate EXCEPT ![row[w]] = "taken"]
    BY <1>1, <1>2 DEF TypeOK
  <2> QED
    BY <1>1, <1>2, <2>1, <2>2, HandStep
<1>3. CASE ~ UNCHANGED <<worker, trx, fate>>
  <2>1. PICK f \in IF err[w] # "none" THEN {"undone"}
                    ELSE {"kept"} \cup {g \in {"lost"} : CanFail} :
          fate' = [fate EXCEPT ![row[w]] = f]
    BY <1>3 DEF Finish
  <2>2. /\ trx' = [trx EXCEPT ![w] = "none"]
        /\ worker' = [worker EXCEPT ![w] = "sending"]
    BY <1>3 DEF Finish
  <2>3. trx'[w] = "none" /\ \A v \in Worker \ {w} : trx'[v] = trx[v]
    BY <2>2 DEF TypeOK
  <2>4. f \in IF err'[w] = "none" THEN {"kept", "lost"} ELSE {"undone"}
    BY <1>1, <2>1
  <2> QED
    BY <1>1, <2>1, <2>2, <2>3, <2>4, HandStep
<1> QED
  BY <1>2, <1>3

\* The caller takes the result of a worker, or panics on it.
LEMMA SendStep ==
  ASSUME PipelineInv, NEW w \in Worker, Send(w)
  PROVE  /\ HandsMatchFates' /\ OneHandEach' /\ RowsInOrder'
         /\ ListsMatchFates' /\ ClosedInOrder'
<1> USE DEF PipelineInv
<1>1. /\ worker[w] = "sending" /\ row[w] \in Row
      /\ fate[row[w]] \in IF err[w] = "none" THEN {"kept", "lost"}
                                             ELSE {"undone"}
      /\ row' = [row EXCEPT ![w] = Nil]
      /\ worker' = [worker EXCEPT ![w] = "receiving"]
      /\ UNCHANGED <<next, reader, trx, err, fate, results>>
  BY DEF Send, HandsMatchFates, TypeOK
<1>2. \A v \in Worker \ {w} : worker'[v] = worker[v] /\ row'[v] = row[v]
  BY <1>1 DEF TypeOK
<1>3. worker'[w] = "receiving" /\ row'[w] = Nil
  BY <1>1 DEF TypeOK
<1>4. HandsMatchFates'
  <2>1. trx[w] = "none"
    BY <1>1 DEF HandsMatchFates
  <2> QED
    BY <1>1, <1>2, <1>3, <2>1 DEF HandsMatchFates, InHand
<1>5. OneHandEach'
  BY <1>2, <1>3 DEF OneHandEach
<1>6. RowsInOrder'
  BY <1>1 DEF RowsInOrder
<1>7. ListsMatchFates'
  <2>1. \/ /\ err[w] = "none" /\ success' = success \cup {row[w]}
           /\ failed' = failed /\ caller' = caller
        \/ /\ err[w] # "none" /\ failed' = failed \cup {row[w]}
           /\ success' = success /\ caller' = caller
        \/ /\ caller' = "panicked" /\ success' = success /\ failed' = failed
    BY DEF Send, Collect
  <2>2. /\ success' \subseteq {r \in Row : fate'[r] \in {"kept", "lost"}}
        /\ failed' \subseteq {r \in Row : fate'[r] = "undone"}
    BY <1>1, <2>1 DEF ListsMatchFates
  <2>3. \A r \in Row : \/ fate'[r] = "unread"
                       \/ r \in success' \cup failed'
                       \/ \E v \in Worker : row'[v] = r
                       \/ caller' = "panicked"
    BY <1>1, <1>2, <2>1 DEF ListsMatchFates
  <2> QED
    BY <2>2, <2>3 DEF ListsMatchFates
<1>8. ClosedInOrder'
  <2>1. \A v \in Worker : worker'[v] = "done" => worker[v] = "done"
    BY <1>2, <1>3
  <2>2. results
    BY <1>1 DEF ClosedInOrder
  <2>3. caller' # "returned"
    BY DEF Send, Collect
  <2> QED
    BY <1>1, <2>1, <2>2, <2>3 DEF ClosedInOrder
<1> QED
  BY <1>4, <1>5, <1>6, <1>7, <1>8

LEMMA WorkerDoneStep ==
  ASSUME PipelineInv, NEW w \in Worker, WorkerDone(w)
  PROVE  /\ HandsMatchFates' /\ OneHandEach' /\ RowsInOrder'
         /\ ListsMatchFates' /\ ClosedInOrder'
<1> USE DEF PipelineInv, WorkerDone
<1>1. HandsMatchFates'
  BY DEF HandsMatchFates, InHand, TypeOK
<1>2. OneHandEach' /\ RowsInOrder' /\ ListsMatchFates'
  BY DEF OneHandEach, RowsInOrder, ListsMatchFates
<1>3. ClosedInOrder'
  BY DEF ClosedInOrder, TypeOK
<1> QED
  BY <1>1, <1>2, <1>3

LEMMA InvStep == PipelineInv /\ [Next]_vars => PipelineInv'
<1> SUFFICES ASSUME PipelineInv, [Next]_vars
             PROVE  PipelineInv'
  OBVIOUS
<1>1. TypeOK'
  BY TypeStep DEF PipelineInv
<1>2. /\ HandsMatchFates' /\ OneHandEach' /\ RowsInOrder'
      /\ ListsMatchFates' /\ ClosedInOrder'
  <2>1. CASE Read \/ CloseResults \/ Return \/ UNCHANGED vars
    BY <2>1, QuietStep
  <2>2. ASSUME NEW w \in Worker, Work(w)
        PROVE  /\ HandsMatchFates' /\ OneHandEach' /\ RowsInOrder'
               /\ ListsMatchFates' /\ ClosedInOrder'
    BY <2>2, ReceiveStep, ValidateStep, BeginStep, CallFnStep, FinishStep,
       SendStep, WorkerDoneStep DEF Work
  <2> QED
    BY <2>1, <2>2 DEF Next
<1> QED
  BY <1>1, <1>2 DEF PipelineInv

\* The worker of a row, the fate of the row and the lists of results agree in
\* every state of the pipeline (processEachData, processData).
THEOREM PipelineCorrect == Spec => []PipelineInv
<1>1. Init => PipelineInv
  BY InvInit
<1>2. PipelineInv /\ [Next]_vars => PipelineInv'
  BY InvStep
<1> QED
  BY <1>1, <1>2, PTL DEF Spec

\* The state of the pipeline has its type: in particular the reader never
\* offers a row the file does not have, and no worker handles one.
THEOREM TypeCorrect == Spec => []TypeOK
<1>1. PipelineInv => TypeOK
  BY DEF PipelineInv
<1> QED
  BY <1>1, PipelineCorrect, PTL

\* When an import returns, the reader and every worker have ended and no
\* transaction is open (the order of closing in processData).
THEOREM LeavesNothingBehind == Spec => []NothingLeftBehind
<1>1. PipelineInv => NothingLeftBehind
  <2> SUFFICES ASSUME PipelineInv, caller = "returned"
               PROVE  /\ reader = "closed"
                      /\ \A w \in Worker : worker[w] = "done" /\ trx[w] = "none"
    BY DEF NothingLeftBehind
  <2>1. \A w \in Worker : worker[w] = "done"
    BY DEF PipelineInv, ClosedInOrder
  <2>2. reader = "closed"
    BY <2>1, ImportAssumption DEF PipelineInv, ClosedInOrder
  <2>3. \A w \in Worker : trx[w] = "none"
    BY <2>1 DEF PipelineInv, HandsMatchFates
  <2> QED
    BY <2>1, <2>2, <2>3
<1> QED
  BY <1>1, PipelineCorrect, PTL

-----------------------------------------------------------------------------
(* The pipeline implements its contract.  A worker takes a row in Receive   *)
(* and settles it in Validate or Finish; while one has a row in hand the    *)
(* caller has not returned.                                                 *)

\* The caller returns only when every worker is done.
LEMMA BusyMeansOpen ==
  ASSUME PipelineInv, NEW w \in Worker, worker[w] # "done"
  PROVE  caller # "returned"
BY DEF PipelineInv, ClosedInOrder

LEMMA ContractInit == Init => Contract!Init
BY DEF Init, Contract!Init

\* What the caller returns is the complete account of the rows.
LEMMA ReturnStep ==
  ASSUME PipelineInv, Return
  PROVE  Contract!Return
<1> USE DEF PipelineInv
<1>1. /\ caller = "collecting" /\ caller' = "returned"
      /\ UNCHANGED <<fate, success, failed>>
  BY DEF Return
<1>2. \A w \in Worker : row[w] = Nil
  BY DEF Return, ClosedInOrder, HandsMatchFates
<1>3. \A r \in Row : fate[r] = "unread" \/ r \in success \cup failed
  BY <1>1, <1>2, ImportAssumption DEF ListsMatchFates, Row
<1>4. Contract!Are("taken") = {}
  BY <1>3 DEF ListsMatchFates, Contract!Are
<1>5. success = Contract!Are("kept") \cup Contract!Are("lost")
  BY <1>3 DEF ListsMatchFates, TypeOK, Contract!Are
<1>6. failed = Contract!Are("undone")
  BY <1>3 DEF ListsMatchFates, TypeOK, Contract!Are
<1> QED
  BY <1>1, <1>4, <1>5, <1>6 DEF Contract!Return

\* Every step of a worker takes a row, settles one or changes nothing that the
\* contract speaks of.
LEMMA WorkStep ==
  ASSUME PipelineInv, NEW w \in Worker, Work(w)
  PROVE  [Contract!Next]_(Contract!vars)
<1> USE DEF PipelineInv
<1>1. caller # "returned"
  <2>1. worker[w] # "done"
    BY DEF Work, Receive, Validate, Begin, CallFn, Finish, Send, WorkerDone
  <2> QED
    BY <2>1, BusyMeansOpen
<1>2. caller' # "returned"
  BY <1>1 DEF Work, Receive, Validate, Begin, CallFn, Finish, Send, WorkerDone,
              Collect
<1>3. CASE UNCHANGED fate
  BY <1>1, <1>2, <1>3 DEF Contract!vars
<1>4. CASE Receive(w)
  <2>1. next \in Row /\ Contract!Take(next)
    BY <1>1, <1>2, <1>4 DEF Receive, RowsInOrder, Contract!Take, Row
  <2> QED
    BY <1>1, <2>1 DEF Contract!Next
<1>5. ASSUME worker[w] \in InHand,
             \E f \in {"kept", "undone", "lost"} :
               fate' = [fate EXCEPT ![row[w]] = f]
      PROVE  [Contract!Next]_(Contract!vars)
  <2>1. row[w] # Nil /\ fate[row[w]] = "taken"
    BY <1>5 DEF HandsMatchFates, InHand
  <2>2. row[w] \in Row
    BY <2>1 DEF TypeOK
  <2>3. Contract!Settle(row[w])
    BY <1>1, <1>2, <1>5, <2>1 DEF Contract!Settle
  <2> QED
    BY <1>1, <2>2, <2>3 DEF Contract!Next
<1>6. CASE Validate(w)
  BY <1>3, <1>5, <1>6 DEF Validate, InHand
<1>7. CASE Finish(w)
  BY <1>3, <1>5, <1>7 DEF Finish, InHand
<1> QED
  BY <1>3, <1>4, <1>6, <1>7 DEF Work, Begin, CallFn, Send, WorkerDone

LEMMA ContractStep == PipelineInv /\ [Next]_vars => [Contract!Next]_(Contract!vars)
<1> SUFFICES ASSUME PipelineInv, [Next]_vars
             PROVE  [Contract!Next]_(Contract!vars)
  OBVIOUS
<1>1. CASE Read \/ CloseResults \/ UNCHANGED vars
  BY <1>1 DEF Read, CloseResults, vars, Contract!vars
<1>2. CASE Return
  BY <1>2, ReturnStep DEF Contract!Next
<1>3. ASSUME NEW w \in Worker, Work(w)
      PROVE  [Contract!Next]_(Contract!vars)
  BY <1>3, WorkStep
<1> QED
  BY <1>1, <1>2, <1>3 DEF Next

\* The import keeps its contract: each row that was taken is settled once, and
\* the result names all of them, as failed exactly when they were undone
\* (processEachData, processData).
THEOREM ContractKept == Spec => KeepsContract
<1>1. Init => Contract!Init
  BY ContractInit
<1>2. PipelineInv /\ [Next]_vars => [Contract!Next]_(Contract!vars)
  BY ContractStep
<1> QED
  BY <1>1, <1>2, PipelineCorrect, PTL DEF Spec, KeepsContract, Contract!Spec
=============================================================================
