------------------------------- MODULE SSEHub -------------------------------
(***************************************************************************)
(* The Server-Sent-Events hub (sse/sse.go).  Four kinds of goroutine meet: *)
(*   - Run, the select loop that owns the client map;                      *)
(*   - one Handle per HTTP connection, which registers itself, forwards    *)
(*     what arrives on its own channel, and unregisters when it returns;   *)
(*   - the callers of Broadcast and SendToClient;                          *)
(*   - Stop, deferred by App.Start.                                        *)
(* register and unregister are unbuffered channels, so a send is a         *)
(* rendezvous with Run; a send on a closed channel panics, and a receive   *)
(* from one yields nil at once.  A panic of Run or Stop ends the process   *)
(* (crashed); a panic in Handle ends that connection.                      *)
(* A message stands for one call of Broadcast or SendToClient.             *)
(***************************************************************************)
EXTENDS Naturals, Sequences, FiniteSets, Functions

CONSTANTS
  Conn,          \* connections, i.e. invocations of Handle
  ID,            \* client IDs (X-Client-ID)
  IdOf,          \* the ID each connection comes with
  Msg,           \* messages; each is passed to one call
  Identified,    \* the messages with a non-empty Message.ID
  ChanCap,       \* capacity of Client.Channel (10)
  BroadcastCap,  \* capacity of hub.broadcast (100)
  MaxSize,       \* capacity of the message buffer
  TTL, MaxClock, \* its time to live, and the bound on its logical clock
  Nil            \* no client / the nil message read from a closed channel

ASSUME HubAssumption ==
  /\ IdOf \in [Conn -> ID]
  /\ Identified \subseteq Msg
  /\ ChanCap \in Nat \ {0}
  /\ BroadcastCap \in Nat \ {0}
  /\ MaxSize \in Nat
  /\ TTL \in Nat
  /\ MaxClock \in Nat
  /\ Nil \notin Conn \cup Msg \cup ID

VARIABLES
  clients,    \* hub.clients
  trackers,   \* IDs known to deliveryManager
  broadcast,  \* contents of hub.broadcast
  run,        \* where Run is: "select", "register", "track", "unregister",
              \* "untrack", "fanout", "returned" or "crashed"
  cur,        \* the client or message Run is working on
  fan,        \* clients the current fan-out has not visited yet
  stop,       \* how far Stop has come
  pc,         \* where each Handle is
  channel,    \* contents of each Client.Channel
  closed,     \* connections whose Channel is closed
  call,       \* where the call that sends each message is
  target,     \* the client SendToClient looked up
  messages,   \* the message buffer, see MessageBuffer
  clock,
  accepted,   \* history: messages hub.broadcast took, in order
  delivered,  \* history: what each Handle wrote to its connection
  skipped     \* history: <<client, message>> a full channel refused

hubVars  == <<clients, trackers, run, cur, fan>>
connVars == <<pc, channel, closed, delivered>>
callVars == <<call, target, messages, clock>>
vars == <<clients, trackers, broadcast, run, cur, fan, stop, pc, channel,
          closed, call, target, messages, clock, accepted, delivered, skipped>>

Buffer == INSTANCE MessageBuffer WITH
            MessageID <- Identified, NoID <- Nil, replay <- Nil

Registered == {clients[id] : id \in ID} \ {Nil}
Active == run # "crashed"           \* the process is alive
ctxDone == stop # "idle"            \* hub.ctx is cancelled
RegisterClosed == stop \in {"register", "done"}
BroadcastClosed == stop \in {"broadcast", "register", "done"}
UnregisterClosed == stop = "done"

-----------------------------------------------------------------------------
(* Handle *)

\* Handle has validated the request and reaches `hub.register <- client'.
Connect(c) ==
  /\ Active
  /\ pc[c] = "new"
  /\ pc' = [pc EXCEPT ![c] = IF RegisterClosed THEN "panicked" ELSE "registering"]
  /\ UNCHANGED <<hubVars, broadcast, stop, channel, closed, callVars,
                 accepted, delivered, skipped>>

\* close(hub.register) wakes a blocked sender with a panic; nothing has
\* been deferred yet.
RegisterPanic(c) ==
  /\ Active
  /\ pc[c] = "registering"
  /\ RegisterClosed
  /\ pc' = [pc EXCEPT ![c] = "panicked"]
  /\ UNCHANGED <<hubVars, broadcast, stop, channel, closed, callVars,
                 accepted, delivered, skipped>>

\* The request's context is done or a heartbeat cannot be written: Handle
\* returns, and its deferred send to hub.unregister is still to come.
Disconnect(c) ==
  /\ Active
  /\ pc[c] = "serving"
  /\ pc' = [pc EXCEPT ![c] = "leaving"]
  /\ UNCHANGED <<hubVars, broadcast, stop, channel, closed, callVars,
                 accepted, delivered, skipped>>

HubStopped(c) ==    \* `<-hub.ctx.Done()'
  /\ ctxDone
  /\ Disconnect(c)

\* `message := <-client.Channel' and sendMessage.  A closed and drained
\* channel yields nil, whose Event field cannot be read: Handle panics, and
\* its deferred send runs while it unwinds.
Receive(c) ==
  /\ Active
  /\ pc[c] = "serving"
  /\ \/ /\ channel[c] # << >>
        /\ channel' = [channel EXCEPT ![c] = Tail(@)]
        /\ IF Head(channel[c]) = Nil
             THEN /\ pc' = [pc EXCEPT ![c] = "unwinding"]
                  /\ UNCHANGED delivered
             ELSE \/ /\ delivered' = [delivered EXCEPT ![c] = Append(@, Head(channel[c]))]
                     /\ UNCHANGED pc
                  \/ /\ pc' = [pc EXCEPT ![c] = "leaving"]   \* the write failed
                     /\ UNCHANGED delivered
     \/ /\ channel[c] = << >>
        /\ c \in closed
        /\ pc' = [pc EXCEPT ![c] = "unwinding"]
        /\ UNCHANGED <<channel, delivered>>
  /\ UNCHANGED <<hubVars, broadcast, stop, closed, callVars, accepted, skipped>>

\* The deferred `hub.unregister <- client' on a closed channel.
UnregisterPanic(c) ==
  /\ Active
  /\ pc[c] \in {"leaving", "unwinding"}
  /\ UnregisterClosed
  /\ pc' = [pc EXCEPT ![c] = "panicked"]
  /\ UNCHANGED <<hubVars, broadcast, stop, channel, closed, callVars,
                 accepted, delivered, skipped>>

-----------------------------------------------------------------------------
(* Run.  In "select" every ready case may be taken. *)

RunReturns ==
  /\ run = "select"
  /\ ctxDone
  /\ run' = "returned"
  /\ UNCHANGED <<clients, trackers, cur, fan, broadcast, stop, connVars,
                 callVars, accepted, skipped>>

\* A nil client read from a closed register or unregister channel is
\* dereferenced.
RunReadsNilClient ==
  /\ run = "select"
  /\ RegisterClosed
  /\ run' = "crashed"
  /\ UNCHANGED <<clients, trackers, cur, fan, broadcast, stop, connVars,
                 callVars, accepted, skipped>>

RunTakesRegister(c) ==
  /\ run = "select"
  /\ pc[c] = "registering"
  /\ ~RegisterClosed
  /\ run' = "register"
  /\ cur' = c
  /\ pc' = [pc EXCEPT ![c] = "serving"]
  /\ UNCHANGED <<clients, trackers, fan, broadcast, stop, channel, closed,
                 callVars, accepted, delivered, skipped>>

RunRegister ==      \* hub.clients[client.ID] = client, under hub.mu
  /\ run = "register"
  /\ clients' = [clients EXCEPT ![IdOf[cur]] = cur]
  /\ run' = "track"
  /\ UNCHANGED <<trackers, cur, fan, broadcast, stop, connVars, callVars,
                 accepted, skipped>>

RunTrack ==         \* deliveryManager.RegisterClient
  /\ run = "track"
  /\ trackers' = trackers \cup {IdOf[cur]}
  /\ run' = "select"
  /\ cur' = Nil
  /\ UNCHANGED <<clients, fan, broadcast, stop, connVars, callVars, accepted,
                 skipped>>

RunTakesUnregister(c) ==
  /\ run = "select"
  /\ pc[c] \in {"leaving", "unwinding"}
  /\ ~UnregisterClosed
  /\ run' = "unregister"
  /\ cur' = c
  /\ pc' = [pc EXCEPT ![c] = IF @ = "leaving" THEN "gone" ELSE "panicked"]
  /\ UNCHANGED <<clients, trackers, fan, broadcast, stop, channel, closed,
                 callVars, accepted, delivered, skipped>>

\* Mutant: the entry stays in the map.
RunUnregisterKeeps ==
  /\ run = "unregister"
  /\ closed' = IF clients[IdOf[cur]] = Nil THEN closed ELSE closed \cup {cur}
  /\ run' = "untrack"
  /\ UNCHANGED <<clients, trackers, cur, fan, broadcast, stop, pc, channel,
                 delivered, callVars, accepted, skipped>>

\* Mutant: the channel that is closed is the one stored in the map.
RunUnregisterStored ==
  /\ run = "unregister"
  /\ closed' = closed \cup ({clients[IdOf[cur]]} \ {Nil})
  /\ clients' = [clients EXCEPT ![IdOf[cur]] = Nil]
  /\ run' = "untrack"
  /\ UNCHANGED <<trackers, cur, fan, broadcast, stop, pc, channel, delivered,
                 callVars, accepted, skipped>>

\* Under hub.mu: if *some* client is stored under this ID, close the channel
\* of the one that unregisters and drop the entry.
RunUnregister ==
  /\ run = "unregister"
  /\ IF clients[IdOf[cur]] = Nil
       THEN /\ run' = "untrack"
            /\ UNCHANGED <<clients, closed>>
       ELSE IF cur \in closed               \* close of a closed channel
         THEN /\ run' = "crashed"
              /\ UNCHANGED <<clients, closed>>
         ELSE /\ closed' = closed \cup {cur}
              /\ clients' = [clients EXCEPT ![IdOf[cur]] = Nil]
              /\ run' = "untrack"
  /\ UNCHANGED <<trackers, cur, fan, broadcast, stop, pc, channel, delivered,
                 callVars, accepted, skipped>>

RunUntrack ==       \* deliveryManager.UnregisterClient
  /\ run = "untrack"
  /\ trackers' = trackers \ {IdOf[cur]}
  /\ run' = "select"
  /\ cur' = Nil
  /\ UNCHANGED <<clients, fan, broadcast, stop, connVars, callVars, accepted,
                 skipped>>

RunTakesLatest ==   \* mutant: the newest broadcast first
  /\ run = "select"
  /\ broadcast # << >>
  /\ cur' = broadcast[Len(broadcast)]
  /\ broadcast' = SubSeq(broadcast, 1, Len(broadcast) - 1)
  /\ fan' = Registered
  /\ run' = "fanout"
  /\ UNCHANGED <<clients, trackers, stop, connVars, callVars, accepted, skipped>>

\* The map is read-locked from here until the fan-out is complete.
RunTakesBroadcast ==
  /\ run = "select"
  /\ \/ /\ broadcast # << >>
        /\ cur' = Head(broadcast)
        /\ broadcast' = Tail(broadcast)
     \/ /\ broadcast = << >>
        /\ BroadcastClosed
        /\ cur' = Nil                        \* the nil message
        /\ UNCHANGED broadcast
  /\ fan' = Registered
  /\ run' = "fanout"
  /\ UNCHANGED <<clients, trackers, stop, connVars, callVars, accepted, skipped>>

RunFanoutGivesUp(c) ==   \* mutant: a full channel ends the loop
  /\ run = "fanout"
  /\ c \in fan
  /\ IF Len(channel[c]) < ChanCap
       THEN /\ channel' = [channel EXCEPT ![c] = Append(@, cur)]
            /\ fan' = fan \ {c}
            /\ UNCHANGED skipped
       ELSE /\ skipped' = skipped \cup {<<c, cur>>}
            /\ fan' = {}
            /\ UNCHANGED channel
  /\ UNCHANGED <<clients, trackers, run, cur, broadcast, stop, pc, closed,
                 delivered, callVars, accepted>>

RunFanout(c) ==     \* one iteration of the loop over hub.clients
  /\ run = "fanout"
  /\ c \in fan
  /\ fan' = fan \ {c}
  /\ IF c \in closed                         \* send on a closed channel
       THEN /\ run' = "crashed"
            /\ UNCHANGED <<channel, skipped>>
       ELSE /\ UNCHANGED run
            /\ IF Len(channel[c]) < ChanCap
                 THEN /\ channel' = [channel EXCEPT ![c] = Append(@, cur)]
                      /\ UNCHANGED skipped
                 ELSE /\ skipped' = skipped \cup {<<c, cur>>}
                      /\ UNCHANGED channel
  /\ UNCHANGED <<clients, trackers, cur, broadcast, stop, pc, closed, delivered,
                 callVars, accepted>>

RunFanoutDone ==
  /\ run = "fanout"
  /\ fan = {}
  /\ run' = "select"
  /\ cur' = Nil
  /\ UNCHANGED <<clients, trackers, fan, broadcast, stop, connVars, callVars,
                 accepted, skipped>>

-----------------------------------------------------------------------------
(* Broadcast and SendToClient *)

NoBuffering(m) == m \in Msg /\ UNCHANGED <<messages, clock>>   \* mutant

\* The part both share: a message with an ID is buffered first.
BufferMessage(m) ==
  IF m \in Identified THEN Buffer!Store(m) ELSE UNCHANGED <<messages, clock>>

Broadcast(m) ==
  /\ Active
  /\ call[m] = "idle"
  /\ BufferMessage(m)
  /\ call' = [call EXCEPT ![m] = "broadcasting"]
  /\ UNCHANGED <<hubVars, broadcast, stop, connVars, target, accepted, skipped>>

\* The select with a default: any ready case, the default only if none is.
\* A send on a closed hub.broadcast is ready, and panics.
SendBroadcast(m) ==
  /\ Active
  /\ call[m] = "broadcasting"
  /\ \/ /\ BroadcastClosed
        /\ call' = [call EXCEPT ![m] = "panicked"]
        /\ UNCHANGED <<broadcast, accepted>>
     \/ /\ ~BroadcastClosed
        /\ Len(broadcast) < BroadcastCap
        /\ broadcast' = Append(broadcast, m)
        /\ accepted' = Append(accepted, m)
        /\ call' = [call EXCEPT ![m] = "accepted"]
     \/ /\ ctxDone
        /\ call' = [call EXCEPT ![m] = "stopped"]
        /\ UNCHANGED <<broadcast, accepted>>
     \/ /\ ~BroadcastClosed
        /\ Len(broadcast) = BroadcastCap
        /\ ~ctxDone
        /\ call' = [call EXCEPT ![m] = "dropped"]
        /\ UNCHANGED <<broadcast, accepted>>
  /\ UNCHANGED <<hubVars, stop, connVars, target, messages, clock, skipped>>

\* SendToClient reads the map under RLock and lets the lock go.
SendToClient(m, id) ==
  /\ Active
  /\ call[m] = "idle"
  /\ target' = [target EXCEPT ![m] = clients[id]]
  /\ call' = [call EXCEPT ![m] = IF clients[id] = Nil THEN "notfound" ELSE "located"]
  /\ UNCHANGED <<hubVars, broadcast, stop, connVars, messages, clock, accepted, skipped>>

BufferDirect(m) ==
  /\ Active
  /\ call[m] = "located"
  /\ BufferMessage(m)
  /\ call' = [call EXCEPT ![m] = "direct"]
  /\ UNCHANGED <<hubVars, broadcast, stop, connVars, target, accepted, skipped>>

SendDirectBlindly(m) ==   \* mutant: a full channel is not an error
  /\ Active
  /\ call[m] = "direct"
  /\ call' = [call EXCEPT ![m] = "sent"]
  /\ channel' = IF Len(channel[target[m]]) < ChanCap
                  THEN [channel EXCEPT ![target[m]] = Append(@, m)]
                  ELSE channel
  /\ UNCHANGED <<hubVars, broadcast, stop, pc, closed, delivered, target,
                 messages, clock, accepted, skipped>>

SendDirect(m) ==
  /\ Active
  /\ call[m] = "direct"
  /\ IF target[m] \in closed
       THEN /\ call' = [call EXCEPT ![m] = "panicked"]
            /\ UNCHANGED channel
       ELSE IF Len(channel[target[m]]) < ChanCap
         THEN /\ channel' = [channel EXCEPT ![target[m]] = Append(@, m)]
              /\ call' = [call EXCEPT ![m] = "sent"]
         ELSE /\ call' = [call EXCEPT ![m] = "full"]
              /\ UNCHANGED channel
  /\ UNCHANGED <<hubVars, broadcast, stop, pc, closed, delivered, target,
                 messages, clock, accepted, skipped>>

-----------------------------------------------------------------------------
(* Stop, called once *)

StopStep(from, to) ==
  /\ Active
  /\ stop = from
  /\ stop' = to

StopCancel ==       \* hub.cancel()
  /\ StopStep("idle", "cancelled")
  /\ UNCHANGED <<hubVars, broadcast, connVars, callVars, accepted, skipped>>

\* Under hub.mu, which a fan-out holds for reading.
StopClear ==
  /\ StopStep("cancelled", "cleared")
  /\ run # "fanout"
  /\ IF Registered \cap closed # {}
       THEN run' = "crashed" /\ UNCHANGED <<clients, closed>>
       ELSE /\ closed' = closed \cup Registered
            /\ clients' = [id \in ID |-> Nil]
            /\ UNCHANGED run
  /\ UNCHANGED <<trackers, cur, fan, broadcast, pc, channel, delivered,
                 callVars, accepted, skipped>>

StopCloseBroadcast ==
  /\ StopStep("cleared", "broadcast")
  /\ UNCHANGED <<hubVars, broadcast, connVars, callVars, accepted, skipped>>

StopCloseRegister ==
  /\ StopStep("broadcast", "register")
  /\ UNCHANGED <<hubVars, broadcast, connVars, callVars, accepted, skipped>>

StopLeavesUnregister ==   \* mutant: close(hub.unregister) is missing
  /\ StopStep("register", "register")
  /\ UNCHANGED <<hubVars, broadcast, connVars, callVars, accepted, skipped>>

StopCloseUnregister ==
  /\ StopStep("register", "done")
  /\ UNCHANGED <<hubVars, broadcast, connVars, callVars, accepted, skipped>>

-----------------------------------------------------------------------------
Init ==
  /\ clients = [id \in ID |-> Nil]
  /\ trackers = {}
  /\ broadcast = << >>
  /\ run = "select"
  /\ cur = Nil
  /\ fan = {}
  /\ stop = "idle"
  /\ pc = [c \in Conn |-> "new"]
  /\ channel = [c \in Conn |-> << >>]
  /\ closed = {}
  /\ call = [m \in Msg |-> "idle"]
  /\ target = [m \in Msg |-> Nil]
  /\ messages = << >>
  /\ clock = 0
  /\ accepted = << >>
  /\ delivered = [c \in Conn |-> << >>]
  /\ skipped = {}

Handle(c) ==
  \/ Connect(c)
  \/ RegisterPanic(c)
  \/ Disconnect(c)
  \/ HubStopped(c)
  \/ Receive(c)
  \/ UnregisterPanic(c)

Run ==
  \/ RunReturns
  \/ RunReadsNilClient
  \/ \E c \in Conn : RunTakesRegister(c) \/ RunTakesUnregister(c) \/ RunFanout(c)
  \/ RunRegister
  \/ RunTrack
  \/ RunUnregister
  \/ RunUntrack
  \/ RunTakesBroadcast
  \/ RunFanoutDone

Send(m) ==
  \/ Broadcast(m)
  \/ SendBroadcast(m)
  \/ \E id \in ID : SendToClient(m, id)
  \/ BufferDirect(m)
  \/ SendDirect(m)

Stop ==
  \/ StopCancel
  \/ StopClear
  \/ StopCloseBroadcast
  \/ StopCloseRegister
  \/ StopCloseUnregister

Next ==
  \/ \E c \in Conn : Handle(c)
  \/ Run
  \/ \E m \in Msg : Send(m)
  \/ Stop

Spec == Init /\ [][Next]_vars

-----------------------------------------------------------------------------
(* Fairness: the Go scheduler runs every goroutine that can run.  A peer   *)
(* need not disconnect and Stop need not be called, but a Stop under way   *)
(* completes, and a ready ctx.Done case of a Handle is taken in the end: a *)
(* select picks among its ready cases at random, so none is neglected for  *)
(* ever, and this holds for the rendezvous with Run as well.  Nothing is   *)
(* assumed of senders and of what a Handle has received.                   *)
StopUnderWay ==
  StopClear \/ StopCloseBroadcast \/ StopCloseRegister \/ StopCloseUnregister

Fairness ==
  /\ WF_vars(Run)
  /\ WF_vars(StopUnderWay)
  /\ \A c \in Conn :
       /\ WF_vars(RegisterPanic(c) \/ UnregisterPanic(c))
       /\ WF_vars(HubStopped(c))
       /\ SF_vars(RunTakesRegister(c))
       /\ SF_vars(RunTakesUnregister(c))

FairSpec == Spec /\ Fairness

-----------------------------------------------------------------------------
RunStates == {"select", "register", "track", "unregister", "untrack",
              "fanout", "returned", "crashed"}
OnClient == {"register", "track", "unregister", "untrack"}
StopStates == {"idle", "cancelled", "cleared", "broadcast", "register", "done"}
HandleStates == {"new", "registering", "serving", "leaving", "unwinding",
                 "gone", "panicked"}
CallStates == {"idle", "broadcasting", "accepted", "stopped", "dropped",
               "located", "notfound", "direct", "sent", "full", "panicked"}

TypeOK ==
  /\ clients \in [ID -> Conn \cup {Nil}]
  /\ trackers \subseteq ID
  /\ broadcast \in Seq(Msg)
  /\ run \in RunStates
  /\ cur \in Conn \cup Msg \cup {Nil}
  /\ run \in OnClient => cur \in Conn
  /\ run = "fanout" => cur \in Msg \cup {Nil}
  /\ fan \subseteq Conn
  /\ stop \in StopStates
  /\ pc \in [Conn -> HandleStates]
  /\ channel \in [Conn -> Seq(Msg \cup {Nil})]
  /\ closed \subseteq Conn
  /\ call \in [Msg -> CallStates]
  /\ target \in [Msg -> Conn \cup {Nil}]
  /\ \A m \in Msg : call[m] \in {"located", "direct", "sent", "full"} => target[m] \in Conn
  /\ accepted \in Seq(Msg)
  /\ delivered \in [Conn -> Seq(Msg)]
  /\ skipped \subseteq Conn \X (Msg \cup {Nil})

\* A client the hub can reach has an open channel: neither a fan-out nor
\* the closing loop of Stop ever meets a closed one, although the channel
\* that `unregister' closes is not the one stored in the map when a later
\* connection has taken over the ID (Run's unregister case, Stop).
RegisteredOpen == Registered \cap closed = {}

\* Run brings the process down only while Stop is past clearing the map: by
\* reading a nil client from a closed channel, or by closing twice the channel
\* of a client Stop had closed (Run's register and unregister cases).
CrashesOnlyDuringStop == run = "crashed" => stop \notin {"idle", "cancelled"}

Ended(c) == pc[c] \in {"gone", "panicked"}
Unregistered(c) == c \notin Registered \cup closed

\* Why the two hold (the inductive invariant): an entry sits under its own
\* ID; a connection is registered and closed at most once each, in this
\* order, because it passes through "registering" once and Run closes only
\* the channel of a handler that has ended; the fan-out holds the lock.
ChannelInv ==
  /\ RegisteredOpen
  /\ CrashesOnlyDuringStop
  /\ \A id \in ID : clients[id] # Nil => IdOf[clients[id]] = id
  /\ \A c \in Conn : pc[c] \in {"new", "registering"} => Unregistered(c)
  /\ run = "register" => Unregistered(cur) /\ pc[cur] \notin {"new", "registering"}
  /\ run = "unregister" => Ended(cur)
  /\ run = "fanout" => fan \subseteq Registered
  /\ stop \in {"idle", "cancelled"} =>
       \A c \in closed : Ended(c) /\ ~ (run = "unregister" /\ cur = c)

\* Every client gets broadcasts in the order hub.broadcast took them, none
\* of them twice, whatever SendToClient calls and full channels come between.
BroadcastsInOrder ==
  \A c \in Conn :
    LET got == delivered[c] \o channel[c]
    IN  \A i, j \in DOMAIN got, k, l \in DOMAIN accepted :
          i < j /\ got[i] = accepted[k] /\ got[j] = accepted[l] => k < l

\* A fan-out accounts for every client in the map: by its end a client that
\* is still connected has the message, or its channel was full (Run).
FanoutAccountsForAll ==
  run = "fanout" =>
    \A c \in Registered \ fan :
      \/ pc[c] # "serving"
      \/ <<c, cur>> \in skipped
      \/ cur \in Range(delivered[c] \o channel[c])

\* What a client has received and can name as its last message is still
\* buffered, unless the buffer is full or time has passed (Broadcast and
\* SendToClient buffer before they send).
DeliveredIsReplayable ==
  \A c \in Conn :
    \A m \in Range(delivered[c]) \cap Identified :
      m \in DOMAIN messages \/ Cardinality(DOMAIN messages) = MaxSize

\* Whoever SendToClient reports success for is a client of that message's
\* addressee, and the message waits in its channel, was written, or its
\* connection has ended meanwhile.
SentIsNotLost ==
  \A m \in Msg :
    call[m] = "sent" =>
      \/ pc[target[m]] # "serving"
      \/ m \in Range(delivered[target[m]] \o channel[target[m]])

\* "Broadcast sends a message to all connected clients" (sse.go:170): between
\* two iterations of Run, an ID that has a connection being served is in the
\* map.  It holds as long as no two connections come with the same ID.
ConnectedIsReachable ==
  run = "select" /\ stop = "idle" =>
    \A c \in Conn : pc[c] = "serving" => clients[IdOf[c]] # Nil

\* Nothing panics before Stop closes the channels: not Run, and no handler,
\* neither by a nil message read from a closed channel, nor by a send on one
\* (Run, Handle).
PanicsOnlyDuringStop ==
  /\ CrashesOnlyDuringStop
  /\ stop \in {"idle", "cancelled"} =>
       \A c \in Conn : pc[c] \notin {"unwinding", "panicked"}

\* No handler waits for ever to register or to unregister, Run takes it or
\* Stop closes the channel it waits on: a moment comes when none waits
\* (Handle's two sends).  And once Stop has been called, a moment comes when
\* no connection is left.
Waiting(c) == pc[c] \in {"registering", "leaving", "unwinding"}

ConnectionsEnd ==
  /\ (\E c \in Conn : Waiting(c)) ~> run = "crashed" \/ \A c \in Conn : ~Waiting(c)
  /\ ctxDone ~> run = "crashed" \/ \A c \in Conn : Ended(c) \/ pc[c] = "new"
=============================================================================
